\* Overlapping deletes, a concurrent launch, crashes, lost requests, a reallocated address.
CONSTANTS
    Plans <- MCPlans
    MaxIssue = 4
SPECIFICATION FairSpec
INVARIANTS
    OthersKeepTheirs
    FinalizerLast
    OneFirewallOwner
PROPERTIES
    RemovalEnds
CHECK_DEADLOCK FALSE

CONSTANTS
    Services = {"s1", "s2"}
    Policies = {"p", "q", "r", "invalid"}
    FirstPolicy <- MCFirst
    Confirmations = 2
    Plans <- MCPlans
SPECIFICATION FairSpec
INVARIANTS OneWrite ClosedBetweenPolicies GoneIsWithdrawn NoOrphan
PROPERTIES ServicesServe CleanupEnds
CHECK_DEADLOCK FALSE

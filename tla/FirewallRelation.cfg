\* A replaced Node, overlapping controllers, a full VM, a request that never commits.
CONSTANTS
    Controllers = {"a", "b"}
    Owners = {"icmp", "shard", "s1", "s2"}
    VMs = {1, 2}
    Ids = {1, 2, 3, 4, 5, 6, 7}
    Plans <- MCPlans
SPECIFICATION FairSpec
INVARIANTS
    OneRequest
    ReadyIsProtected
    WithinLimit
PROPERTIES
    NodesServe
    OthersProceed
CHECK_DEADLOCK FALSE

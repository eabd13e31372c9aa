SPECIFICATION Spec
CONSTANTS
    p1 = p1
    p2 = p2
    Procs = {p1, p2}
    Targets = {1, 2, 3}
    Rules = {1, 2}
    MaxLBs = 2
    MaxFIPs = 2
    Plans <- LatePlans
CHECK_DEADLOCK FALSE
INVARIANT OneRecreate

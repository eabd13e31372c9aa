SPECIFICATION Spec
CONSTANTS
    p1 = p1
    p2 = p2
    Procs = {p1, p2}
    Slots = {0, 1, 2, 3}
    MaxVMs = 2
    Nil = Nil
    Plans <- MCPlans
SYMMETRY Symmetry
INVARIANTS ReceiptsValid NoStrayAddress
PROPERTIES RemovalsNotReplayed DoneMeansGone OneShotCreates

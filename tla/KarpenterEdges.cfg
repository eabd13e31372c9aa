\* Each of the three properties is refuted, and TLC stops at the first: leave
\* one of them at a time.
SPECIFICATION FullyFairSpec
CONSTANTS
    Creators = {c1}
    None = None
PROPERTIES
    LateVMIsReaped
    OperatorVMConsumed
    DecisionsAreFinal
CHECK_DEADLOCK FALSE

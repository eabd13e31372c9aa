SPECIFICATION Spec
CONSTANTS
    p1 = p1
    p2 = p2
    Procs = {p1, p2}
    Slots = {0, 1}
    MaxVMs = 2
    Nil = Nil
    Plans <- MCLife
PROPERTIES IssuedIsKept

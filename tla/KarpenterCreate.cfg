SPECIFICATION Spec
CONSTANTS
    Creators = {c1, c2}
    None = None
SYMMETRY Symmetry
INVARIANTS
    AtMostOnePost
    NoEscape
    PublishedIsSafe
CHECK_DEADLOCK FALSE

SPECIFICATION FairSpec
CONSTANTS
    Creators = {c1}
    None = None
PROPERTY AnchoredIsReaped
CHECK_DEADLOCK FALSE

SPECIFICATION Spec
CONSTANTS
    N = 1
    Loaders = {"TXT"}
    MaxFiles = 2
    MaxPages = 0
    Modulus = 8
INVARIANT
    ShowsRemainingWork
CHECK_DEADLOCK FALSE

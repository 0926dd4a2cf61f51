SPECIFICATION Spec
CONSTANTS
    Nicks = {a, b}
    NoOne = NoOne
    Gone = Gone
    BoxMax = 1
    MaxBlocks = 1
    MemoDrop = 1
    NickDrop = 2
    Opers = {b}
    Addr = {m1, m2}
    MaxMisfiled = 1
    MaxSettings = 1
SYMMETRY Symmetry
CHECK_DEADLOCK FALSE
INVARIANT InOneBox
INVARIANT PlainAtHome
PROPERTY RestartKeeps

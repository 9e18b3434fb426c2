SPECIFICATION Spec
CONSTANTS
    PieceLengths = {3}
    Lengths = {0, 2, 3}
    MaxFiles = 3
    MaxTotal = 5
    Word = 65536
    HashSize = 2
INVARIANTS
    BlockRead
CHECK_DEADLOCK FALSE

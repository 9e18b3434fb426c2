SPECIFICATION Spec
CONSTANTS
    PieceLengths = {1, 2, 3}
    Lengths = {1, 2, 3, 4, 5, 7}
    MaxFiles = 3
    MaxTotal = 8
    Word = 65536
    HashSize = 2
INVARIANTS
    BytesInPlace
    BlockRead
    LastPieceSized
    MetainfoRead
    InfoHashRight
CHECK_DEADLOCK FALSE

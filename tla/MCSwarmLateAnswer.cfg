SPECIFICATION Spec
CONSTANTS
    Peers = {p1, p2}
    Pieces = {a, b}
    NoPiece = NoPiece
    BlockCount <- Blocks
    NumBlocks = 1
    RemoteHas <- Offers
    Seeds = {p1, p2}
    First = a
    Window = 1
    Workers = {w1}
    EndGamePercent = 100
    Events = {"timeout", "late"}
    StrandCap = 2
    JobCap = 1
    ShortLast = {}
    BeginCap = 9
SYMMETRY Symmetry
INVARIANTS
    Integrity
CHECK_DEADLOCK FALSE

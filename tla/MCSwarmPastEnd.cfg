SPECIFICATION Spec
CONSTANTS
    Peers = {p1}
    Pieces = {a, b}
    NoPiece = NoPiece
    BlockCount <- Blocks
    NumBlocks = 3
    RemoteHas <- Offers
    Seeds = {p1}
    First = a
    Window = 2
    Workers = {w1}
    EndGamePercent = 100
    Events = {}
    StrandCap = 2
    JobCap = 1
    ShortLast = {b}
    BeginCap = 3
INVARIANTS
    RequestsInRange
CHECK_DEADLOCK FALSE

SPECIFICATION Spec
CONSTANTS
    Peers = {p1}
    Pieces = {a, b}
    NoPiece = NoPiece
    BlockCount <- Blocks
    NumBlocks = 0
    RemoteHas <- Offers
    Seeds = {p1}
    First = a
    Window = 2
    Workers = {w1}
    EndGamePercent = 100
    Events = {"beyond"}
    StrandCap = 2
    JobCap = 1
    ShortLast = {}
    BeginCap = 3
INVARIANTS
    NoCrash
CHECK_DEADLOCK FALSE

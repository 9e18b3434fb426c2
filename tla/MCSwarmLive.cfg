SPECIFICATION FairSpec
CONSTANTS
    Peers = {p1, p2}
    Pieces = {a, b}
    NoPiece = NoPiece
    BlockCount <- Blocks
    NumBlocks = 2
    RemoteHas <- Offers
    Seeds = {p1}
    First = a
    Window = 2
    Workers = {w1}
    EndGamePercent = 100
    Events = {"timeout", "keepalive"}
    StrandCap = 2
    JobCap = 1
    ShortLast = {}
    BeginCap = 9
PROPERTIES
    EventuallyDownloaded
CHECK_DEADLOCK FALSE

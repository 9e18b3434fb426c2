SPECIFICATION Spec
CONSTANTS
    Peers = {p1}
    Pieces = {a, b}
    NoPiece = NoPiece
    BlockCount <- Blocks
    NumBlocks = 3
    RemoteHas <- Offers
    Seeds = {p1}
    First = a
    Window = 2
    Workers = {w1}
    EndGamePercent = 100
    Events = {"choke", "disconnect", "timeout", "corrupt", "have", "interested", "resize"}
    StrandCap = 2
    JobCap = 1
    ShortLast = {}
    BeginCap = 3
INVARIANTS
    WindowAdvances
    PastEndOnlyBetweenWindows
    BufferNotReused
CHECK_DEADLOCK FALSE

SPECIFICATION Spec
CONSTANTS
    Peers = {p1, p2}
    Pieces = {a, b}
    NoPiece = NoPiece
    BlockCount <- Blocks
    NumBlocks = 1
    RemoteHas <- Offers
    Seeds = {p1, p2}
    First = a
    Window = 1
    Workers = {w1}
    EndGamePercent = 50
    Events = {"corrupt"}
    StrandCap = 1
    JobCap = 1
    ShortLast = {}
    BeginCap = 9
SYMMETRY Symmetry
INVARIANTS
    TypeOK
    Integrity
    NoCrash
    RequestsForActive
    RequestedHasOwner
CHECK_DEADLOCK FALSE

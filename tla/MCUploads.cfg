CONSTANTS
    Peers = {p1, p2}
    NoPeer = NoPeer
    Pieces = {i1}
    BadPiece = BadPiece
    Begins = {0}
    Ids = {i1, c1, c2}
    Workers = {w1, w2}
    MaxRequests = 2
SPECIFICATION FairSpec
INVARIANT RequestsAccounted
PROPERTY EveryRequestAnswered
CHECK_DEADLOCK FALSE

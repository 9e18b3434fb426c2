CONSTANTS
    t1 = t1
    t2 = t2
    Trackers = {t1, t2}
    Kind <- Mixed
    Endpoints = 3
    MaxConnect = 4
    MaxAnnounce = 3
    MaxPeers = 2
    Malformed = TRUE
SPECIFICATION FairSpec
INVARIANTS TypeOK StaleTimerHarmless BestFirst
PROPERTY TryConnectReturns
CHECK_DEADLOCK FALSE

CONSTANTS
    IPs = {own, a}
    OwnIP = own
    MaxClients = 2
    MaxConnect = 3
    Events = {"wrong", "keepalive"}
SPECIFICATION FairSpec
INVARIANTS TypeOK SubscribersLive OneChain StaleTimerHarmless
PROPERTIES EveryClientSettles SilentRemoteDropped
CHECK_DEADLOCK FALSE

SPECIFICATION FairSpec
CONSTANTS
    Threads = {t1, t2, t3}
    Free = Free
    Ids = {i1, i2}
    MaxJobs = 3
    Uses = {{"spurious"}, {"early", "stop", "quit", "spurious"}}
INVARIANTS
    TypeOK
    JobsAccounted
    CallbacksMatch
    NoLostWakeup
PROPERTIES
    ImplementsPool
    EveryJobStarts
CHECK_DEADLOCK FALSE

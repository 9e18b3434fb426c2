SPECIFICATION FairSpec
CONSTANTS
    Threads = {t1}
    Free = Free
    Ids = {i1, i2, i3}
    MaxJobs = 1
    Uses = {{"quit"}}
PROPERTY
    DestructorReturns
CHECK_DEADLOCK FALSE

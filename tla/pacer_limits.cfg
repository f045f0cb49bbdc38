SPECIFICATION FairSpec
CONSTANTS
    t1 = t1
    t2 = t2
    Threads = {t1, t2}
    NoThread = NoThread
    Keys <- EndpointNames
    Limits <- Endpoints
    MaxWait = 4
    MaxRetries = 1
    Backoff <- Doubling
    MaxTime = 4
INVARIANTS LimitsKept AttemptsPaced
PROPERTY EveryCallEnds

SPECIFICATION FairSpec
CONSTANTS
    NULL = NULL
    Registered <- EveryHandler
    Pods = {p1, p2}
    Tasks = {1, 2}
    Timeout = 1
    LOCK_TTL_BUFFER = 1
    TaskMaxRuns = 1
    RowMaxRuns = 1
    Backoff = 1
    Cap = 1
    SuccessRetention = 0
    FailureRetention = 1
    Lag = 0
    MaxTime = 3
    MaxCrashes = 1
    MaxStops = 0
    MaxFaults = 0
INVARIANTS SoftCap
PROPERTIES EventuallyRuns

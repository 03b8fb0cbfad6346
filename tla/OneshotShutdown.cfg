SPECIFICATION Spec
CONSTANTS
    NULL = NULL
    Registered <- EveryHandler
    Pods = {p1, p2}
    Tasks = {1}
    Timeout = 1
    LOCK_TTL_BUFFER = 3
    TaskMaxRuns = 1
    RowMaxRuns = 1
    Backoff = 1
    Cap = NULL
    SuccessRetention = 1
    FailureRetention = 1
    Lag = 1
    MaxTime = 7
    MaxCrashes = 0
    MaxStops = 1
    MaxFaults = 0
SYMMETRY PodSymmetry
INVARIANTS RunningRowRecoverable

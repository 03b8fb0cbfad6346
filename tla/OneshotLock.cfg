SPECIFICATION Spec
CONSTANTS
    NULL = NULL
    Registered <- EveryHandler
    Pods = {p1, p2}
    Tasks = {1}
    Timeout = 1
    LOCK_TTL_BUFFER = 3
    TaskMaxRuns = 2
    RowMaxRuns = 1
    Backoff = 1
    Cap = NULL
    SuccessRetention = 0
    FailureRetention = 1
    Lag = 0
    MaxTime = 7
    MaxCrashes = 1
    MaxStops = 1
    MaxFaults = 1
SYMMETRY PodSymmetry
INVARIANTS TypeOK MutualExclusion AtLeastOnce OneJobPerRow
PROPERTIES FencedWrites KeepsContract

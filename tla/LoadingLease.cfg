SPECIFICATION Spec
CONSTANTS
    Callers = {c1, c2, c3}
    LoadTimeout = 1
    LeaseTTL = 3
    WaitTimeout = 3
    PollInterval = 2
    ValueTTL = 3
    Lag = 0
    MaxTime = 6
    MaxCalls = 3
    MaxSets = 1
    MaxFaults = 1
SYMMETRY CallerSymmetry
CHECK_DEADLOCK FALSE
INVARIANTS TypeOK SingleLoader LoadedOnce BoundedWait TimeoutAfterHandover NoStaleLoad
PROPERTIES SupersededIsHarmless

SPECIFICATION FairSpec
CONSTANTS
    NULL = NULL
    Stores = {"sql", "redis"}
    Pods = {p1, p2}
    LockTTL = 3
    JobTime = 2
    Cron = FALSE
    Interval = 3
    JitterFor <- MCJitter
    MaxTime = 6
    MaxMishaps = 2
INVARIANTS OnePodRuns
PROPERTIES KeepsRunning LastRunAdvances

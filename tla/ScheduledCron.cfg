SPECIFICATION FairSpec
CONSTANTS
    NULL = NULL
    Stores = {"sql"}
    Pods = {p1}
    LockTTL = 3
    JobTime = 2
    Cron = TRUE
    Interval = 3
    JitterFor <- MCNoJitter
    MaxTime = 8
    MaxMishaps = 0
PROPERTIES KeepsRunning

SPECIFICATION FairSpec
CONSTANTS
    NULL = NULL
    Pods = {p1, p2}
    LockTTL = 2
    JobTime = 3
    Cooldown = 2
    MaxSubmits = 2
    MaxTime = 6
    MaxMishaps = 2
INVARIANTS TypeOK NoLostRequest
PROPERTIES RunAtMonotone EventuallyCovered

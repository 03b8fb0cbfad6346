SPECIFICATION Spec
CONSTANTS
    t1 = t1
    t2 = t2
    Tasks = {t1, t2}
    PubSubs = {s1}
    Monitors = {m1}
    Pipelines = {p1}
    Owner <- OneOwner
    Maximum = 2
    NULL = NULL
CHECK_DEADLOCK FALSE
INVARIANTS TypeOK PermitsExact Barrier
PROPERTIES CloseEnds

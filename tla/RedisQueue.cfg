SPECIFICATION Spec
CONSTANTS
    NULL = NULL
    Envs = {"prod", "local"}
    Prefix <- MCPrefix
    Names <- MCNames
    BizNames = {b1}
    Submitters = {s1, s2}
    MaxTasks = 2
    Stores = {"redis", "sql"}
    Pods = {p1, p2}
    EnvOf <- MCEnvOf
    MaxMishaps = 1
CHECK_DEADLOCK FALSE
INVARIANTS TypeOK Isolated
PROPERTIES KeepsContract Deduplicated EventuallyRuns

SPECIFICATION Spec
CONSTANTS
    w1 = w1
    w2 = w2
    Shared = Shared
    Own = Own
    v1 = v1
    v2 = v2
    Workers = {w1, w2}
    N = 3
    TaskOf <- MCTaskOf
    LogOf <- MCLogOf
    OfflineTasks = {Own}
    Variants = {v1}
    MaxRetries = 1
    ResponseFormat = TRUE
    Caching = TRUE
    DiskMayFail = TRUE
    UseVerifier = TRUE
    Settings <- WithFallback
INVARIANTS TypeOK StatsAccount AlwaysObliged
CHECK_DEADLOCK FALSE

SPECIFICATION Spec
CONSTANTS
    MaxShares = 3
    Taken = {1}
    MaxUpdates = 3
    Workers = {w1, w2}
    Flushers = {f1, f2}
    Faults = {"auth", "persist", "enqueue", "pop", "putback", "redis", "read", "block", "crash"}
    MaxFaults = 2
    NULL = NULL
CHECK_DEADLOCK FALSE
INVARIANTS PhonesSound CalmOrderSeesRow
PROPERTIES PhonesArrive

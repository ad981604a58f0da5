SPECIFICATION FormSpec
CONSTANTS
    Threads = {t1}
    Phones = {ph1}
    Choices = {trial}
    Workers = {w1}
    MaxPlans = 3
    MaxQueue = 2
    Troubles = {"telegram", "db", "redis", "save", "crash"}
    MaxTroubles = 2
    Again = {"db", "redis"}
    NULL = NULL
SYMMETRY Interchangeable
CHECK_DEADLOCK FALSE
INVARIANT OnePlanPerPhone

SPECIFICATION FormSpec
CONSTANTS
    Threads = {t1, t2}
    Phones = {ph1}
    Choices = {trial}
    Workers = {w1, w2}
    MaxPlans = 1
    MaxQueue = 1
    Troubles = {"overlap", "telegram", "db", "redis", "save", "crash"}
    MaxTroubles = 2
    Again = {"db", "redis"}
    NULL = NULL
SYMMETRY Interchangeable
CHECK_DEADLOCK FALSE
INVARIANTS FormsSound PlansAsAnswered

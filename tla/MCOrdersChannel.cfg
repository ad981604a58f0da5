CONSTANTS
    o1 = o1
    o2 = o2
    c1 = c1
    e1 = e1
    e2 = e2
    almaty = almaty
    NULL = NULL
    OrderIds = {o1}
    Executors = {e1}
    Clients = {c1}
    Cities = {almaty}
    Messages = {m1, m2}
    ClientOf <- MCClientOf
    CityOf <- MCCityOf
    Taxi = {}
    Faults = {"telegram", "commit", "crash", "unbound", "late"}
    MaxTasks = 2
SPECIFICATION Spec
SYMMETRY MessageSymmetry
INVARIANTS CacheAgreesWithRow MemoryAgrees

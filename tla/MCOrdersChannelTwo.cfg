CONSTANTS
    o1 = o1
    o2 = o2
    c1 = c1
    e1 = e1
    e2 = e2
    almaty = almaty
    NULL = NULL
    OrderIds = {o1, o2}
    Executors = {e1, e2}
    Clients = {c1}
    Cities = {almaty}
    Messages = {m1, m2, m3}
    ClientOf <- MCClientOf
    CityOf <- MCCityOf
    Taxi = {o1}
    Faults = {}
    MaxTasks = 1
SPECIFICATION FairSpec
INVARIANTS MemoryAgrees OpenOrderKeepsCard
PROPERTIES OpenOrderIsOffered

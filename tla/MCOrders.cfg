CONSTANTS
    o1 = o1
    o2 = o2
    c1 = c1
    c2 = c2
    almaty = almaty
    astana = astana
    NULL = NULL
    OrderIds = {o1, o2}
    Executors = {e1, e2}
    Clients = {c1, c2}
    Cities = {almaty, astana}
    Messages = {m1}
    ClientOf <- MCClientOf
    CityOf <- MCCityOf
SPECIFICATION FairSpec
INVARIANTS Ownership CompletionsFit
PROPERTIES NoHandOver GainingSetsFlag ImplementsLifecycle OrdersLeave

\* One chat, two updates and two ticks in flight, one trouble of any kind.
SPECIFICATION Spec
CONSTANTS
    NULL = NULL
    Workers = {w1, w2}
    Ticks = {t1, t2}
    MaxUpdates = 3
    MaxPlanned = 2
    MaxTroubles = 1
    Troubles <- EveryTrouble
CHECK_DEADLOCK FALSE
INVARIANTS SessionsSound
PROPERTIES StoredKept NotifiedInTime

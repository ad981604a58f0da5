CONSTANTS
    e1 = e1
    p1 = p1
    NULL = NULL
    Users <- MCUsers
    Payments <- MCPayments
    Payer <- MCPayer
    Workers <- MCWorkers
    FirstEnds <- MCFirstEnds
    Faults <- MCFaults
    Days = 2
    Warn = 1
    MaxTime = 2
    MaxEvents = 3
SPECIFICATION Spec
CHECK_DEADLOCK FALSE
INVARIANTS PaymentsSound AccountsAgree
PROPERTIES DaysLeftStay EndedIsOut

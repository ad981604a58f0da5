\* One plan, one handler at a time, every kind of command, any two failures.
CONSTANTS
    ph1 = ph1
    NULL = NULL
    MaxPlans = 1
    Phones = {ph1}
    Days = {1}
    Stages = 2
    Commands = {"create", "extend", "set-start", "block", "unblock", "comment", "toggle", "status", "delete"}
    Faults = {"statement", "answer", "telegram", "redis", "job", "crash"}
    MaxFaults = 2
    MaxTasks = 1
    MaxMutations = 2
SPECIFICATION Spec
CHECK_DEADLOCK FALSE
INVARIANTS RemindersSound
PROPERTIES KeepsReminder

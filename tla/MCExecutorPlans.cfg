\* One plan, two handlers at a time, three commands, statements that fail.
CONSTANTS
    ph1 = ph1
    NULL = NULL
    MaxPlans = 1
    Phones = {ph1}
    Days = {1}
    Stages = 2
    Commands = {"create", "extend", "block", "unblock"}
    Faults = {"statement"}
    MaxFaults = 2
    MaxTasks = 2
    MaxMutations = 3
SPECIFICATION Spec
CHECK_DEADLOCK FALSE
INVARIANTS CommandsKept AppliedOnce
PROPERTIES KeepsReminder

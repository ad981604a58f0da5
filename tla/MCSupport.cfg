SPECIFICATION Spec
CONSTANTS
    Users = {e}
    Moderators = {m1, m2}
    MaxThreads = 2
    MaxPrompts = 2
    Workers = {w1, w2}
    Faults = {"channel", "search", "copy", "insert", "prompt", "keyboard", "update",
              "session", "crash"}
    MaxFaults = 2
    NULL = NULL
SYMMETRY Interchangeable
CHECK_DEADLOCK FALSE
INVARIANTS MapsFit OneOpenRequest OpenRowsAnswerable ClosedIsForgotten

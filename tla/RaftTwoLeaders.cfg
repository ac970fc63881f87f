CONSTANTS
    a = a
    b = b
    none = none
    Node = {1, 2, 3}
    Command = {a}
    EmptyCommand = none
    Faults = {"crash", "restart"}
    Concurrent = FALSE
    MaxTerm = 2
    MaxLog = 1
    MaxDown = 1
SPECIFICATION Spec
INVARIANT OneLeaderPerTerm
CHECK_DEADLOCK FALSE

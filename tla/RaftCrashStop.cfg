CONSTANTS
    a = a
    b = b
    none = none
    Node = {1, 2, 3, 4}
    Command = {a}
    EmptyCommand = none
    Faults = {"crash", "isolate"}
    Concurrent = FALSE
    MaxTerm = 2
    MaxLog = 1
    MaxDown = 1
SPECIFICATION Spec
VIEW View
INVARIANTS
    TypeOK
    ElectionSafety
CHECK_DEADLOCK FALSE

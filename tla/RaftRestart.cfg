CONSTANTS
    a = a
    b = b
    none = none
    Node = {1, 2, 3}
    Command = {a}
    EmptyCommand = none
    Faults = {"crash", "restart"}
    Concurrent = FALSE
    MaxTerm = 3
    MaxLog = 2
    MaxDown = 1
SPECIFICATION FairSpec
VIEW View
CONSTRAINT ElectionSafety
INVARIANTS
    LeaderCompleteness
    ElectableComplete
PROPERTY Convergence
CHECK_DEADLOCK FALSE

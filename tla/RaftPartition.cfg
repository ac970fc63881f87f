CONSTANTS
    a = a
    b = b
    none = none
    Node = {1, 2, 3}
    Command = {a, b}
    EmptyCommand = none
    Faults = {"disconnect", "reconnect", "recover"}
    Concurrent = TRUE
    MaxTerm = 2
    MaxLog = 2
    MaxDown = 0
SPECIFICATION Spec
VIEW View
CONSTRAINT ElectionSafety
SYMMETRY Commands
INVARIANTS
    NextIndexInRange
    LogTermsOrdered
    RoundUndisturbed
    MatchIndexSound
    AppliedAgree
    AppliedIsLog
    LogMatching
CHECK_DEADLOCK FALSE

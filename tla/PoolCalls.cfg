CONSTANTS
    c1 = c1
    c2 = c2
    Client = {c1, c2}
    PoolSize = 2
    MaxPages = 4
    MaxVersion = 2
    WrittenPages = {0, 1, 2}
    MaxPins = 2
    Concurrent = FALSE
    MayCrash = TRUE
    MissingPages = {3}
SPECIFICATION Spec
SYMMETRY Clients
INVARIANTS
    FetchedIsLatest
    FramesAccounted
    CleanMatchesDisk
PROPERTIES
    FlushAllCleans
    ImplementsPageStore
CHECK_DEADLOCK FALSE

CONSTANTS
    c1 = c1
    c2 = c2
    Client = {c1, c2}
    PoolSize = 2
    MaxPages = 3
    MaxVersion = 1
    WrittenPages = {0}
    MaxPins = 2
    Concurrent = TRUE
    MayCrash = FALSE
    MissingPages = {2}
SPECIFICATION FairSpec
VIEW View
INVARIANTS
    TypeOK
    FetchedIsLatest
PROPERTY NoLostWakeup

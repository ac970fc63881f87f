CONSTANTS
    s1 = s1
    s2 = s2
    s3 = s3
    Session = {s1, s2, s3}
    MaxTxn = 4
    MaxRestarts = 2
    MaxTxnAgain = 1
    MaxTransactions = 4
    DataLen = 1
    Redelete = FALSE
    PageUserDataSize = 12
    TupleHeaderSize = 2
    SlotEntrySize = 1
    SlotDirHeaderSize = 1
SPECIFICATION Spec
SYMMETRY Sessions
INVARIANTS
    TypeOK
    SnapshotRead
    VersionsAgree
    HintsTrue
    OutcomeDurable
    OutcomeSurvives
    TuplesDisjoint
PROPERTY RepeatableRead
CHECK_DEADLOCK FALSE

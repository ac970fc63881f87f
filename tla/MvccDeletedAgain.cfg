CONSTANTS
    s1 = s1
    s2 = s2
    s3 = s3
    Session = {s1, s2}
    MaxTxn = 4
    MaxRestarts = 0
    MaxTxnAgain = 0
    MaxTransactions = 5
    DataLen = 1
    Redelete = TRUE
    PageUserDataSize = 9
    TupleHeaderSize = 2
    SlotEntrySize = 1
    SlotDirHeaderSize = 1
SPECIFICATION Spec
SYMMETRY Sessions
INVARIANT SnapshotRead
CHECK_DEADLOCK FALSE

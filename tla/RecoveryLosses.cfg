CONSTANTS
    p1 = p1
    p2 = p2
    PageId = {p1, p2}
    Txn = {1, 2}
    Blank = 0
    BufferSlots = 2
    MaxLsn = 6
    MaxCrashes = 2
    Epochs = 1
    Kinds = {"UPDATE", "DELETE"}
SPECIFICATION Spec
SYMMETRY Pages
CHECK_DEADLOCK FALSE
INVARIANTS
    RecoversWhatItLogged

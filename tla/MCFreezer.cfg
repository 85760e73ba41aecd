SPECIFICATION RowsSpec
CONSTANTS
    Tables = {t1, t2}
    Values = {v1, v2}
    MaxItems = 3
    MaxBatch = 2
    MaxCrashes = 1
SYMMETRY MCSymmetry

INVARIANTS
    StoreSound
    SyncKeeps

PROPERTIES
    ImplementsStore

CHECK_DEADLOCK FALSE

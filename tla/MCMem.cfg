CONSTANTS
    COUNT = 2
    MaxTxn = 6
    MaxPage = 10
    MaxData = 2
    MaxOps = 1
    DataClasses = {"c", "d"}
    Cases = {}
SPECIFICATION Spec
INVARIANTS OneUse NoLeak SnapshotsIntact
CHECK_DEADLOCK FALSE

CONSTANTS
    Cursors = {c1, c2}
    Keys = {k1}
    Vals = {v1}
    Missing = Missing
    NoCursor = NoCursor
    NoMap = NoMap
    MaxTxn = 5
    MaxPage = 6
    CrashPoints <- MCCrashNever
    MaxRefs = 7
    Faults = {}
SPECIFICATION Spec
INVARIANTS NoPageInUseRecycled RefsExact NewTxnUnreferenced
PROPERTIES ViewsMoveForward ImplementsSnapshots
SYMMETRY MCSymmetry

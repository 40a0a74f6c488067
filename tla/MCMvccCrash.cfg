CONSTANTS
    Cursors = {c1, c2}
    Keys = {k1}
    Vals = {v1, v2}
    Missing = Missing
    NoCursor = NoCursor
    NoMap = NoMap
    MaxTxn = 3
    MaxPage = 5
    MaxRefs = 7
    CrashPoints <- MCCrashOutsideWindows
    Faults = {}
SPECIFICATION Spec
INVARIANTS RefsCoverCursors StartsFromCommitted
PROPERTIES ImplementsSnapshots
SYMMETRY MCSymmetry

CONSTANTS
    Cursors = {c1, c2}
    Keys = {k1}
    Vals = {v1}
    Missing = Missing
    NoCursor = NoCursor
    NoMap = NoMap
    MaxTxn = 2
    MaxPage = 6
    MaxRefs = 7
    CrashPoints <- MCCrashAnywhere
    Faults = {"full", "repair"}
SPECIFICATION Spec
INVARIANTS TypeOK NextTxnPageReady


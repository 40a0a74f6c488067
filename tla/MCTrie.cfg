SPECIFICATION Spec
CONSTANTS
    Group = 2
    MaxText = 2
    Rooms = {4, 5, 7, 10}
    MaxStack = 5
    Keys <- FewKeys
    SmallValues = {1}
    BigValues = {9}
    Sources <- FewSources
    Rejects <- FewRejects
    Corners = {}
    MaxOps = 3
    MaxCommits = 1
INVARIANTS
    TrieRight
    SnapshotRight
    PagesExact
    PositionRight
    WellFormed
CHECK_DEADLOCK FALSE

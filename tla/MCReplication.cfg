SPECIFICATION Spec
CONSTANTS
    Keys <- ThreeKeys
    SmallValues <- OneSmall
    BigValues <- OneBig
    Stamps <- OneStamp
    RetiredKeys <- OneKey
    BigKeys <- TwoKeys
    Cap = 2
    MaxDepth = 1
    Budgets = {1, 9}
    ChunkUnits = 3
    TmpBig = 1
    MaxBig = 2
    MaxSessions = 2
    MaxEvents = 1
    None = None
    Overlap = {"R"}
INVARIANTS
    
    PendingAgrees
    
PROPERTIES
    CompleteDelivers
    NoResurrection
    
CHECK_DEADLOCK FALSE

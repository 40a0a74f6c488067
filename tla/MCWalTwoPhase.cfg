CONSTANTS
    MaxLabel = 4
    MaxCrash = 2
    Threshold = 2
    Enabled = {"crash", "loss", "2pc", "undo", "early", "race", "bare"}
SPECIFICATION Spec
INVARIANTS PreparedSurvives
CHECK_DEADLOCK FALSE

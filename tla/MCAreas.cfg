CONSTANTS
    DBs = {a, b}
    MIN_GROWTH = 2
    MAX_ITER = 2
    MapSize = 6
    MaxMulti = 2
    MaxKills = 2
    Cases = {}
SPECIFICATION Spec
INVARIANTS AreasOnce Partitioned Recoverable
SYMMETRY MCSymmetry

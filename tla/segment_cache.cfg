SPECIFICATION MCSpec
CONSTANTS
    Calls = {c1, c2, c3}
    MaxPuts = 2
    MaxCrashes = 1
    MaxRemovals = 1
    VectorFields = {"v", "w"}
    Coarse = {0, 1}
    EmptyCells = {1}
    COLD_MAX_KEYS_PER_ROUND = 2
    WAL_WARM_MAX_SEGMENTS = 2
    WAL_COMPACTION_THRESHOLD = 1
    WAL_COMPACT_KEEP = 1
    MaxCommits = 3
    ColdBudgets <- MCColdBudgets
SYMMETRY CallSymmetry
CHECK_DEADLOCK FALSE
INVARIANTS HitExact MissesOnlyIfRaced ColdLoadComplete 

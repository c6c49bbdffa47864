SPECIFICATION Spec
CONSTANTS
    FilterFields = {"a"}
    Writers = {w1, w2}
    Modes <- MCModes
    Condition <- MCCondition
    WAL_COMPACT_KEEP = 0
CHECK_DEADLOCK FALSE
SYMMETRY Symmetry
INVARIANTS StrongReadExact TailCoversUnindexed ViewRepairs EventualNotAhead ConditionSeesCommitted

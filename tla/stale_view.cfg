SPECIFICATION Spec
CONSTANTS
    FilterFields = {"a"}
    Writers = {w1}
    Modes <- StaleModes
    Condition <- MCCondition
    WAL_COMPACT_KEEP = 9
INVARIANT WritesVisible
CHECK_DEADLOCK FALSE

SPECIFICATION FairSpec
CONSTANTS
    Namespaces = {"a", "b"}
    Budgets <- MCBudgets
    WAL_COMPACTION_THRESHOLD = 0
    WAL_COMPACT_KEEP = 0
    HIGH_INDEX_LAG_SEGMENTS = 1
    BURST_INDEX_LAG_SEGMENTS = 2
    MAX_SEGMENTS_BURST_PER_TICK = 2
CHECK_DEADLOCK FALSE
INVARIANTS QueueConsistent RoundServesAll NoResurrection CloneFaithful ListingShowsAcked
PROPERTIES EventuallyIndexed

SPECIFICATION Spec
CONSTANTS
    p1 = p1
    p2 = p2
    f1 = f1
    f2 = f2
    x1 = x1
    x2 = x2
    r1 = r1
    Proc = {p1}
    Flusher = {f1, f2}
    Indexer = {x1}
    Reader = {r1}
    Host <- HostOne
    NoTask = NoTask
    Entry = {e1, e2, e3}
    NoEntry = NoEntry
    META_RETRIES = 2
    WAL_COMPACTION_THRESHOLD = 1
    WAL_COMPACT_KEEP = 1
    MaxSegments = 2
    MaxSeq = 3
    Faults = {"crash", "error", "timeout"}
    MaxFaults = 2
SYMMETRY TaskSymmetry
CHECK_DEADLOCK FALSE
INVARIANTS IInv Durable IndexFaithful LoadedPrefix
PROPERTIES ImplementsDurableLog

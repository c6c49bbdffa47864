SPECIFICATION Spec
CONSTANTS
    p1 = p1
    p2 = p2
    f1 = f1
    f2 = f2
    x1 = x1
    x2 = x2
    r1 = r1
    Proc = {p1, p2}
    Flusher = {f1, f2}
    Indexer = {x1, x2}
    Reader = {}
    Host <- HostTwo
    NoTask = NoTask
    Entry = {e1, e2}
    NoEntry = NoEntry
    META_RETRIES = 2
    WAL_COMPACTION_THRESHOLD = 1
    WAL_COMPACT_KEEP = 0
    MaxSegments = 2
    MaxSeq = 3
    Faults = {"resend", "misread"}
    MaxFaults = 1
SYMMETRY BatchSymmetry
CHECK_DEADLOCK FALSE
PROPERTIES MetaNeverRegresses

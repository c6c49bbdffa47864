SPECIFICATION Spec
CONSTANTS
    w1 = w1
    w2 = w2
    w3 = w3
    g1 = g1
    g2 = g2
    g3 = g3
    Write = {w1, w2, w3}
    DataWrite = {w1, w2}
    SchemaWrite = {w1, w3}
    MetricWrite = {w3}
    Buffer = {b1, b2}
    NoBuffer = NoBuffer
    Flush = {g1, g2}
    Drainer = {d1}
    Nobody = Nobody
    Overlay = Overlay
    max_batch_ops = 2
    SlowStore = TRUE
    Quotas <- SafetyQuotas
SYMMETRY FlushSymmetry
CHECK_DEADLOCK FALSE
INVARIANTS AckedWriteDurable CommitOrder NoWaiterLost
PROPERTIES RateLimited

SPECIFICATION FairSpec
CONSTANTS
    w1 = w1
    w2 = w2
    w3 = w3
    g1 = g1
    g2 = g2
    g3 = g3
    Write = {w1, w2, w3}
    DataWrite = {w1, w2}
    SchemaWrite = {w3}
    MetricWrite = {}
    Buffer = {b1}
    NoBuffer = NoBuffer
    Flush = {g1, g2}
    Drainer = {}
    Nobody = Nobody
    Overlay = Overlay
    max_batch_ops = 2
    SlowStore = FALSE
    Quotas <- LiveQuotas
PROPERTIES EveryWriteReturns
CHECK_DEADLOCK FALSE

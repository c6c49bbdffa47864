SPECIFICATION MCSpec
CONSTANTS
    FilterFields = {"a", "t"}
    Words <- MCWords
    StopWords = {"the"}
    FtsField = "t"
    DistanceMetric = "euclidean"
    MAX_TOP_K = 4
    DEFAULT_TOP_K = 3
    POOL_FACTOR = 8
    POOL_FLOOR = 64
    Entries <- MCEntries
    MaxLog = 4
    MaxSegments = {1, 2}
    VectorField = "v"
    Dimensions = 1
    Requests <- MCRequests
    Conditions <- MCConditions
    ExportLimits = {1, 2}
    MaxPages = 4
    Field = {1, 2, 3}
    Workloads <- MCWorkloads
    MAX_VECTOR_FIELDS = 2
    max_upsert_rows = 2
CHECK_DEADLOCK FALSE
INVARIANTS   SegmentsMatchRebuild  ExportComplete VectorFieldsHaveSlots RowsFitSchema

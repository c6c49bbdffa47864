SPECIFICATION FairSpec
CONSTANTS
    Ids = {1, 2}
    SMALL_BUILD = 1
    MIN_COARSE = 2
    MAX_COARSE_CENTROIDS = 2
    MAX_FINE_PER_COARSE = 2
    MIN_COARSE_V3 = 2
    MAX_COARSE_CENTROIDS_V3 = 2
    MAX_FINE_PER_COARSE_V3 = 1
    V3_TARGET_DOCS_PER_COARSE = 1
    V3_INDEX_OBJECT_CAP = 8
    MAX_CLUSTER_MEMBERS = 1
    MERGE_CLUSTER_MAX_MEMBERS = 1
    REBUILD_SCHEDULED_MAINTENANCE_PASSES = 2
    REBUILD_DOC_MULTIPLIER = 2
    MAX_ROUNDS = 2
    V3 = FALSE
    MaxWrites = 4
    MaxRows = 2
    MaxDrift = 1
    PROBE_COARSE = 2
    PROBE_FINE = 2
    ServeWidths <- MCServeWidths
    Scenarios <- MCScenarios
    AbortPhases = {"split", "merge", "split2", "rebuild?", "publish"}
CHECK_DEADLOCK FALSE
INVARIANTS MaintenanceKeepsMembers QueryFindsIndexed ProbeNeverFails
PROPERTIES PassEnds

CONSTANTS
    SessionCount = 2
    Id = {1}
    RetriesSpawn = TRUE
    MaxProbes = 2
    MaxReceives = 3
    MaxFailures = 1
SPECIFICATION Spec
INVARIANTS
    PacketsInOrder
    SilentOnceFreed
    ConnectedMeasures
CHECK_DEADLOCK FALSE

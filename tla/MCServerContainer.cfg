CONSTANTS
    Versions = {"v0", "v1", "v2"}
    Shipped = "v0"
    Updates = {"u1", "u2"}
    Target <- MCTarget
    Rollbacks = {"r1"}
    Restarts = {"s1"}
    MAX_RETRIES = 2
    MaxTroubles = 1
    MaxCrashes = 1
    MaxSaves = 1
SPECIFICATION Spec
INVARIANTS
    NotLeftStopped
    RunningIsInstalled
    VersionNamesJar
    UndoIsReady
PROPERTIES
    ComesBack
CHECK_DEADLOCK FALSE

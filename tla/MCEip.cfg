CONSTANTS
    Requests = {"r1", "r2", "r3", "r4"}
    Plcs = {"p1", "p2", "p3"}
    Malformed = {"p3"}
    Configs <- MCConfigs
    Tags = {"t1", "t2"}
    Plc <- MCPlc
    Kind <- MCKind
    Items <- MCItems
    Programs = 1
    Cooldown = 1
    ReadOnly = FALSE
    MaxTime = 2
    MaxInputs = 3
SPECIFICATION Spec
INVARIANTS
    OkStands
    OneConnectionEach
PROPERTIES
    CooldownKept
    PollsConfigured
CHECK_DEADLOCK FALSE

CONSTANTS
    DeviceNames = {"n1", "n2"}
    Aliases = {"a", "v"}
    Demo <- MCDemo
    Seed <- MCDemo
    Configs <- MCConfigs
    Bodies <- MCBodies
    Admins = {"u1"}
    MaxDevices = 2
    Writes = {w1, w2}
    Virtual = {"v"}
    NodeIds = 4
    MaxInputs = 3
SPECIFICATION Spec
INVARIANTS
    NamesUnique
    AliasesDisjoint
    EditsKept
    LogTellsTruth
    NewestStands
SYMMETRY MCSymmetry
CHECK_DEADLOCK FALSE

CONSTANTS
    Absent = Absent
    Null = Null
    ValidKeys = {"k1", "k2", "k3"}
    BucketSpace = 2
    MaxOpsTTL = 2
    Substrings = {}
    Bytes <- NoVersions
    QuarantineFloor = 1
    QuarantinePercent = 5
    MaxFlagsPerEnv = 2
    EnvNames <- MCEnvNames
    InitialEnvs = {"dev"}
    BaseLayers <- MCBaseLayers
    OverlayLayers <- MCOverlayLayers
    OpsLayers <- MCOpsLayers
    MaxGen = 3
    MaxClock = 1
SPECIFICATION Spec
INVARIANTS
    TypeOK
    ServedFlagsServable
    ServedMatchesLayers
    ExpiredOverridesLetGo
PROPERTIES
    KillHolds
    FlagsStayServed
VIEW ServingView

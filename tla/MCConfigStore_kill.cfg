CONSTANTS
    Absent = Absent
    Null = Null
    ValidKeys = {"k1", "k2", "k3"}
    BucketSpace = 2
    MaxOpsTTL = 2
    Substrings = {}
    Bytes <- NoVersions
    QuarantineFloor = 1
    QuarantinePercent = 5
    MaxFlagsPerEnv = 2
    EnvNames <- OneEnvName
    InitialEnvs = {}
    BaseLayers <- OneBaseLayer
    OverlayLayers <- OneBrokenOverlay
    OpsLayers <- SmallOpsLayers
    MaxGen = 3
    MaxClock = 0
SPECIFICATION Spec
INVARIANTS
    KillTakesEffect

CONSTANTS
    Absent = Absent
    Null = Null
    ValidKeys = {"k"}
    BucketSpace = 3
    MaxOpsTTL = 2
    Now = 0
    BaseFlags <- MCBaseFlags
    Patches <- MCPatches
    Overrides <- MCOverrides
    Contexts <- MCContexts
    Hashes <- MCHashes
    Substrings <- MCSubstrings
    Bytes <- MCBytes
    Versions <- MCVersions
    NotVersions <- MCNotVersions
SPECIFICATION Spec
INVARIANTS
    AcceptedFlagsServe
    RampUpKeepsEnrolled
    RampEnds
    VersionGatesAreExact
    DiskAnswersTheSame
    KillReachesEverybody
    LosingContextTargetsNobody
CHECK_DEADLOCK FALSE

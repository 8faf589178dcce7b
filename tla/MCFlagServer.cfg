CONSTANTS
    r1 = r1
    r2 = r2
    NoOne = NoOne
    Requests = {r1, r2}
    Envs = {"prod", "dev"}
    InitialEnvs = {"prod"}
    Required = {"prod"}
    Asked = {"prod"}
    BatchLen = 2
    MaxGen = 1
SPECIFICATION FairSpec
INVARIANTS TypeOK BatchOneGeneration ReadyMeansLoaded ReadyStays CleanExit
PROPERTIES AnsweredOnce ReportedDeathIsFatal
CHECK_DEADLOCK FALSE

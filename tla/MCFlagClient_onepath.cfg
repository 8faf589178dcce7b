SPECIFICATION FairSpec
CONSTANTS
    Reconcile = FALSE
    L2 = TRUE
    Callers = TRUE
    MaxGen = 2
    MaxLife = 2
    MaxRestarts = 1
    MaxIncidents = 1
    MaxFaults = 1
CHECK_DEADLOCK FALSE
INVARIANTS TypeOK ServingHasConfig FlushedOnClose
PROPERTIES NeverRewinds HealthyOnOwnSource LastKnownGoodSurvives Converges CloseReturns

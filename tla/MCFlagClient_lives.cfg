SPECIFICATION Spec
CONSTANTS
    Reconcile = FALSE
    L2 = TRUE
    Callers = FALSE
    MaxGen = 2
    MaxLife = 2
    MaxRestarts = 1
    MaxIncidents = 2
    MaxFaults = 0
CHECK_DEADLOCK FALSE
PROPERTIES HealthyOnOwnSource

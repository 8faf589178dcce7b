SPECIFICATION Spec
CONSTANTS
    Reconcile = TRUE
    L2 = FALSE
    Callers = FALSE
    MaxGen = 2
    MaxLife = 1
    MaxRestarts = 0
    MaxIncidents = 2
    MaxFaults = 0
CHECK_DEADLOCK FALSE
PROPERTIES NeverRewinds

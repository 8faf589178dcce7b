SPECIFICATION FairSpec
CONSTANTS
    Reconcile = TRUE
    L2 = FALSE
    Callers = FALSE
    MaxGen = 2
    MaxLife = 2
    MaxRestarts = 0
    MaxIncidents = 2
    MaxFaults = 1
CHECK_DEADLOCK FALSE
PROPERTIES Converges

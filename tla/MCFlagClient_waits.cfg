SPECIFICATION FairSpec
CONSTANTS
    Reconcile = FALSE
    L2 = FALSE
    Callers = TRUE
    MaxGen = 1
    MaxLife = 1
    MaxRestarts = 0
    MaxIncidents = 0
    MaxFaults = 1
CHECK_DEADLOCK FALSE
PROPERTIES WaitEndsWithClose

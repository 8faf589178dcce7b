CONSTANTS
    t1 = t1
    t2 = t2
    Threads = {t1, t2}
    MaxBatch = 2
    MaxGen = 2
    MaxTime = 1
    Interval = 1
    MaxCalls = 1
SYMMETRY Symmetry
SPECIFICATION Spec
INVARIANTS
    BatchOneSnapshot
    AnswersSurviveHooks
    VolumeReconstructible
PROPERTIES
    EmitsSpaced
CHECK_DEADLOCK FALSE

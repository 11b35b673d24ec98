SPECIFICATION ScheduleSpec
CONSTANTS
    Loops = {l1, l2}
    NoLoop = NoLoop
    Lifetimes = {1, 2, 4}
    MinInterval = 1
    GracePeriod = 5
    ExpiryBuffer = 1
    MinRetry = 1
    MaxRetry = 30
    MaxTime = 6
    MaxRevision = 2
SYMMETRY LoopSymmetry
INVARIANTS
    NoStaleSleep
    TriedBeforeExpiry
    StagesHalve
    RetryDelayDoubles
PROPERTIES
    AttemptsInWindow
    ExpiredAfterGrace

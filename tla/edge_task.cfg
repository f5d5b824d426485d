SPECIFICATION FairSpec
CONSTANTS
    t1 = t1
    t2 = t2
    t3 = t3
    None = None
    Tasks = {t1, t2, t3}
    BufLen = 3
    MaxWorkers = 2
    AckRetryThreshold = 2
    MaxRuns = 2
    Scenarios <- MCScenarios
CHECK_DEADLOCK FALSE
INVARIANTS
    BlockIsWhole
    OneTrace
    AvailabilityFollows
PROPERTY EveryResultSent

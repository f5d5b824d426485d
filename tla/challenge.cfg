SPECIFICATION Spec
CONSTANTS
    e1 = e1
    e2 = e2
    None = None
    Edges = {e1, e2}
    NumEdgeResources = 2
    Duration = 2
    Period = 6
    LockTime = 3
    Transmit = 7
    Scenarios <- MCScenarios
CHECK_DEADLOCK FALSE
INVARIANTS
    ChallengesConsistent
    PassedOverForCause
    SilenceNoticed

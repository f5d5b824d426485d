SPECIFICATION Spec
CONSTANTS
    NULL = NULL
    e1 = e1
    e2 = e2
    e3 = e3
    p1 = p1
    p2 = p2
    p3 = p3
    t1 = t1
    t2 = t2
    t3 = t3
    Edges = {e1, e2, e3}
    Peers = {p1, p2, p3}
    Tags = {t1, t2, t3}
    TagOf <- MCTagOf
    Typical <- MCTypical
    Messages <- MCMessages
    Scenarios <- MCScenarios
    NumEdgeResources = 2
    NumEdgeCapabilities = 1
    NumPeers = 2
    MaxNumStereotypes = 2
    HistorySize = 3
    Unit = 40320
    Band = 10080
    RandMax = 13
    MaxExchanges = 2
INVARIANT TrustRecorded
INVARIANT ChosenIsBest
PROPERTY StereotypesServed
CHECK_DEADLOCK FALSE

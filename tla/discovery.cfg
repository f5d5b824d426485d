SPECIFICATION FairSpec
CONSTANTS
    e1 = e1
    e2 = e2
    routing = routing
    monitoring = monitoring
    Edges = {e1, e2}
    Apps = {routing, monitoring}
    Offers <- MCOffers
    NumEdgeResources = 1
    NumEdgeCapabilities = 1
    MaxInFlight = 2
    Scenarios <- MCScenarios
INVARIANTS
    PoolSuffices
    RunningIsCurrent
PROPERTY
    OnlyInactiveEvicted
    Converges

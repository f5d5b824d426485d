SPECIFICATION Spec
CONSTANTS
    Edges = {e1, e2}
    None = None
    Coords = {c1, c2}
    MaxTasks = 2
    LastBlock = 1
    Scenarios <- MCScenarios
SYMMETRY Symmetry
INVARIANTS
    LocksProtectTask
    BlamesTarget
    GoodIsRight
    RightIsGood

SPECIFICATION MCSpec
CONSTANTS
    Docs <- MCDocs
    Requests <- MCRequests
    Items <- MCItems
    MaxItems = 2
    Sites <- MCSites
    Clients = {c1, c2}
    Pool = 1
    MaxMisses = 2
    MaxFaults = 1
    FirstYear = 2022
    LastYear = 2024
    Moments <- MCMoments
    PriceAt <- MCPriceAt
SYMMETRY Clients2
INVARIANTS
    WalkComplete
    StatsBracketed
    ChartWhole
PROPERTIES
    StatsForward
CHECK_DEADLOCK FALSE

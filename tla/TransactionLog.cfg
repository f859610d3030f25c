SPECIFICATION FairSpec
CONSTANTS
    Runs = {r1, r2}
    MaxBlock = 3
    PerBlock = 2
    ApiLimit = 3
    MaxFaults = 2
INVARIANTS
    TypeOK
    NothingMissed
PROPERTIES
    EventuallyLogged
    ImplementsChainIndex

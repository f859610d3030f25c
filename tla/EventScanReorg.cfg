SPECIFICATION Spec
CONSTANTS
    t1 = t1
    Events = {t1, m2}
    BlockOf <- MCBlockOf
    Transfers = {t1}
    Scans = {s1, s2}
    LookupBlocks = {2}
    HeadMayReorg = TRUE
    StartBlock = 1
    MaxBlockRange = 1
    MaxBlock = 3
    MaxFaults = 1
SYMMETRY ScanSymmetry
INVARIANTS
    TypeOK
    NoGapAboveBase
PROPERTY
    ImplementsChainIndex

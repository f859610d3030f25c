SPECIFICATION FairSpec
CONSTANTS
    t1 = t1
    Events = {t1, m2}
    BlockOf <- MCBlockOf
    Transfers = {t1}
    Scans = {s1, s2}
    LookupBlocks = {}
    HeadMayReorg = FALSE
    StartBlock = 1
    MaxBlockRange = 1
    MaxBlock = 2
    MaxFaults = 2
INVARIANTS
    NoGap
    RefreshBeforeInsert
PROPERTY
    EventuallyIndexed

SPECIFICATION FairSpec
CONSTANTS
    alice = alice
    bob = bob
    MaxLt = 7
    Swaps <- MCSwaps
    SentAt <- MCSentAt
    Owner <- MCOwner
    Deals <- MCDeals
    History <- MCHistory
    Subscribed = {alice}
    BatchLimit = 2
    MaxFaults = 3
INVARIANTS
    TypeOK
    AnnouncedOnce
    OneFaultOneLoss
    NoGapAboveBase
    RecordsDeals
PROPERTIES
    EventuallyRecorded
    ImplementsChainIndex

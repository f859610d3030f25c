SPECIFICATION Spec
CONSTANTS
    mint = mint
    other = other
    alice = alice
    zero = zero
    i1 = i1
    i2 = i2
    i3 = i3
    b1 = b1
    b2 = b2
    b3 = b3
    b4 = b4
    InsertJobs = {i1}
    BalanceJobs = {b1, b2, b3}
    EventOf <- MCEventOf
    AddrOf <- MCAddrOf
    Swaps <- MCSwaps
    OwnerOf <- MCOwnerOf
    Addrs = {alice}
    ZeroAddress = zero
    Registered = {}
    Subscribed = {}
    Slots = 2
    MaxBalance = 2
    MaxFaults = 1
    MaxCrashes = 1
\* Jobs end and transfers are bounded: the system may come to rest.
CHECK_DEADLOCK FALSE
INVARIANTS
    FreshUnlessOverlap
    NewOwnerHeard

SPECIFICATION FairSpec
CONSTANTS
    k1 = k1
    k2 = k2
    evm = evm
    OwnerKeys = {k1, k2}
    Garbage = Garbage
    NoKey = NoKey
    PublicKeyAt <- MCPublicKeyAt
    AllowedDomains = {"vnst.io"}
    ValidAuthTime = 1
    Holders <- MCHolders
    Rounds = {r}
    Refreshes = {s}
    Logins = {l}
    EvmAddrs = {evm}
    Proofs <- MCProofs
    Times = {0, 1, 2}
    Limit = 1
    MaxBalance = 1
    MaxFaults = 1
INVARIANTS
    TypeOK
    SessionAuthentic
    HonestAccepted
    SessionHasWallet
    SyncedUnlessOverlap
PROPERTY
    EventuallySynced

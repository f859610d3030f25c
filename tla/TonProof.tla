-------------------------------- MODULE TonProof --------------------------------
(***************************************************************************)
(* TonProofService.checkProof and the loaders of wallets-data.ts: does a   *)
(* proof come from the key of the wallet contract it names.                *)
(*                                                                         *)
(* A contract's initial data is abstracted to where in it the 256 bits of  *)
(* the owner's key lie and how many bits follow; an address is a workchain *)
(* and the hash of the state init, so here it is a workchain and the state *)
(* init.  What is signed is the record of the fields that make up the      *)
(* message.                                                                *)
(***************************************************************************)
EXTENDS Integers

CONSTANTS
    OwnerKeys,      \* Ed25519 keys
    Garbage,        \* 256 bits that are nobody's key
    NoKey,          \* null, or an exception
    PublicKeyAt,    \* what get_public_key of a contract returns, NoKey if it throws
    AllowedDomains,
    ValidAuthTime   \* fifteen minutes

ASSUME ProofAssumption ==
    /\ Garbage \notin OwnerKeys /\ NoKey \notin OwnerKeys \cup {Garbage}
    /\ ValidAuthTime \in Nat

\* What the loader of each known contract reads before the key, and after it:
\* seqno; seqno and walletId; a bit, seqno and walletId; and the plugins' bit.
KnownWallets ==
    [v1 |-> [skip |-> 32, rest |-> 0], v2 |-> [skip |-> 32, rest |-> 0],
     v3 |-> [skip |-> 64, rest |-> 0], v4 |-> [skip |-> 64, rest |-> 1],
     v5 |-> [skip |-> 65, rest |-> 1]]

\* Mutant: the loader forgets the field before the key.
LoadKey_SeqnoOnly(version, data) == IF data.before = 32 THEN data.key ELSE Garbage

\* loadWalletV1Data ... loadWalletV5Data: a slice that is too short throws.
LoadKey(version, data) ==
    LET loader == KnownWallets[version]
    IN  IF loader.skip + loader.rest > data.before + data.after THEN NoKey
        ELSE IF data.before = loader.skip THEN data.key ELSE Garbage

\* tryParsePublicKey: null for a code that is missing or unknown, and when the
\* loader throws.
TryParsePublicKey(stateInit) ==
    IF stateInit.code \in DOMAIN KnownWallets
      THEN LoadKey(stateInit.code, stateInit.data)
      ELSE NoKey

\* tryParsePublicKey(stateInit) ?? getWalletPublicKey(payload.address).
PublicKey(p) ==
    LET parsed == TryParsePublicKey(p.stateInit)
    IN  IF parsed # NoKey THEN parsed ELSE PublicKeyAt[p.address]

\* contractAddress.
ContractAddress(workchain, stateInit) == [workchain |-> workchain, stateInit |-> stateInit]

\* The fields of the message of which the hash is signed.
Message(p) ==
    [workchain |-> p.address.workchain, address |-> p.stateInit, domain |-> p.domain,
     timestamp |-> p.timestamp, payload |-> p.payload]

\* Mutant: the address is not compared with the state init.
CheckProof_AnyAddress(p, now) ==
    /\ PublicKey(p) # NoKey
    /\ PublicKey(p) = p.publicKey
    /\ p.domain \in AllowedDomains
    /\ now - ValidAuthTime <= p.timestamp
    /\ p.address.workchain >= 0
    /\ p.signature = [by |-> PublicKey(p), over |-> Message(p)]

\* Everything that throws on the way counts as false, and so does writeUInt32BE
\* when the workchain is the masterchain, -1.
CheckProof(p, now) ==
    /\ PublicKey(p) # NoKey
    /\ PublicKey(p) = p.publicKey
    /\ p.address = ContractAddress(p.address.workchain, p.stateInit)
    /\ p.domain \in AllowedDomains
    /\ now - ValidAuthTime <= p.timestamp
    /\ p.address.workchain >= 0
    /\ p.signature = [by |-> PublicKey(p), over |-> Message(p)]

-------------------------------------------------------------------------------
(* The reference: whose contract an address is.                             *)

\* A contract obeys the key in the place its own code keeps it, one of
\* another kind the key it returns.
WellFormed(stateInit) ==
    stateInit.code \in DOMAIN KnownWallets =>
        /\ stateInit.data.before = KnownWallets[stateInit.code].skip
        /\ stateInit.data.after >= KnownWallets[stateInit.code].rest

Owner(address) ==
    IF address.stateInit.code \in DOMAIN KnownWallets
      THEN address.stateInit.data.key
      ELSE PublicKeyAt[address]

\* What a wallet sends for its owner, here and now, on either workchain.
Honest(p, now) ==
    /\ WellFormed(p.stateInit)
    /\ p.address = ContractAddress(p.address.workchain, p.stateInit)
    /\ Owner(p.address) \in OwnerKeys /\ p.publicKey = Owner(p.address)
    /\ p.domain \in AllowedDomains
    /\ p.timestamp <= now /\ now - p.timestamp <= ValidAuthTime
    /\ p.signature = [by |-> Owner(p.address), over |-> Message(p)]
===============================================================================

------------------------------ MODULE MCTonWallets ------------------------------
(* Three wallets: two whose key is parsed, with different layouts, and one  *)
(* of an unknown code that is asked for its key; one of them once more on   *)
(* the masterchain; what each of their owners sends, and what does not add  *)
(* up.                                                                      *)
EXTENDS TonWallets, TLC

CONSTANTS k1, k2, evm

MCWallet(code, before, key, after) ==
    [code |-> code, data |-> [before |-> before, key |-> key, after |-> after]]

MCv2 == MCWallet("v2", 32, k1, 0)
MCv5 == MCWallet("v5", 65, k2, 1)
MCown == MCWallet("own", 0, Garbage, 0)
MCshort == MCWallet("v4", 32, k2, 0)

\* Addresses on the basechain and on the masterchain.
MCBase(stateInit) == ContractAddress(0, stateInit)
MCMaster(stateInit) == ContractAddress(-1, stateInit)

MCHolders == <<MCBase(MCv5), MCBase(MCv2)>>
MCPublicKeyAt ==
    [a \in {MCBase(s) : s \in {MCv2, MCv5, MCown, MCshort}} \cup {MCMaster(MCv2)} |->
        IF a = MCBase(MCown) THEN k2 ELSE NoKey]

\* What the owner of key k sends for address a with state init s.
MCProof(a, s, k, domain, time) ==
    LET p == [chain |-> "ours", address |-> a, stateInit |-> s, publicKey |-> k,
              domain |-> domain, timestamp |-> time,
              payload |-> [ours |-> TRUE, issued |-> time]]
    IN  [chain |-> p.chain, address |-> a, stateInit |-> s, publicKey |-> k,
         domain |-> domain, timestamp |-> time, payload |-> p.payload,
         signature |-> [by |-> k, over |-> Message(p)]]

\* The same for the contract's own address.
MCOwn(s, k, domain) == MCProof(MCBase(s), s, k, domain, 0)

MCProofs ==
    {MCOwn(MCv5, k2, "vnst.io"), MCOwn(MCown, k2, "vnst.io"), MCOwn(MCshort, k2, "vnst.io"),
     MCOwn(MCv2, k2, "vnst.io"), MCOwn(MCv5, k2, "other"),
     MCProof(MCBase(MCv2), MCv5, k2, "vnst.io", 0),
     MCProof(MCMaster(MCv2), MCv2, k1, "vnst.io", 0)}
=============================================================================

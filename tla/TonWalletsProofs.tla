---------------------------- MODULE TonWalletsProofs ----------------------------
(***************************************************************************)
(* Proofs about TonWallets, for any list of holders, page size, number of  *)
(* overlapping calls, logins and proofs: types; that a session belongs to  *)
(* the owner of its address and finds its wallet; that an owner on the     *)
(* basechain is turned away only where his wallet has just been made; and  *)
(* that a call that went through has covered every holder it found listed, *)
(* although the list grew while it turned the pages.                       *)
(***************************************************************************)
EXTENDS TonWallets, SequenceTheorems, TLAPS

-------------------------------------------------------------------------------
(* The proof check.                                                         *)

LEMMA Loaders ==
  /\ DOMAIN KnownWallets = {"v1", "v2", "v3", "v4", "v5"}
  /\ \A v \in DOMAIN KnownWallets : KnownWallets[v].skip \in Nat /\ KnownWallets[v].rest \in Nat
  BY DEF KnownWallets

\* The loader of a contract's own version finds its key.
LEMMA LoaderFindsKey ==
  ASSUME NEW a, a.data \in [before: Nat, key: OwnerKeys \cup {Garbage}, after: Nat],
         WellFormed(a), a.code \in DOMAIN KnownWallets
  PROVE  TryParsePublicKey(a) = a.data.key /\ a.data.key # NoKey
<1>1. KnownWallets[a.code].skip \in Nat /\ KnownWallets[a.code].rest \in Nat
  BY Loaders
<1>2. LoadKey(a.code, a.data) = a.data.key
  BY <1>1 DEF LoadKey, WellFormed
<1> QED
  BY <1>2, ProofAssumption DEF TryParsePublicKey, ProofAssumption

\* What is compared with the request is the key of the contract, if its data
\* is laid out as its code says.
LEMMA KeyIsOwners ==
  ASSUME NEW p \in Proofs, WellFormed(p.stateInit),
         p.address = ContractAddress(p.address.workchain, p.stateInit)
  PROVE  PublicKey(p) = Owner(p.address)
<1>0. p.address.stateInit = p.stateInit
  BY DEF ContractAddress
<1>1. CASE p.stateInit.code \in DOMAIN KnownWallets
  BY <1>0, <1>1, LoaderFindsKey, WalletsAssumption DEF PublicKey, Owner, WalletsAssumption
<1>2. CASE p.stateInit.code \notin DOMAIN KnownWallets
  BY <1>0, <1>2 DEF PublicKey, TryParsePublicKey, Owner
<1> QED
  BY <1>1, <1>2

LEMMA AcceptedIsOwners ==
  ASSUME NEW p \in Proofs, NEW now, CheckProof(p, now), WellFormed(p.address.stateInit)
  PROVE  p.signature.by = Owner(p.address)
<1>1. p.address.stateInit = p.stateInit
  BY DEF CheckProof, ContractAddress
<1> QED
  BY <1>1, KeyIsOwners DEF CheckProof

\* What an owner's wallet sends passes, on the basechain.
LEMMA HonestPasses ==
  ASSUME NEW p \in Proofs, NEW now \in Times, Honest(p, now), p.address.workchain >= 0
  PROVE  CheckProof(p, now)
<1>1. PublicKey(p) = Owner(p.address)
  BY KeyIsOwners DEF Honest
<1>2. now - ValidAuthTime <= p.timestamp
  <2>1. Times \subseteq Int /\ \A q \in Proofs : q.timestamp \in Int
    BY WalletsAssumption DEF WalletsAssumption
  <2>2. now - p.timestamp <= ValidAuthTime
    BY DEF Honest
  <2> QED
    BY <2>1, <2>2, ProofAssumption DEF ProofAssumption
<1> QED
  BY <1>1, <1>2, ProofAssumption DEF CheckProof, Honest, ProofAssumption

-------------------------------------------------------------------------------
(* Types.  A wallet that is there stays, so that what a call looked up it   *)
(* can still save; one at a TON address is never one of BNB.                *)

Busy == {"find", "save", "create"}

Entries == [owner: Owners, balance: Balances]

CallTyped ==
    /\ pc \in [Syncs -> {"idle", "fetch", "through"} \cup Busy]
    /\ owners \in [Syncs -> {<<>>} \cup {<<o>> : o \in Owners}]
    /\ offset \in [Syncs -> Nat]
    /\ page \in [Syncs -> Seq(Entries)]
    /\ hasMore \in [Syncs -> BOOLEAN]
    /\ \A s \in Syncs : pc[s] \in Busy <=> page[s] # <<>>
    /\ begun \in [Syncs -> [Owners -> {-1} \cup Balances]]

Typed ==
    /\ listed \in 0..Len(Holders)
    /\ onChain \in [Owners -> Balances]
    /\ wallets \in [Addresses -> Wallets]
    /\ login \in [Logins -> [at: {"idle", "find", "create", "session", "denied"},
                            proof: Proofs \cup {NoProof}]]
    /\ \A l \in Logins : login[l].at # "idle" => login[l].proof \in Proofs
    /\ overlapped \in SUBSET Owners
    /\ faults \in 0..MaxFaults

\* A call that is about to save found a wallet.
FoundWallet == \A s \in Syncs : pc[s] = "save" => wallets[Head(page[s]).owner] # NoWallet

TonOnly == \A a \in TonAddrs : wallets[a].network # "BNB"

Inv == CallTyped /\ Typed /\ FoundWallet /\ TonOnly

LEMMA InvType == Inv => TypeOK
  BY DEF Inv, CallTyped, Typed, TypeOK, Busy, Entries

LEMMA HoldersSeq == Holders \in Seq(Owners) /\ Owners \subseteq Addresses
  BY WalletsAssumption DEF WalletsAssumption, Addresses, TonAddrs

LEMMA InitInv == Init => Inv
<1> SUFFICES ASSUME Init PROVE Inv
  OBVIOUS
<1>1. CallTyped
  BY DEF Init, CallTyped, Busy, NoOne, Balances
<1>2. Typed
  BY HoldersSeq, WalletsAssumption
     DEF Init, Typed, WalletsAssumption, Balances, Wallets, NoWallet, Addresses
<1>3. FoundWallet
  BY DEF Init, FoundWallet
<1>4. TonOnly
  <2>1. TonAddrs \subseteq Addresses /\ EvmAddrs \cap TonAddrs = {}
    BY WalletsAssumption DEF WalletsAssumption, Addresses
  <2> QED
    BY <2>1 DEF Init, TonOnly, NoWallet
<1> QED
  BY <1>1, <1>2, <1>3, <1>4 DEF Inv

-------------------------------------------------------------------------------
(* Pages.                                                                   *)

LEMMA CutSeq ==
  ASSUME NEW S, NEW q \in Seq(S), NEW n \in Nat
  PROVE  /\ Cut(q, n) \in Seq(S)
         /\ Len(Cut(q, n)) = IF n < Len(q) THEN n ELSE Len(q)
         /\ \A k \in 1..Len(Cut(q, n)) : Cut(q, n)[k] = q[k]
  BY DEF Cut

\* What a call is about is a sequence of owners.
LEMMA QueriedSeq ==
  ASSUME Inv, NEW s \in Syncs
  PROVE  Queried(s) \in Seq(Owners)
<1>1. CASE owners[s] = <<>>
  <2>1. listed \in 0..Len(Holders)
    BY DEF Inv, Typed
  <2> QED
    BY <1>1, <2>1, HoldersSeq DEF Queried
<1>2. CASE owners[s] # <<>>
  <2>1. PICK o \in Owners : owners[s] = <<o>>
    BY <1>2 DEF Inv, CallTyped
  <2> QED
    BY <1>2, <2>1 DEF Queried
<1> QED
  BY <1>1, <1>2

\* An answer holds the owners after the offset, as many as there are up to
\* one more than a page; the page is the answer without the one too many.
LEMMA Page ==
  ASSUME Inv, NEW s \in Syncs
  PROVE  LET all    == Queried(s)
             answer == Answer(s)
             items  == Cut(answer, Limit)
         IN  /\ all \in Seq(Owners) /\ answer \in Seq(Owners) /\ items \in Seq(Owners)
             /\ \A k \in 1..Len(items) : items[k] = all[offset[s] + k] /\ offset[s] + k <= Len(all)
             /\ \A i \in 1..Len(all) : offset[s] < i /\ i <= offset[s] + Limit =>
                    i - offset[s] \in 1..Len(items)
             /\ Len(all) > offset[s] + Limit => Len(answer) > Limit
<1> DEFINE all  == Queried(s)
           from == offset[s]
           rest == SubSeq(all, from + 1, Len(all))
<1>1. Limit \in Nat \ {0} /\ from \in Nat
  BY WalletsAssumption DEF WalletsAssumption, Inv, CallTyped
<1>2. all \in Seq(Owners)
  BY QueriedSeq
<1> HIDE DEF all, from
<1>3. /\ rest \in Seq(Owners)
      /\ Len(rest) = IF from + 1 <= Len(all) THEN Len(all) - from ELSE 0
      /\ \A k \in 1..Len(rest) : rest[k] = all[from + k]
  BY <1>1, <1>2
<1>4. Answer(s) = Cut(rest, Limit + 1)
  BY DEF Answer, all, from
<1> HIDE DEF rest
<1>5. /\ Answer(s) \in Seq(Owners)
      /\ Len(Answer(s)) = IF Limit + 1 < Len(rest) THEN Limit + 1 ELSE Len(rest)
      /\ \A k \in 1..Len(Answer(s)) : Answer(s)[k] = rest[k]
  BY <1>1, <1>3, <1>4, CutSeq
<1> DEFINE items == Cut(Answer(s), Limit)
<1>6. /\ items \in Seq(Owners)
      /\ Len(items) = IF Limit < Len(Answer(s)) THEN Limit ELSE Len(Answer(s))
      /\ \A k \in 1..Len(items) : items[k] = Answer(s)[k]
  BY <1>1, <1>5, CutSeq
<1> HIDE DEF items
<1>7. Len(all) \in Nat /\ Len(rest) \in Nat /\ Len(Answer(s)) \in Nat /\ Len(items) \in Nat
  BY <1>2, <1>3, <1>5, <1>6
<1>8. \A k \in 1..Len(items) : items[k] = all[from + k] /\ from + k <= Len(all)
  BY <1>1, <1>3, <1>5, <1>6, <1>7
<1>9. \A i \in 1..Len(all) : from < i /\ i <= from + Limit => i - from \in 1..Len(items)
  BY <1>1, <1>3, <1>5, <1>6, <1>7
<1>10. Len(all) > from + Limit => Len(Answer(s)) > Limit
  BY <1>1, <1>3, <1>5, <1>7
<1> QED
  BY <1>2, <1>5, <1>6, <1>8, <1>9, <1>10 DEF all, from, items

-------------------------------------------------------------------------------
(* The steps of a call keep its types.                                      *)

LEMMA ReturnTyped ==
  ASSUME CallTyped, NEW s \in Syncs, Return(s), NEW t \in {"idle", "through"},
         pc' = [pc EXCEPT ![s] = t], begun' \in [Syncs -> [Owners -> {-1} \cup Balances]]
  PROVE  CallTyped'
<1>1. pc' \in [Syncs -> {"idle", "fetch", "through"} \cup Busy]
  BY DEF CallTyped
<1>2. /\ owners' \in [Syncs -> {<<>>} \cup {<<o>> : o \in Owners}]
      /\ offset' \in [Syncs -> Nat] /\ hasMore' \in [Syncs -> BOOLEAN]
  BY DEF CallTyped, Return
<1>3. <<>> \in Seq(Entries) /\ page' = [page EXCEPT ![s] = <<>>]
  BY DEF Return
<1>4. page' \in [Syncs -> Seq(Entries)]
  BY <1>3 DEF CallTyped
<1>5. \A r \in Syncs : pc'[r] \in Busy <=> page'[r] # <<>>
  BY <1>3 DEF CallTyped, Busy
<1> QED
  BY <1>1, <1>2, <1>4, <1>5 DEF CallTyped

LEMMA FinishTyped == ASSUME CallTyped, NEW s \in Syncs, Finish(s) PROVE CallTyped'
<1>1. begun' \in [Syncs -> [Owners -> {-1} \cup Balances]]
  BY DEF CallTyped, Finish
<1> QED
  BY <1>1, ReturnTyped DEF Finish

LEMMA BreakTyped == ASSUME CallTyped, NEW s \in Syncs, Break(s) PROVE CallTyped'
<1>1. begun' \in [Syncs -> [Owners -> {-1} \cup Balances]]
  BY DEF CallTyped, Break, NoOne
<1> QED
  BY <1>1, ReturnTyped DEF Break

\* The page without its first wallet.
LEMMA TailTyped ==
  ASSUME CallTyped, NEW s \in Syncs, pc[s] \in Busy
  PROVE  /\ Head(page[s]) \in Entries /\ Len(page[s]) \in Nat /\ Len(page[s]) >= 1
         /\ Tail(page[s]) \in Seq(Entries)
         /\ Tail(page[s]) # <<>> <=> Len(page[s]) > 1
         /\ \A k \in DOMAIN Tail(page[s]) :
               k + 1 \in DOMAIN page[s] /\ Tail(page[s])[k] = page[s][k + 1]
         /\ \A k \in DOMAIN page[s] :
               \/ page[s][k] = Head(page[s])
               \/ k - 1 \in DOMAIN Tail(page[s]) /\ Tail(page[s])[k - 1] = page[s][k]
<1> DEFINE q == page[s]
<1>1. q \in Seq(Entries) /\ q # <<>>
  BY DEF CallTyped
<1> HIDE DEF q
<1>2. /\ Len(q) \in Nat /\ Len(q) >= 1 /\ DOMAIN q = 1..Len(q)
      /\ Head(q) = q[1] /\ Head(q) \in Entries
  BY <1>1
<1>3. /\ Tail(q) \in Seq(Entries) /\ DOMAIN Tail(q) = 1..(Len(q) - 1) /\ Len(Tail(q)) = Len(q) - 1
      /\ \A k \in 1..(Len(q) - 1) : Tail(q)[k] = q[k + 1]
  BY <1>1, <1>2
<1>4. Tail(q) # <<>> <=> Len(q) > 1
  <2>1. Tail(q) = <<>> <=> Len(Tail(q)) = 0
    BY <1>3, EmptySeq
  <2> QED
    BY <1>2, <1>3, <2>1
<1>5. \A k \in DOMAIN q : q[k] = Head(q) \/ (k - 1 \in DOMAIN Tail(q) /\ Tail(q)[k - 1] = q[k])
  BY <1>2, <1>3
<1>6. \A k \in DOMAIN Tail(q) : k + 1 \in DOMAIN q /\ Tail(q)[k] = q[k + 1]
  BY <1>2, <1>3
<1> QED
  BY <1>2, <1>3, <1>4, <1>5, <1>6 DEF q

LEMMA NextWalletTyped ==
  ASSUME CallTyped, NEW s \in Syncs, pc[s] \in Busy, NextWallet(s)
  PROVE  CallTyped'
<1>1. CASE Len(page[s]) > 1 \/ hasMore[s]
  <2>1. /\ page' = [page EXCEPT ![s] = Tail(@)]
        /\ pc' = [pc EXCEPT ![s] = IF Len(page[s]) > 1 THEN "find" ELSE "fetch"]
        /\ UNCHANGED <<owners, offset, hasMore, begun>>
    BY <1>1 DEF NextWallet
  <2>2. page' \in [Syncs -> Seq(Entries)]
    BY <2>1, TailTyped DEF CallTyped
  <2>3. pc' \in [Syncs -> {"idle", "fetch", "through"} \cup Busy]
    BY <2>1 DEF CallTyped, Busy
  <2>4. \A t \in Syncs : pc'[t] \in Busy <=> page'[t] # <<>>
    <3>1. pc'[s] \in Busy <=> page'[s] # <<>>
      BY <2>1, TailTyped DEF CallTyped, Busy
    <3>2. \A t \in Syncs \ {s} : pc'[t] = pc[t] /\ page'[t] = page[t]
      BY <2>1 DEF CallTyped
    <3> QED
      BY <3>1, <3>2 DEF CallTyped
  <2> QED
    BY <2>1, <2>2, <2>3, <2>4 DEF CallTyped
<1>2. CASE ~(Len(page[s]) > 1 \/ hasMore[s])
  BY <1>2, FinishTyped DEF NextWallet
<1> QED
  BY <1>1, <1>2

LEMMA BeginTyped ==
  ASSUME Inv, NEW s \in Syncs, NEW asked \in {<<>>} \cup {<<o>> : o \in Owners}, Begin(s, asked)
  PROVE  CallTyped'
<1>1. begun' \in [Syncs -> [Owners -> {-1} \cup Balances]]
  <2> DEFINE now == [o \in Owners |->
                       IF o \in Listed /\ (asked = <<>> \/ asked = <<o>>) THEN onChain[o] ELSE -1]
  <2>1. now \in [Owners -> {-1} \cup Balances]
    BY DEF Inv, Typed
  <2>2. begun' = [begun EXCEPT ![s] = now]
    BY DEF Begin
  <2> HIDE DEF now
  <2> QED
    BY <2>1, <2>2 DEF Inv, CallTyped
<1> QED
  BY <1>1 DEF Inv, CallTyped, Begin, Busy

LEMMA FetchTyped == ASSUME Inv, NEW s \in Syncs, FetchPage(s) PROVE CallTyped'
<1> DEFINE items == Cut(Answer(s), Limit)
<1>1. items \in Seq(Owners)
  BY Page
<1>2. CASE items = <<>>
  BY <1>2, FinishTyped DEF FetchPage, Inv
<1>3. CASE items # <<>>
  <2> DEFINE new == [k \in DOMAIN items |-> [owner |-> items[k], balance |-> onChain[items[k]]]]
  <2>1. /\ page' = [page EXCEPT ![s] = new]
        /\ hasMore' = [hasMore EXCEPT ![s] = Len(Answer(s)) > Limit]
        /\ offset' = [offset EXCEPT ![s] = NextOffset(s)]
        /\ pc' = [pc EXCEPT ![s] = "find"]
        /\ UNCHANGED <<owners, begun>>
    BY <1>3 DEF FetchPage
  <2>2. new \in Seq(Entries) /\ new # <<>>
    <3>1. \A k \in 1..Len(items) : items[k] \in Owners /\ onChain[items[k]] \in Balances
      BY <1>1 DEF Inv, Typed
    <3>2. DOMAIN items = 1..Len(items) /\ Len(items) \in Nat
      BY <1>1
    <3>3. \A k \in 1..Len(items) : new[k] \in Entries
      BY <3>1, <3>2 DEF Entries
    <3>4. new \in [1..Len(items) -> Entries]
      BY <3>2, <3>3
    <3>5. new \in Seq(Entries) /\ Len(new) = Len(items)
      BY <3>2, <3>4
    <3>6. Len(items) # 0
      BY <1>1, <1>3
    <3> QED
      BY <3>5, <3>6
  <2> HIDE DEF new, items
  <2>3. NextOffset(s) \in Nat
    BY WalletsAssumption DEF NextOffset, WalletsAssumption, Inv, CallTyped
  <2>4. \A t \in Syncs : pc'[t] \in Busy <=> page'[t] # <<>>
    BY <2>1, <2>2 DEF Inv, CallTyped, Busy
  <2>5. page' \in [Syncs -> Seq(Entries)]
    BY <2>1, <2>2 DEF Inv, CallTyped
  <2> QED
    BY <2>1, <2>3, <2>4, <2>5 DEF Inv, CallTyped, Busy
<1> QED
  BY <1>2, <1>3

LEMMA NextCalls == Inv /\ [Next]_vars => CallTyped'
<1> SUFFICES ASSUME Inv, [Next]_vars PROVE CallTyped'
  OBVIOUS
<1> CallTyped
  BY DEF Inv
<1> USE DEF syncVars, ghostVars
<1>1. ASSUME NEW s \in Rounds, Interval(s) PROVE CallTyped'
  BY <1>1, BeginTyped DEF Interval, Syncs
<1>2. ASSUME NEW s \in Refreshes, NEW o \in Listed, Refresh(s, o) PROVE CallTyped'
  <2>1. o \in Owners
    BY HoldersSeq DEF Listed, Inv, Typed
  <2> QED
    BY <1>2, <2>1, BeginTyped DEF Refresh, Syncs
<1>3. ASSUME NEW s \in Syncs, FetchPage(s) PROVE CallTyped'
  BY <1>3, FetchTyped
<1>4. ASSUME NEW s \in Syncs, FindHolder(s) PROVE CallTyped'
  BY <1>4 DEF FindHolder, CallTyped, Busy
<1>5. ASSUME NEW s \in Syncs, SaveBalance(s) PROVE CallTyped'
  BY <1>5, NextWalletTyped DEF SaveBalance, Busy
<1>6. ASSUME NEW s \in Syncs, CreateWallet(s) PROVE CallTyped'
  BY <1>6, NextWalletTyped, BreakTyped DEF CreateWallet, Busy
<1>7. ASSUME NEW s \in Syncs, SyncFails(s) PROVE CallTyped'
  BY <1>7, BreakTyped DEF SyncFails
<1>8. CASE Restart
  BY <1>8 DEF Restart, CallTyped, Busy, NoOne
<1>9. CASE UNCHANGED <<syncVars, begun>>
  BY <1>9 DEF CallTyped
<1> QED
  BY <1>1, <1>2, <1>3, <1>4, <1>5, <1>6, <1>7, <1>8, <1>9
     DEF Next, Sync, NewHolder, Transfer, LoginTon, TurnAway, FindWallet, CreateOwner, GetNonce, vars

-------------------------------------------------------------------------------
(* The documents.  None is taken away, and one of a TON owner stays one.    *)

Made == [network: {"TON", "BNB"}, balance: Balances]

LEMMA MadeOrNot ==
  /\ NoWallet.network = "none" /\ NoWallet \notin Made
  /\ Wallets = [network: {"TON", "BNB"}, balance: Balances] \cup {NoWallet}
  BY DEF NoWallet, Made, Wallets

LEMMA NextWallets ==
  ASSUME Inv, [Next]_vars
  PROVE  /\ wallets' \in [Addresses -> Wallets]
         /\ \A a \in TonAddrs :
               wallets[a] # NoWallet => wallets'[a] # NoWallet /\ wallets'[a].network = wallets[a].network
         /\ TonOnly'
<1> Owners \subseteq TonAddrs /\ TonAddrs \subseteq Addresses /\ EvmAddrs \cap TonAddrs = {}
  BY WalletsAssumption DEF WalletsAssumption, Addresses, TonAddrs
<1> wallets \in [Addresses -> Wallets] /\ TonOnly
  BY DEF Inv, Typed
<1> 0 \in Balances
  BY WalletsAssumption DEF WalletsAssumption, Balances
<1>1. ASSUME NEW s \in Syncs, pc[s] \in Busy
      PROVE  Head(page[s]).owner \in Owners /\ Head(page[s]).balance \in Balances
  BY <1>1, TailTyped DEF Inv, Entries
<1>2. ASSUME NEW s \in Syncs, SaveBalance(s)
      PROVE  /\ wallets' \in [Addresses -> Wallets]
             /\ \A a \in TonAddrs :
                  wallets[a] # NoWallet => wallets'[a] # NoWallet /\ wallets'[a].network = wallets[a].network
             /\ TonOnly'
  <2> DEFINE o == Head(page[s]).owner
             b == Head(page[s]).balance
  <2>1. o \in Owners /\ b \in Balances /\ wallets[o] # NoWallet
    BY <1>1, <1>2 DEF SaveBalance, Busy, Inv, FoundWallet
  <2>2. wallets[o] \in Made
    BY <2>1, MadeOrNot DEF Made
  <2>3. wallets' = [wallets EXCEPT ![o] = [wallets[o] EXCEPT !.balance = b]]
    BY <1>2 DEF SaveBalance
  <2>4. /\ [wallets[o] EXCEPT !.balance = b] \in Made
        /\ [wallets[o] EXCEPT !.balance = b].network = wallets[o].network
    BY <2>1, <2>2 DEF Made
  <2> HIDE DEF o, b
  <2> QED
    BY <2>1, <2>2, <2>3, <2>4, MadeOrNot DEF Made, TonOnly
<1>3. ASSUME NEW a \in TonAddrs, NEW b \in Balances, wallets[a] = NoWallet,
             wallets' = [wallets EXCEPT ![a] = [network |-> "TON", balance |-> b]]
      PROVE  /\ wallets' \in [Addresses -> Wallets]
             /\ \A c \in TonAddrs :
                  wallets[c] # NoWallet => wallets'[c] # NoWallet /\ wallets'[c].network = wallets[c].network
             /\ TonOnly'
  <2>1. /\ [network |-> "TON", balance |-> b] \in Made
        /\ [network |-> "TON", balance |-> b].network = "TON"
    BY DEF Made
  <2> QED
    BY <1>3, <2>1, MadeOrNot DEF Made, TonOnly
<1>4. ASSUME NEW s \in Syncs, CreateWallet(s)
      PROVE  \/ UNCHANGED wallets
             \/ \E a \in TonAddrs, b \in Balances :
                   /\ wallets[a] = NoWallet
                   /\ wallets' = [wallets EXCEPT ![a] = [network |-> "TON", balance |-> b]]
  BY <1>1, <1>4 DEF CreateWallet, Busy
<1>5. ASSUME NEW l \in Logins, CreateOwner(l)
      PROVE  \/ UNCHANGED wallets
             \/ \E a \in TonAddrs, b \in Balances :
                   /\ wallets[a] = NoWallet
                   /\ wallets' = [wallets EXCEPT ![a] = [network |-> "TON", balance |-> b]]
  <2>1. login[l].proof \in Proofs
    BY <1>5 DEF CreateOwner, Inv, Typed
  <2> QED
    BY <1>5, <2>1 DEF CreateOwner, TonAddrs
<1>6. ASSUME NEW a \in Addresses, GetNonce(a)
      PROVE  /\ wallets' \in [Addresses -> Wallets]
             /\ \A c \in TonAddrs : wallets'[c] = wallets[c]
             /\ TonOnly'
  <2>1. a \in EvmAddrs
    BY <1>6 DEF GetNonce
  <2>2. PICK b \in Balances : wallets' = [wallets EXCEPT ![a] = [network |-> "BNB", balance |-> b]]
    <3> DEFINE old == IF wallets[a] = NoWallet THEN 0 ELSE wallets[a].balance
    <3>1. wallets[a] # NoWallet => wallets[a] \in Made
      BY MadeOrNot DEF Made
    <3>2. old \in Balances
      BY <3>1 DEF Made
    <3>3. wallets' = [wallets EXCEPT ![a] = [network |-> "BNB", balance |-> old]]
      BY <1>6 DEF GetNonce
    <3> HIDE DEF old
    <3> QED
      BY <3>2, <3>3
  <2>3. [network |-> "BNB", balance |-> b] \in Made
    BY DEF Made
  <2>4. wallets' \in [Addresses -> Wallets]
    BY <2>2, <2>3, MadeOrNot DEF Made
  <2>5. \A c \in TonAddrs : wallets'[c] = wallets[c]
    BY <2>1, <2>2
  <2> QED
    BY <2>4, <2>5 DEF TonOnly
<1>7. CASE UNCHANGED wallets
  BY <1>7 DEF TonOnly
<1> QED
  BY <1>2, <1>3, <1>4, <1>5, <1>6, <1>7 DEF Next, Sync, NewHolder, Transfer, Interval, Refresh, Begin,
     FetchPage, FindHolder, SyncFails, LoginTon, TurnAway, FindWallet, Restart, vars

-------------------------------------------------------------------------------
(* The invariant is kept.                                                   *)

LEMMA NextTyped == Inv /\ [Next]_vars => Typed'
<1> SUFFICES ASSUME Inv, [Next]_vars PROVE Typed'
  OBVIOUS
<1> Typed /\ CallTyped
  BY DEF Inv
<1>1. wallets' \in [Addresses -> Wallets]
  BY NextWallets
<1>2. listed' \in 0..Len(Holders) /\ onChain' \in [Owners -> Balances]
  <2>1. ASSUME NEW i \in DOMAIN Holders, Transfer(i)
        PROVE  onChain' \in [Owners -> Balances]
    <3>1. /\ Holders[i] \in Owners /\ onChain[Holders[i]] < MaxBalance
          /\ onChain' = [onChain EXCEPT ![Holders[i]] = onChain[Holders[i]] + 1]
      BY <2>1 DEF Transfer, Owners
    <3>2. onChain[Holders[i]] + 1 \in Balances
      BY <3>1, WalletsAssumption DEF WalletsAssumption, Typed, Balances
    <3> QED
      BY <3>1, <3>2 DEF Typed
  <2>2. ASSUME NewHolder PROVE listed' \in 0..Len(Holders)
    BY <2>2, HoldersSeq DEF NewHolder, Typed
  <2> QED
    BY <2>1, <2>2 DEF Typed, Next, Sync, NewHolder, Transfer, Interval, Refresh, Begin, FetchPage,
       FindHolder, SaveBalance, CreateWallet, SyncFails, LoginTon, TurnAway, FindWallet, CreateOwner,
       GetNonce, Restart, chainVars, vars
<1>3. /\ login' \in [Logins -> [at: {"idle", "find", "create", "session", "denied"}, proof: Proofs \cup {NoProof}]]
      /\ \A l \in Logins : login'[l].at # "idle" => login'[l].proof \in Proofs
  <2> DEFINE Goal == /\ login' \in [Logins -> [at: {"idle", "find", "create", "session", "denied"},
                                               proof: Proofs \cup {NoProof}]]
                     /\ \A l \in Logins : login'[l].at # "idle" => login'[l].proof \in Proofs
  <2>1. ASSUME NEW l \in Logins, NEW p \in Proofs \cup {NoProof},
               NEW at \in {"idle", "find", "create", "session", "denied"}, LoginStep(l, at, p),
               at # "idle" => p \in Proofs
        PROVE  Goal
    BY <2>1 DEF LoginStep, Typed
  <2>2. ASSUME NEW l \in Logins, login[l].at # "idle" PROVE login[l].proof \in Proofs
    BY <2>2 DEF Typed
  <2>3. ASSUME NEW l \in Logins, NEW p \in Proofs, NEW now \in Times, LoginTon(l, p, now)
        PROVE  Goal
    BY <2>1, <2>3 DEF LoginTon
  <2>4. ASSUME NEW l \in Logins, FindWallet(l) PROVE Goal
    BY <2>1, <2>2, <2>4 DEF FindWallet
  <2>8. ASSUME NEW l \in Logins, NEW p \in Proofs, NEW now \in Times, TurnAway(l, p, now)
        PROVE  Goal
    BY <2>1, <2>8 DEF TurnAway
  <2>5. ASSUME NEW l \in Logins, CreateOwner(l) PROVE Goal
    BY <2>1, <2>2, <2>5 DEF CreateOwner
  <2>6. CASE Restart
    BY <2>6 DEF Restart, Typed
  <2>7. CASE UNCHANGED login
    BY <2>7 DEF Typed
  <2> QED
    BY <2>3, <2>4, <2>5, <2>6, <2>7, <2>8 DEF Next, Sync, NewHolder, Transfer, Interval, Refresh, Begin,
       FetchPage, FindHolder, SaveBalance, CreateWallet, SyncFails, GetNonce, vars
<1>4. overlapped' \in SUBSET Owners
  <2>1. ASSUME NEW s \in Syncs, FetchPage(s) PROVE overlapped' \in SUBSET Owners
    <3> DEFINE items == Cut(Answer(s), Limit)
    <3>1. items \in Seq(Owners)
      BY Page
    <3>2. {items[k] : k \in DOMAIN items} \subseteq Owners
      BY <3>1
    <3> HIDE DEF items
    <3>3. \A t \in Syncs : {items[k] : k \in DOMAIN items} \cap InHand(t) \subseteq Owners
      BY <3>2
    <3>4. UNION {{items[k] : k \in DOMAIN items} \cap InHand(t) : t \in Syncs \ {s}} \subseteq Owners
      BY <3>3
    <3> QED
      BY <2>1, <3>4 DEF FetchPage, Typed, items
  <2> QED
    BY <2>1 DEF Typed, Next, Sync, NewHolder, Transfer, Interval, Refresh, Begin, FindHolder,
       SaveBalance, CreateWallet, SyncFails, LoginTon, TurnAway, FindWallet, CreateOwner, GetNonce, Restart,
       ghostVars, vars
<1>5. faults' \in 0..MaxFaults
  <2>1. faults' = faults \/ (faults < MaxFaults /\ faults' = faults + 1)
    BY DEF Next, Sync, NewHolder, Transfer, Interval, Refresh, Begin, FetchPage, FindHolder,
       SaveBalance, CreateWallet, SyncFails, LoginTon, TurnAway, FindWallet, CreateOwner, GetNonce, Restart, vars
  <2> QED
    BY <2>1, WalletsAssumption DEF WalletsAssumption, Typed
<1> QED
  BY <1>1, <1>2, <1>3, <1>4, <1>5 DEF Typed

\* A call waits to save only what it has just found, or is still waiting.
LEMMA Saving ==
  ASSUME Inv, [Next]_vars, NEW s \in Syncs, pc'[s] = "save"
  PROVE  /\ page'[s] = page[s]
         /\ pc[s] = "save" \/ (pc[s] = "find" /\ wallets[Head(page[s]).owner] # NoWallet
                               /\ wallets' = wallets)
<1> pc \in [Syncs -> {"idle", "fetch", "through"} \cup Busy] /\ page \in [Syncs -> Seq(Entries)]
  BY DEF Inv, CallTyped
<1>1. ASSUME NEW r \in Syncs, NEW at \in {"idle", "fetch", "find", "through", "create"},
             pc' = [pc EXCEPT ![r] = at], r # s => page'[s] = page[s]
      PROVE  pc[s] = "save" /\ page'[s] = page[s]
  BY <1>1
<1>2. ASSUME NEW r \in Syncs, NEW q, page' = [page EXCEPT ![r] = q]
      PROVE  r # s => page'[s] = page[s]
  BY <1>2
<1>3. ASSUME NEW r \in Syncs, NextWallet(r)
      PROVE  \E at \in {"fetch", "find", "through"} :
                pc' = [pc EXCEPT ![r] = at] /\ (r # s => page'[s] = page[s])
  BY <1>3 DEF NextWallet, Finish, Return
<1>4. ASSUME NEW r \in Syncs, Interval(r) \/ (\E o \in Listed : Refresh(r, o))
      PROVE  pc[s] = "save" /\ page'[s] = page[s]
  BY <1>1, <1>4 DEF Interval, Refresh, Begin
<1>5. ASSUME NEW r \in Syncs, FetchPage(r) PROVE pc[s] = "save" /\ page'[s] = page[s]
  BY <1>1, <1>5 DEF FetchPage, Finish, Return
<1>6. ASSUME NEW r \in Syncs, FindHolder(r)
      PROVE  /\ page'[s] = page[s]
             /\ pc[s] = "save" \/ (pc[s] = "find" /\ wallets[Head(page[s]).owner] # NoWallet
                                   /\ wallets' = wallets)
  BY <1>6 DEF FindHolder
<1>7. ASSUME NEW r \in Syncs, SaveBalance(r) PROVE pc[s] = "save" /\ page'[s] = page[s]
  BY <1>1, <1>3, <1>7 DEF SaveBalance
<1>8. ASSUME NEW r \in Syncs, CreateWallet(r) PROVE pc[s] = "save" /\ page'[s] = page[s]
  BY <1>1, <1>3, <1>8 DEF CreateWallet, Break, Return
<1>9. ASSUME NEW r \in Syncs, SyncFails(r) PROVE pc[s] = "save" /\ page'[s] = page[s]
  BY <1>1, <1>9 DEF SyncFails, Break, Return
<1>10. CASE Restart
  BY <1>10 DEF Restart
<1>11. CASE UNCHANGED syncVars
  BY <1>11 DEF syncVars
<1> QED
  BY <1>4, <1>5, <1>6, <1>7, <1>8, <1>9, <1>10, <1>11 DEF Next, Sync, Syncs, NewHolder, Transfer,
     LoginTon, TurnAway, FindWallet, CreateOwner, GetNonce, vars

LEMMA NextInv == Inv /\ [Next]_vars => Inv'
<1> SUFFICES ASSUME Inv, [Next]_vars PROVE Inv'
  OBVIOUS
<1>1. CallTyped' /\ Typed' /\ TonOnly'
  BY NextCalls, NextTyped, NextWallets
<1>2. FoundWallet'
  <2> SUFFICES ASSUME NEW s \in Syncs, pc'[s] = "save"
               PROVE  wallets'[Head(page'[s]).owner] # NoWallet
    BY DEF FoundWallet
  <2>1. page'[s] = page[s] /\ pc[s] \in Busy /\ wallets[Head(page[s]).owner] # NoWallet
    BY Saving DEF Inv, FoundWallet, Busy
  <2>2. Head(page[s]).owner \in TonAddrs
    BY <2>1, TailTyped DEF Inv, Entries, TonAddrs
  <2> QED
    BY <2>1, <2>2, NextWallets
<1> QED
  BY <1>1, <1>2 DEF Inv

\* Every variable keeps its type, and a call that looks up, saves or creates
\* has a wallet in its page to do it with.
THEOREM TypeCorrect == Spec => []TypeOK
<1> QED
  BY InitInv, NextInv, InvType, PTL DEF Spec

-------------------------------------------------------------------------------
(* Sessions.                                                                *)

\* A login carries its owner's signature; once it is a session, or an owner on
\* the basechain has been turned away, there is a wallet of TON.
HasWallet(x) == x.at = "session" \/ (x.at = "denied" /\ x.proof.address.workchain >= 0)

SessionInv ==
    \A l \in Logins : login[l].at # "idle" =>
        /\ login[l].proof \in Proofs
        /\ WellFormed(login[l].proof.address.stateInit) =>
              login[l].proof.signature.by = Owner(login[l].proof.address)
        /\ HasWallet(login[l]) => wallets[login[l].proof.address].network = "TON"

\* A step of one login leaves the others as they are.
LEMMA OneLogin ==
  ASSUME Inv, NEW l \in Logins, NEW at, NEW p, LoginStep(l, at, p)
  PROVE  /\ login'[l].at = at /\ login'[l].proof = p
         /\ \A m \in Logins : m # l => login'[m] = login[m]
<1>1. login' = [login EXCEPT ![l] = [at |-> at, proof |-> p]]
  BY DEF LoginStep
<1>2. DOMAIN login = Logins
  BY DEF Inv, Typed
<1> QED
  BY <1>1, <1>2

LEMMA NextSession == Inv /\ SessionInv /\ [Next]_vars => SessionInv'
<1> SUFFICES ASSUME Inv, SessionInv, [Next]_vars, NEW m \in Logins, login'[m].at # "idle"
             PROVE  /\ login'[m].proof \in Proofs
                    /\ WellFormed(login'[m].proof.address.stateInit) =>
                          login'[m].proof.signature.by = Owner(login'[m].proof.address)
                    /\ HasWallet(login'[m]) => wallets'[login'[m].proof.address].network = "TON"
  BY DEF SessionInv
<1> DEFINE Goal == /\ login'[m].proof \in Proofs
                   /\ WellFormed(login'[m].proof.address.stateInit) =>
                         login'[m].proof.signature.by = Owner(login'[m].proof.address)
                   /\ HasWallet(login'[m]) => wallets'[login'[m].proof.address].network = "TON"
<1>1. ASSUME login'[m] = login[m] PROVE Goal
  <2>1. /\ login[m].proof \in Proofs
        /\ WellFormed(login[m].proof.address.stateInit) =>
              login[m].proof.signature.by = Owner(login[m].proof.address)
        /\ HasWallet(login[m]) => wallets[login[m].proof.address].network = "TON"
    BY <1>1 DEF SessionInv
  <2>2. login[m].proof.address \in TonAddrs
    BY <2>1 DEF TonAddrs
  <2>3. wallets[login[m].proof.address].network = "TON" =>
            wallets'[login[m].proof.address].network = "TON"
    BY <2>2, NextWallets, MadeOrNot
  <2> QED
    BY <1>1, <2>1, <2>3
<1>2. ASSUME NEW l \in Logins, NEW p \in Proofs, NEW now \in Times, LoginTon(l, p, now) PROVE Goal
  <2>1. CheckProof(p, now) /\ LoginStep(l, "find", p)
    BY <1>2 DEF LoginTon
  <2>2. CASE m = l
    <3>1. login'[m].at = "find" /\ login'[m].proof = p
      BY <2>1, <2>2, OneLogin
    <3> QED
      BY <2>1, <3>1, AcceptedIsOwners DEF HasWallet
  <2>3. CASE m # l
    BY <1>1, <2>1, <2>3, OneLogin
  <2> QED
    BY <2>2, <2>3
<1>7. ASSUME NEW l \in Logins, NEW p \in Proofs, NEW now \in Times, TurnAway(l, p, now) PROVE Goal
  <2>1. Honest(p, now) /\ ~CheckProof(p, now) /\ LoginStep(l, "denied", p)
    BY <1>7 DEF TurnAway
  <2>2. ~(p.address.workchain >= 0)
    BY <2>1, HonestPasses
  <2>3. p.signature.by = Owner(p.address)
    BY <2>1 DEF Honest
  <2>4. CASE m = l
    <3>1. login'[m].at = "denied" /\ login'[m].proof = p
      BY <2>1, <2>4, OneLogin
    <3> QED
      BY <2>2, <2>3, <3>1 DEF HasWallet
  <2>5. CASE m # l
    BY <1>1, <2>1, <2>5, OneLogin
  <2> QED
    BY <2>4, <2>5
<1>3. ASSUME NEW l \in Logins, FindWallet(l) PROVE Goal
  <2> DEFINE p  == login[l].proof
             at == IF wallets[p.address].network = "TON" THEN "session" ELSE "create"
  <2>1. login[l].at = "find" /\ LoginStep(l, at, p) /\ wallets' = wallets
    BY <1>3 DEF FindWallet
  <2>2. CASE m = l
    <3>1. login'[m].at = at /\ login'[m].proof = p
      BY <2>1, <2>2, OneLogin
    <3>2. p \in Proofs /\ (WellFormed(p.address.stateInit) => p.signature.by = Owner(p.address))
      BY <2>1 DEF SessionInv
    <3>3. at = "session" => wallets[p.address].network = "TON"
      OBVIOUS
    <3>4. at # "denied"
      OBVIOUS
    <3> HIDE DEF p, at
    <3> QED
      BY <2>1, <3>1, <3>2, <3>3, <3>4 DEF HasWallet
  <2>3. CASE m # l
    BY <1>1, <2>1, <2>3, OneLogin
  <2> QED
    BY <2>2, <2>3
<1>4. ASSUME NEW l \in Logins, CreateOwner(l) PROVE Goal
  <2> DEFINE p == login[l].proof
  <2>1. p \in Proofs /\ (WellFormed(p.address.stateInit) => p.signature.by = Owner(p.address))
    BY <1>4 DEF SessionInv, CreateOwner
  <2>2. p.address \in Addresses /\ p.address \in TonAddrs
    BY <2>1 DEF Addresses, TonAddrs
  <2>3. CASE wallets[p.address] = NoWallet
    <3>1. /\ wallets' = [wallets EXCEPT ![p.address] = [network |-> "TON", balance |-> 0]]
          /\ LoginStep(l, "session", p)
      BY <1>4, <2>3 DEF CreateOwner
    <3>2. wallets'[p.address].network = "TON"
      BY <2>2, <3>1 DEF Inv, Typed
    <3>3. CASE m = l
      <4>1. login'[m].at = "session" /\ login'[m].proof = p
        BY <3>1, <3>3, OneLogin
      <4> HIDE DEF p
      <4> QED
        BY <2>1, <3>2, <4>1
    <3>4. CASE m # l
      BY <1>1, <3>1, <3>4, OneLogin
    <3> QED
      BY <3>3, <3>4
  <2>4. CASE wallets[p.address] # NoWallet
    <3>1. LoginStep(l, "denied", p) /\ wallets' = wallets
      BY <1>4, <2>4 DEF CreateOwner
    <3>2. wallets[p.address].network = "TON"
      <4>1. wallets[p.address].network # "BNB"
        BY <2>2 DEF Inv, TonOnly
      <4>2. wallets[p.address] \in Wallets
        BY <2>2 DEF Inv, Typed
      <4>3. wallets[p.address] \in Made
        BY <2>4, <4>2, MadeOrNot DEF Made
      <4> QED
        BY <4>1, <4>3 DEF Made
    <3>3. CASE m = l
      <4>1. login'[m].proof = p
        BY <3>1, <3>3, OneLogin
      <4> HIDE DEF p
      <4> QED
        BY <2>1, <3>1, <3>2, <4>1
    <3>4. CASE m # l
      BY <1>1, <3>1, <3>4, OneLogin
    <3> QED
      BY <3>3, <3>4
  <2> QED
    BY <2>3, <2>4
<1>5. CASE Restart
  <2>1. login'[m] = IF login[m].at = "session" THEN login[m] ELSE [at |-> "idle", proof |-> NoProof]
    BY <1>5 DEF Restart
  <2>2. login'[m] = login[m]
    BY <2>1
  <2> QED
    BY <1>1, <2>2
<1>6. CASE UNCHANGED login
  BY <1>1, <1>6
<1> QED
  BY <1>2, <1>3, <1>4, <1>5, <1>6, <1>7 DEF Next, Sync, NewHolder, Transfer, Interval, Refresh, Begin,
     FetchPage, FindHolder, SaveBalance, CreateWallet, SyncFails, GetNonce, vars

LEMMA SessionsHold == Spec => [](Inv /\ SessionInv)
<1>1. Init => SessionInv
  BY DEF Init, SessionInv
<1> QED
  BY <1>1, InitInv, NextInv, NextSession, PTL DEF Spec

\* A token for a TON address was signed for by the owner of its contract.
THEOREM SessionSigned == Spec => []SessionAuthentic
<1>1. SessionInv => SessionAuthentic
  BY DEF SessionInv, SessionAuthentic, Sessions
<1> QED
  BY <1>1, SessionsHold, PTL

\* The wallet of a session is there, and of its network.
THEOREM SessionServed == Spec => []SessionHasWallet
<1>1. SessionInv => SessionHasWallet
  BY DEF SessionInv, HasWallet, SessionHasWallet, Sessions
<1> QED
  BY <1>1, SessionsHold, PTL

\* The owner of any contract on the basechain, of whatever version, who brings
\* a proof of his own in time is turned away only by a wallet that has just
\* been made for him, and it stays.
THEOREM OwnerAccepted == Spec => []HonestAccepted
<1>1. SessionInv => HonestAccepted
  BY DEF SessionInv, HasWallet, HonestAccepted, Denied
<1> QED
  BY <1>1, SessionsHold, PTL

-------------------------------------------------------------------------------
(* What a call covers.                                                      *)

\* A call will ask for another page.
Turns(s) == pc[s] = "fetch" \/ (pc[s] \in Busy /\ hasMore[s])

\* An owner is on a page still to come.
Ahead(s, o) == Turns(s) /\ \E i \in 1..Len(Queried(s)) : i > offset[s] /\ Queried(s)[i] = o

Done(s, o) == wallets[o].network = "TON" /\ wallets[o].balance >= begun[s][o]

\* Whoever was there when a call began is done, or in hand, or still ahead of
\* it; and unless ahead of it, no call has an older balance of that owner in
\* hand that it could put over the newer one.
SyncInv ==
    /\ \A s \in Syncs, o \in Owners : begun[s][o] <= onChain[o]
    /\ \A s, t \in Syncs, o \in Owners \ overlapped : \A k \in DOMAIN page[t] :
          begun[s][o] >= 0 /\ page[t][k].owner = o =>
              page[t][k].balance >= begun[s][o] \/ Ahead(s, o)
    /\ \A s \in Syncs, o \in Owners \ overlapped :
          begun[s][o] >= 0 =>
              Done(s, o) \/ (\E k \in DOMAIN page[s] : page[s][k].owner = o) \/ Ahead(s, o)

LEMMA SyncInvImplies == Inv /\ SyncInv => SyncedUnlessOverlap
<1> SUFFICES ASSUME Inv, SyncInv, NEW s \in Syncs, NEW o \in Owners \ overlapped,
                    pc[s] = "through", begun[s][o] >= 0
             PROVE  Done(s, o)
  BY DEF SyncedUnlessOverlap, Done
<1>1. page[s] = <<>>
  BY DEF Inv, CallTyped, Busy
<1>2. ~Ahead(s, o)
  BY DEF Ahead, Turns, Busy
<1> QED
  BY <1>1, <1>2 DEF SyncInv

LEMMA Numbers == Balances \subseteq Int /\ MaxBalance \in Nat
  BY WalletsAssumption DEF WalletsAssumption, Balances

\* Balances on chain do not fall, nor does the list shrink.
LEMMA Grows ==
  ASSUME Inv, [Next]_vars
  PROVE  /\ \A o \in Owners : onChain'[o] >= onChain[o]
         /\ listed' \in Nat /\ listed \in Nat /\ listed <= listed' /\ listed' <= Len(Holders)
<1>1. /\ onChain \in [Owners -> Int] /\ listed \in 0..Len(Holders)
      /\ \A i \in DOMAIN Holders : Holders[i] \in Owners
  BY Numbers DEF Inv, Typed, Owners
<1>2. \A o \in Owners : onChain'[o] >= onChain[o]
  <2>1. ASSUME NEW i \in DOMAIN Holders, Transfer(i), NEW o \in Owners
        PROVE  onChain'[o] >= onChain[o]
    BY <1>1, <2>1 DEF Transfer
  <2>2. CASE UNCHANGED onChain
    BY <1>1, <2>2
  <2> QED
    BY <2>1, <2>2 DEF Next, Sync, NewHolder, Interval, Refresh, Begin, FetchPage, FindHolder,
       SaveBalance, CreateWallet, SyncFails, LoginTon, TurnAway, FindWallet, CreateOwner, GetNonce, Restart,
       chainVars, vars
<1>3. listed' = listed \/ (listed < Len(Holders) /\ listed' = listed + 1)
  BY DEF Next, Sync, NewHolder, Transfer, Interval, Refresh, Begin, FetchPage, FindHolder,
     SaveBalance, CreateWallet, SyncFails, LoginTon, TurnAway, FindWallet, CreateOwner, GetNonce, Restart,
     chainVars, vars
<1> QED
  BY <1>1, <1>2, <1>3, HoldersSeq

\* An owner ahead of a call stays ahead while it does not ask for a page.
LEMMA AheadKept ==
  ASSUME Inv, [Next]_vars, NEW s \in Syncs, NEW o, Ahead(s, o),
         owners'[s] = owners[s], offset'[s] = offset[s], Turns(s)'
  PROVE  Ahead(s, o)'
<1>1. PICK i \in 1..Len(Queried(s)) : i > offset[s] /\ Queried(s)[i] = o
  BY DEF Ahead
<1>2. i \in 1..Len(Queried(s)') /\ Queried(s)'[i] = o
  <2>1. CASE owners[s] = <<>>
    <3>1. Queried(s) = SubSeq(Holders, 1, listed) /\ Queried(s)' = SubSeq(Holders, 1, listed')
      BY <2>1 DEF Queried
    <3> QED
      BY <1>1, <3>1, Grows, HoldersSeq
  <2>2. CASE owners[s] # <<>>
    BY <1>1, <2>2 DEF Queried
  <2> QED
    BY <2>1, <2>2
<1> QED
  BY <1>1, <1>2 DEF Ahead

\* Whoever a call begins with is ahead of it.
LEMMA BeginsAhead ==
  ASSUME Inv, NEW s \in Syncs, NEW asked \in {<<>>} \cup {<<o>> : o \in Owners}, Begin(s, asked),
         NEW o \in Owners, begun'[s][o] >= 0
  PROVE  Ahead(s, o)'
<1>1. /\ pc'[s] = "fetch" /\ owners'[s] = asked /\ offset'[s] = 0 /\ listed' = listed
      /\ begun'[s] = [p \in Owners |-> IF p \in Listed /\ (asked = <<>> \/ asked = <<p>>)
                                         THEN onChain[p] ELSE -1]
  BY DEF Begin, Inv, CallTyped, chainVars
<1>2. o \in Listed /\ (asked = <<>> \/ asked = <<o>>)
  BY <1>1
<1>3. \E i \in 1..Len(Queried(s)') : i > 0 /\ Queried(s)'[i] = o
  <2>1. CASE asked = <<>>
    <3>1. Queried(s)' = SubSeq(Holders, 1, listed)
      BY <1>1, <2>1 DEF Queried
    <3>2. PICK i \in 1..listed : Holders[i] = o
      BY <1>2 DEF Listed
    <3>3. listed \in 0..Len(Holders)
      BY DEF Inv, Typed
    <3> QED
      BY <3>1, <3>2, <3>3, HoldersSeq
  <2>2. CASE asked # <<>>
    <3>1. asked = <<o>> /\ Queried(s)' = <<o>>
      BY <1>1, <1>2, <2>2 DEF Queried
    <3> QED
      BY <3>1
  <2> QED
    BY <2>1, <2>2
<1> QED
  BY <1>1, <1>3 DEF Ahead, Turns

\* An owner ceases to be ahead of a call that does not break off only as the
\* page arrives that has it.
LEMMA Arrives ==
  ASSUME Inv, [Next]_vars, NEW s \in Syncs, NEW o \in Owners, begun'[s][o] >= 0, ~Ahead(s, o)'
  PROVE  /\ begun'[s][o] = begun[s][o]
         /\ \/ ~Ahead(s, o)
            \/ /\ FetchPage(s)
               /\ LET items == Cut(Answer(s), Limit)
                  IN  /\ \E k \in DOMAIN items : items[k] = o
                      /\ items # <<>>
<1> DEFINE items == Cut(Answer(s), Limit)
           Got   == FetchPage(s) /\ (\E k \in DOMAIN items : items[k] = o) /\ items # <<>>
<1> CallTyped
  BY DEF Inv
<1>1. ASSUME owners'[s] = owners[s], offset'[s] = offset[s], Turns(s) => Turns(s)'
      PROVE  ~Ahead(s, o)
  BY <1>1, AheadKept DEF Ahead
<1>2. ASSUME UNCHANGED <<pc[s], owners[s], offset[s], hasMore[s]>> PROVE ~Ahead(s, o)
  BY <1>1, <1>2 DEF Turns
<1>3. ASSUME NEW t \in Syncs, NEW asked \in {<<>>} \cup {<<p>> : p \in Owners}, Begin(t, asked)
      PROVE  begun'[s][o] = begun[s][o] /\ ~Ahead(s, o)
  <2>1. CASE t = s
    BY <1>3, <2>1, BeginsAhead
  <2>2. CASE t # s
    BY <1>2, <1>3, <2>2 DEF Begin, CallTyped
  <2> QED
    BY <2>1, <2>2
<1>4. ASSUME NEW t \in Rounds, Interval(t) PROVE begun'[s][o] = begun[s][o] /\ ~Ahead(s, o)
  BY <1>3, <1>4 DEF Interval, Syncs
<1>5. ASSUME NEW t \in Refreshes, NEW p \in Listed, Refresh(t, p)
      PROVE  begun'[s][o] = begun[s][o] /\ ~Ahead(s, o)
  <2>1. p \in Owners
    BY HoldersSeq DEF Listed, Inv, Typed
  <2> QED
    BY <1>3, <1>5, <2>1 DEF Refresh, Syncs
<1>6. ASSUME NEW t \in Syncs, FetchPage(t) PROVE begun'[s][o] = begun[s][o] /\ (~Ahead(s, o) \/ Got)
  <2>0. begun' = begun
    BY <1>6 DEF FetchPage, Finish
  <2>1. CASE t # s
    BY <1>2, <1>6, <2>0, <2>1 DEF FetchPage, Finish, Return, CallTyped
  <2>2. CASE t = s
    <3> SUFFICES ASSUME Ahead(s, o), ~Got PROVE FALSE
      BY <2>0
    <3>1. PICK i \in 1..Len(Queried(s)) : i > offset[s] /\ Queried(s)[i] = o
      BY DEF Ahead
    <3>2. /\ items \in Seq(Owners) /\ Limit \in Nat \ {0} /\ offset[s] \in Nat
          /\ \A k \in 1..Len(items) : items[k] = Queried(s)[offset[s] + k]
          /\ i <= offset[s] + Limit => i - offset[s] \in 1..Len(items)
          /\ Len(Queried(s)) > offset[s] + Limit => Len(Answer(s)) > Limit
          /\ Queried(s) \in Seq(Owners) /\ Answer(s) \in Seq(Owners)
      BY <3>1, Page, WalletsAssumption DEF WalletsAssumption, CallTyped
    <3>3. CASE i <= offset[s] + Limit
      <4>1. i - offset[s] \in DOMAIN items /\ items[i - offset[s]] = o
        BY <3>1, <3>2, <3>3
      <4> QED
        BY <1>6, <2>2, <4>1
    <3>4. CASE i > offset[s] + Limit
      <4>1. Len(Answer(s)) > Limit
        BY <3>1, <3>2, <3>4
      <4>2. items # <<>>
        BY <3>2, <4>1, CutSeq
      <4>3. /\ pc'[s] = "find" /\ hasMore'[s] = TRUE /\ owners'[s] = owners[s]
            /\ offset'[s] = offset[s] + Limit
        BY <1>6, <2>2, <4>1, <4>2 DEF FetchPage, NextOffset, CallTyped
      <4>4. Queried(s)' = IF owners[s] = <<>> THEN SubSeq(Holders, 1, listed') ELSE owners[s]
        BY <4>3 DEF Queried
      <4>5. listed' = listed
        BY <1>6 DEF FetchPage, chainVars
      <4>6. Queried(s)' = Queried(s)
        BY <4>4, <4>5 DEF Queried
      <4>7. Turns(s)'
        BY <4>3 DEF Turns, Busy
      <4> QED
        BY <3>1, <3>4, <4>3, <4>6, <4>7 DEF Ahead
    <3> QED
      BY <3>1, <3>2, <3>3, <3>4
  <2> QED
    BY <2>1, <2>2
<1>7. ASSUME NEW t \in Syncs, FindHolder(t) PROVE begun'[s][o] = begun[s][o] /\ ~Ahead(s, o)
  BY <1>1, <1>7 DEF FindHolder, Turns, Busy, CallTyped, ghostVars
<1>8. ASSUME NEW t \in Syncs, pc[t] \in Busy, NextWallet(t)
      PROVE  begun'[s][o] = begun[s][o] /\ ~Ahead(s, o)
  <2>0. begun' = begun
    BY <1>8 DEF NextWallet, Finish
  <2>1. CASE t # s
    BY <1>2, <1>8, <2>0, <2>1 DEF NextWallet, Finish, Return, CallTyped
  <2>2. CASE t = s /\ hasMore[s]
    <3>1. owners' = owners /\ offset' = offset /\ hasMore' = hasMore /\ pc'[s] \in {"find", "fetch"}
      BY <1>8, <2>2 DEF NextWallet, CallTyped
    <3> QED
      BY <1>1, <2>0, <2>2, <3>1 DEF Turns, Busy
  <2>3. CASE t = s /\ ~hasMore[s]
    BY <1>8, <2>0, <2>3 DEF Ahead, Turns, Busy
  <2> QED
    BY <2>1, <2>2, <2>3
<1>9. ASSUME NEW t \in Syncs, Break(t) PROVE begun'[s][o] = begun[s][o] /\ ~Ahead(s, o)
  <2>1. CASE t = s
    BY <1>9, <2>1 DEF Break, CallTyped, NoOne
  <2>2. CASE t # s
    BY <1>2, <1>9, <2>2 DEF Break, Return, CallTyped
  <2> QED
    BY <2>1, <2>2
<1>10. ASSUME NEW t \in Syncs, SaveBalance(t) \/ CreateWallet(t) \/ SyncFails(t)
       PROVE  begun'[s][o] = begun[s][o] /\ ~Ahead(s, o)
  BY <1>8, <1>9, <1>10 DEF SaveBalance, CreateWallet, SyncFails, Busy
<1>11. CASE Restart
  BY <1>11 DEF Restart, NoOne
<1>12. CASE UNCHANGED <<syncVars, begun>>
  BY <1>2, <1>12 DEF syncVars
<1> QED
  BY <1>4, <1>5, <1>6, <1>7, <1>10, <1>11, <1>12 DEF Next, Sync, NewHolder, Transfer, LoginTon, TurnAway,
     FindWallet, CreateOwner, GetNonce, ghostVars, vars

\* What a call has in hand it has had, or has just fetched as it is on chain.
LEMMA Entry ==
  ASSUME Inv, [Next]_vars, NEW t \in Syncs, NEW k \in DOMAIN page'[t]
  PROVE  \/ \E j \in DOMAIN page[t] : page[t][j] = page'[t][k]
         \/ FetchPage(t) /\ page'[t][k].balance = onChain[page'[t][k].owner]
<1> DEFINE Old == \E j \in DOMAIN page[t] : page[t][j] = page'[t][k]
<1> CallTyped
  BY DEF Inv
<1>1. ASSUME page'[t] = page[t] PROVE Old
  BY <1>1
<1>2. ASSUME page'[t] = <<>> PROVE FALSE
  BY <1>2
<1>3. ASSUME NEW s \in Syncs, Return(s) PROVE Old
  BY <1>1, <1>2, <1>3 DEF Return, CallTyped
<1>4. ASSUME NEW s \in Syncs, pc[s] \in Busy, NextWallet(s) PROVE Old
  <2>1. CASE Return(s)
    BY <1>3, <2>1
  <2>2. CASE page' = [page EXCEPT ![s] = Tail(page[s])]
    <3>1. CASE t = s
      <4>1. page'[t] = Tail(page[t])
        BY <2>2, <3>1 DEF CallTyped
      <4> QED
        BY <1>4, <3>1, <4>1, TailTyped
    <3>2. CASE t # s
      BY <1>1, <2>2, <3>2 DEF CallTyped
    <3> QED
      BY <3>1, <3>2
  <2> QED
    BY <1>4, <2>1, <2>2 DEF NextWallet, Finish
<1>5. ASSUME NEW s \in Syncs, FetchPage(s)
      PROVE  Old \/ (FetchPage(t) /\ page'[t][k].balance = onChain[page'[t][k].owner])
  <2> DEFINE items == Cut(Answer(s), Limit)
  <2>1. CASE items = <<>>
    BY <1>3, <1>5, <2>1 DEF FetchPage, Finish
  <2>2. CASE items # <<>>
    <3> DEFINE new == [j \in DOMAIN items |-> [owner |-> items[j], balance |-> onChain[items[j]]]]
    <3>1. page' = [page EXCEPT ![s] = new]
      BY <1>5, <2>2 DEF FetchPage
    <3>2. CASE t = s
      <4>1. page'[t] = new
        BY <3>1, <3>2 DEF CallTyped
      <4>2. page'[t][k] = [owner |-> items[k], balance |-> onChain[items[k]]]
        BY <4>1
      <4> QED
        BY <1>5, <3>2, <4>2
    <3>3. CASE t # s
      BY <1>1, <3>1, <3>3 DEF CallTyped
    <3> QED
      BY <3>2, <3>3
  <2> QED
    BY <2>1, <2>2
<1>6. ASSUME NEW s \in Syncs, SaveBalance(s) \/ CreateWallet(s) \/ SyncFails(s) PROVE Old
  BY <1>3, <1>4, <1>6 DEF SaveBalance, CreateWallet, SyncFails, Break, Busy
<1>7. CASE Restart
  BY <1>2, <1>7 DEF Restart
<1>8. CASE UNCHANGED page
  BY <1>1, <1>8
<1> QED
  BY <1>5, <1>6, <1>7, <1>8 DEF Next, Sync, NewHolder, Transfer, Interval, Refresh, Begin, FindHolder,
     LoginTon, TurnAway, FindWallet, CreateOwner, GetNonce, syncVars, vars

\* What a call puts into an owner's document is what it has in hand.
LEMMA Stores ==
  ASSUME Inv, NEW s \in Syncs, SaveBalance(s) \/ (CreateWallet(s) /\ ~Break(s)), NEW o \in Owners
  PROVE  /\ pc[s] \in Busy /\ 1 \in DOMAIN page[s] /\ page[s][1] = Head(page[s])
         /\ NextWallet(s)
         /\ IF Head(page[s]).owner = o
              THEN wallets'[o].network = "TON" /\ wallets'[o].balance = Head(page[s]).balance
              ELSE wallets'[o] = wallets[o]
<1> DEFINE h == Head(page[s])
<1>1. pc[s] \in Busy /\ NextWallet(s)
  BY DEF SaveBalance, CreateWallet, Busy
<1>2. /\ h \in Entries /\ Len(page[s]) >= 1 /\ Len(page[s]) \in Nat
      /\ page[s] \in Seq(Entries)
  BY <1>1, TailTyped DEF Inv, CallTyped
<1>3. 1 \in DOMAIN page[s] /\ page[s][1] = h
  BY <1>2
<1>4. h.owner \in Owners /\ h.balance \in Balances /\ Owners \subseteq Addresses
  BY <1>2, HoldersSeq DEF Entries
<1>5. wallets \in [Addresses -> Wallets]
  BY DEF Inv, Typed
<1> HIDE DEF h
<1>6. ASSUME SaveBalance(s)
      PROVE  IF h.owner = o THEN wallets'[o].network = "TON" /\ wallets'[o].balance = h.balance
                            ELSE wallets'[o] = wallets[o]
  <2>1. wallets' = [wallets EXCEPT ![h.owner] = [wallets[h.owner] EXCEPT !.balance = h.balance]]
    BY <1>6 DEF SaveBalance, h
  <2>2. wallets[h.owner] # NoWallet /\ wallets[h.owner].network # "BNB"
    <3>1. wallets[h.owner] # NoWallet
      BY <1>6 DEF SaveBalance, h, Inv, FoundWallet
    <3> QED
      BY <1>4, <3>1 DEF Inv, TonOnly, TonAddrs
  <2>3. wallets[h.owner] \in Made
    BY <1>4, <1>5, <2>2, MadeOrNot DEF Made
  <2>4. wallets[h.owner].network = "TON"
    BY <2>2, <2>3 DEF Made
  <2>5. /\ [wallets[h.owner] EXCEPT !.balance = h.balance].network = "TON"
        /\ [wallets[h.owner] EXCEPT !.balance = h.balance].balance = h.balance
    BY <2>3, <2>4 DEF Made
  <2> QED
    BY <1>4, <1>5, <2>1, <2>5
<1>7. ASSUME CreateWallet(s), ~Break(s)
      PROVE  IF h.owner = o THEN wallets'[o].network = "TON" /\ wallets'[o].balance = h.balance
                            ELSE wallets'[o] = wallets[o]
  <2>1. wallets' = [wallets EXCEPT ![h.owner] = [network |-> "TON", balance |-> h.balance]]
    BY <1>7 DEF CreateWallet, h
  <2> QED
    BY <1>4, <1>5, <2>1
<1> QED
  BY <1>1, <1>3, <1>6, <1>7 DEF h

\* Nobody else changes the document of an owner who has one.
LEMMA OnlyStores ==
  ASSUME Inv, [Next]_vars, NEW o \in Owners, wallets[o] # NoWallet
  PROVE  \/ wallets'[o] = wallets[o]
         \/ \E s \in Syncs : SaveBalance(s) /\ Head(page[s]).owner = o
<1> Owners \subseteq TonAddrs /\ TonAddrs \subseteq Addresses /\ EvmAddrs \cap TonAddrs = {}
  BY WalletsAssumption DEF WalletsAssumption, Addresses, TonAddrs
<1> wallets \in [Addresses -> Wallets]
  BY DEF Inv, Typed
<1>1. ASSUME NEW s \in Syncs, SaveBalance(s), Head(page[s]).owner # o PROVE wallets'[o] = wallets[o]
  BY <1>1 DEF SaveBalance
<1>2. ASSUME NEW s \in Syncs, CreateWallet(s) PROVE wallets'[o] = wallets[o]
  BY <1>2 DEF CreateWallet
<1>3. ASSUME NEW l \in Logins, CreateOwner(l) PROVE wallets'[o] = wallets[o]
  BY <1>3 DEF CreateOwner
<1>4. ASSUME NEW a \in Addresses, GetNonce(a) PROVE wallets'[o] = wallets[o]
  BY <1>4 DEF GetNonce
<1> QED
  BY <1>1, <1>2, <1>3, <1>4 DEF Next, Sync, NewHolder, Transfer, Interval, Refresh, Begin, FetchPage,
     FindHolder, SyncFails, LoginTon, TurnAway, FindWallet, Restart, vars

\* An owner leaves a call's page only by being stored, unless it breaks off.
LEMMA Leaves ==
  ASSUME Inv, [Next]_vars, NEW s \in Syncs, NEW o \in Owners, begun'[s][o] >= 0,
         NEW k \in DOMAIN page[s], page[s][k].owner = o,
         ~ \E j \in DOMAIN page'[s] : page'[s][j].owner = o,
         ~Ahead(s, o)'
  PROVE  wallets'[o].network = "TON" /\ wallets'[o].balance = page[s][k].balance
<1> CallTyped
  BY DEF Inv
<1>0. page'[s] # page[s] /\ pc[s] \in Busy
  BY DEF CallTyped
<1>1. ASSUME NEW t \in Syncs, t = s, SaveBalance(t) \/ (CreateWallet(t) /\ ~Break(t))
      PROVE  wallets'[o].network = "TON" /\ wallets'[o].balance = page[s][k].balance
  <2>1. page[s][k] = Head(page[s])
    <3>1. NextWallet(s)
      BY <1>1, Stores
    <3>2. CASE Len(page[s]) > 1 \/ hasMore[s]
      <4>1. page'[s] = Tail(page[s])
        BY <3>1, <3>2 DEF NextWallet, CallTyped
      <4>2. \A i \in DOMAIN page[s] :
               page[s][i] = Head(page[s]) \/ \E j \in DOMAIN Tail(page[s]) : Tail(page[s])[j] = page[s][i]
        BY <1>0, TailTyped
      <4> QED
        BY <4>1, <4>2
    <3>3. CASE ~(Len(page[s]) > 1 \/ hasMore[s])
      <4>1. Tail(page[s]) = <<>>
        BY <1>0, <3>3, TailTyped
      <4> QED
        BY <1>0, <4>1, TailTyped
    <3> QED
      BY <3>2, <3>3
  <2> QED
    BY <1>1, <2>1, Stores
<1>2. ASSUME NEW t \in Syncs, Break(t) PROVE t # s
  BY <1>2 DEF Break, CallTyped, NoOne
<1>3. ASSUME NEW t \in Syncs, t # s,
             FetchPage(t) \/ SaveBalance(t) \/ CreateWallet(t) \/ SyncFails(t)
      PROVE  page'[s] = page[s]
  BY <1>3 DEF FetchPage, SaveBalance, CreateWallet, SyncFails, NextWallet, Finish, Break, Return,
     CallTyped
<1>4. ~FetchPage(s) /\ ~SyncFails(s)
  BY <1>0, <1>2 DEF FetchPage, Busy, SyncFails
<1>5. CASE Restart
  BY <1>5 DEF Restart, NoOne
<1>6. CASE UNCHANGED page
  BY <1>0, <1>6
<1> QED
  BY <1>0, <1>1, <1>2, <1>3, <1>4, <1>5, <1>6 DEF Next, Sync, NewHolder, Transfer, Interval, Refresh,
     Begin, FindHolder, LoginTon, TurnAway, FindWallet, CreateOwner, GetNonce, syncVars, vars

LEMMA NextSync == Inv /\ SyncInv /\ [Next]_vars => SyncInv'
<1> SUFFICES ASSUME Inv, SyncInv, [Next]_vars PROVE SyncInv'
  OBVIOUS
<1> CallTyped /\ Typed
  BY DEF Inv
<1>0. /\ \A s \in Syncs, o \in Owners : begun[s][o] \in Int /\ begun[s][o] <= onChain[o]
      /\ \A o \in Owners : onChain[o] \in Int /\ onChain'[o] \in Int /\ onChain'[o] >= onChain[o]
      /\ \A s \in Syncs, o \in Owners : begun'[s][o] \in Int
  <2>1. onChain' \in [Owners -> Balances] /\ begun' \in [Syncs -> [Owners -> {-1} \cup Balances]]
    BY NextCalls, NextTyped DEF CallTyped, Typed
  <2>2. \A s \in Syncs, o \in Owners : begun[s][o] \in Int /\ begun'[s][o] \in Int
    <3>1. \A b \in {-1} \cup Balances : b \in Int
      BY Numbers
    <3> QED
      BY <2>1, <3>1 DEF CallTyped
  <2>3. \A o \in Owners : onChain[o] \in Int /\ onChain'[o] \in Int
    BY <2>1, Numbers DEF Typed
  <2> QED
    BY <2>2, <2>3, Grows DEF SyncInv
<1>1. \A s \in Syncs, o \in Owners : begun'[s][o] <= onChain'[o]
  <2> SUFFICES ASSUME NEW s \in Syncs, NEW o \in Owners PROVE begun'[s][o] <= onChain'[o]
    OBVIOUS
  <2>1. begun'[s][o] = begun[s][o] \/ begun'[s][o] = -1 \/ begun'[s][o] = onChain[o]
    <3>1. ASSUME NEW t \in Syncs, NEW asked, Begin(t, asked)
          PROVE  begun'[s][o] = begun[s][o] \/ begun'[s][o] = -1 \/ begun'[s][o] = onChain[o]
      BY <3>1 DEF Begin, CallTyped
    <3>2. ASSUME NEW t \in Syncs, Break(t) PROVE begun'[s][o] = begun[s][o] \/ begun'[s][o] = -1
      BY <3>2 DEF Break, NoOne, CallTyped
    <3>3. CASE Restart
      BY <3>3 DEF Restart, NoOne
    <3>4. ASSUME NEW t \in Syncs, FetchPage(t) \/ SaveBalance(t) PROVE begun' = begun
      BY <3>4 DEF FetchPage, SaveBalance, NextWallet, Finish
    <3>5. ASSUME NEW t \in Syncs, CreateWallet(t) \/ SyncFails(t) PROVE begun' = begun \/ Break(t)
      BY <3>5 DEF CreateWallet, SyncFails, NextWallet, Finish
    <3> QED
      BY <3>1, <3>2, <3>3, <3>4, <3>5 DEF Next, Sync, Syncs, Interval, Refresh, NewHolder, Transfer,
         FindHolder, LoginTon, TurnAway, FindWallet, CreateOwner, GetNonce, ghostVars, vars
  <2>2. onChain'[o] >= 0
    <3>1. onChain[o] \in Balances
      BY DEF Typed
    <3> QED
      BY <1>0, <3>1 DEF Balances
  <2> QED
    BY <1>0, <2>1, <2>2
<1>2. ASSUME NEW s \in Syncs, NEW t \in Syncs, NEW o \in Owners \ overlapped', NEW k \in DOMAIN page'[t],
             begun'[s][o] >= 0, page'[t][k].owner = o, ~Ahead(s, o)'
      PROVE  page'[t][k].balance >= begun'[s][o]
  <2>1. o \notin overlapped
    BY DEF Next, Sync, Interval, Refresh, Begin, NewHolder, Transfer, FetchPage, FindHolder,
       SaveBalance, CreateWallet, SyncFails, LoginTon, TurnAway, FindWallet, CreateOwner, GetNonce, Restart,
       ghostVars, vars
  <2>2. begun'[s][o] = begun[s][o]
    BY <1>2, Arrives
  <2>3. CASE FetchPage(t) /\ page'[t][k].balance = onChain[page'[t][k].owner]
    BY <1>0, <1>2, <2>2, <2>3
  <2>4. CASE \E j \in DOMAIN page[t] : page[t][j] = page'[t][k]
    <3>1. PICK j \in DOMAIN page[t] : page[t][j] = page'[t][k]
      BY <2>4
    <3>2. CASE ~Ahead(s, o)
      BY <1>2, <2>1, <2>2, <3>1, <3>2 DEF SyncInv
    <3>3. CASE Ahead(s, o)
      <4> DEFINE items == Cut(Answer(s), Limit)
      <4>1. FetchPage(s) /\ items # <<>> /\ \E i \in DOMAIN items : items[i] = o
        BY <1>2, <3>3, Arrives
      <4>2. t # s
        <5>1. page[s] = <<>>
          BY <4>1 DEF FetchPage, CallTyped, Busy
        <5> QED
          BY <3>1, <5>1
      <4>3. o \in InHand(t)
        BY <1>2, <3>1 DEF InHand
      <4>4. overlapped' = overlapped \cup
               UNION {{items[i] : i \in DOMAIN items} \cap InHand(r) : r \in Syncs \ {s}}
        BY <4>1 DEF FetchPage
      <4>5. o \in {items[i] : i \in DOMAIN items} \cap InHand(t)
        BY <4>1, <4>3
      <4> QED
        BY <4>2, <4>4, <4>5
    <3> QED
      BY <3>2, <3>3
  <2> QED
    BY <1>2, <2>3, <2>4, Entry
<1>3. ASSUME NEW s \in Syncs, NEW o \in Owners \ overlapped', begun'[s][o] >= 0, ~Ahead(s, o)',
             ~ \E k \in DOMAIN page'[s] : page'[s][k].owner = o
      PROVE  Done(s, o)'
  <2>1. o \notin overlapped
    BY DEF Next, Sync, Interval, Refresh, Begin, NewHolder, Transfer, FetchPage, FindHolder,
       SaveBalance, CreateWallet, SyncFails, LoginTon, TurnAway, FindWallet, CreateOwner, GetNonce, Restart,
       ghostVars, vars
  <2>2. begun'[s][o] = begun[s][o]
    BY <1>3, Arrives
  <2>3. ~Ahead(s, o)
    <3> SUFFICES ASSUME Ahead(s, o) PROVE FALSE
      OBVIOUS
    <3> DEFINE items == Cut(Answer(s), Limit)
               new   == [k \in DOMAIN items |-> [owner |-> items[k], balance |-> onChain[items[k]]]]
    <3>1. FetchPage(s) /\ items # <<>> /\ \E i \in DOMAIN items : items[i] = o
      BY <1>3, Arrives
    <3>2. page'[s] = new
      BY <3>1 DEF FetchPage, CallTyped
    <3>3. PICK i \in DOMAIN items : items[i] = o
      BY <3>1
    <3>4. i \in DOMAIN page'[s] /\ page'[s][i] = [owner |-> items[i], balance |-> onChain[items[i]]]
      BY <3>2, <3>3
    <3> QED
      BY <1>3, <3>3, <3>4
  <2>4. CASE \E k \in DOMAIN page[s] : page[s][k].owner = o
    <3>1. PICK k \in DOMAIN page[s] : page[s][k].owner = o
      BY <2>4
    <3>2. wallets'[o].network = "TON" /\ wallets'[o].balance = page[s][k].balance
      BY <1>3, <3>1, Leaves
    <3>3. page[s][k].balance >= begun[s][o]
      BY <1>3, <2>1, <2>2, <2>3, <3>1 DEF SyncInv
    <3> QED
      BY <2>2, <3>2, <3>3 DEF Done
  <2>5. CASE Done(s, o)
    <3>1. wallets[o] # NoWallet /\ wallets[o].network = "TON" /\ wallets[o].balance >= begun[s][o]
      BY <2>5, MadeOrNot DEF Done
    <3>2. CASE wallets'[o] = wallets[o]
      BY <2>2, <3>1, <3>2 DEF Done
    <3>3. ASSUME NEW t \in Syncs, SaveBalance(t), Head(page[t]).owner = o PROVE Done(s, o)'
      <4>1. /\ 1 \in DOMAIN page[t] /\ page[t][1] = Head(page[t])
            /\ wallets'[o].network = "TON" /\ wallets'[o].balance = Head(page[t]).balance
        BY <3>3, Stores
      <4>2. page[t][1].balance >= begun[s][o]
        BY <1>3, <2>1, <2>2, <2>3, <3>3, <4>1 DEF SyncInv
      <4> QED
        BY <2>2, <4>1, <4>2 DEF Done
    <3> QED
      BY <3>1, <3>2, <3>3, OnlyStores
  <2> QED
    BY <1>3, <2>1, <2>2, <2>3, <2>4, <2>5 DEF SyncInv
<1>4. \A s, t \in Syncs, o \in Owners \ overlapped' : \A k \in DOMAIN page'[t] :
          begun'[s][o] >= 0 /\ page'[t][k].owner = o =>
              page'[t][k].balance >= begun'[s][o] \/ Ahead(s, o)'
  BY <1>2
<1>5. \A s \in Syncs, o \in Owners \ overlapped' : begun'[s][o] >= 0 =>
          Done(s, o)' \/ (\E k \in DOMAIN page'[s] : page'[s][k].owner = o) \/ Ahead(s, o)'
  BY <1>3
<1> QED
  BY <1>1, <1>4, <1>5 DEF SyncInv

\* When a call has gone through, nobody who was listed as it began has been
\* left out, and nobody shows an older balance than then, where no other call
\* had that owner in hand.
THEOREM NobodyLeftOut == Spec => []SyncedUnlessOverlap
<1>1. Init => SyncInv
  BY DEF Init, SyncInv, NoOne
<1> QED
  BY <1>1, InitInv, NextInv, NextSync, SyncInvImplies, PTL DEF Spec
===============================================================================

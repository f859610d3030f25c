------------------------------- MODULE TonWallets -------------------------------
(***************************************************************************)
(* The documents of TON owners in the collection wallets, and who writes   *)
(* them: TonSchedule.syncBalances, on its interval for all owners and on   *)
(* each swap for one, and AuthService.loginTon.  Both look the owner up    *)
(* and then save or create the document; the unique index on address and   *)
(* network refuses a second one.                                           *)
(*                                                                         *)
(* The jetton's holders are listed in a fixed order, new ones last; owners *)
(* present their address in the raw form in which the list has it.         *)
(***************************************************************************)
EXTENDS TonProof, Sequences, FiniteSets

CONSTANTS
    Holders,     \* every address that may come to hold the jetton, in the order of the list
    Rounds,      \* calls of the interval under way at a time
    Refreshes,   \* calls for a swap under way at a time
    Logins,      \* TON logins under way at a time
    EvmAddrs,    \* what @IsEthereumAddress lets through to getNonce
    Proofs,      \* the bodies of login requests
    Times,       \* the times at which they arrive
    Limit,       \* wallets in a page, 100 in the code
    MaxBalance,  \* bound: transfers stop once a balance has changed so often
    MaxFaults    \* bound: number of errors

Owners == {Holders[i] : i \in DOMAIN Holders}
Syncs == Rounds \cup Refreshes
TonAddrs == Owners \cup {p.address : p \in Proofs}
Addresses == TonAddrs \cup EvmAddrs

ASSUME WalletsAssumption ==
    /\ Holders \in Seq(Owners)
    /\ \A i, j \in DOMAIN Holders : Holders[i] = Holders[j] => i = j
    /\ Rounds \cap Refreshes = {}
    /\ Limit \in Nat \ {0} /\ MaxBalance \in Nat /\ MaxFaults \in Nat
    /\ EvmAddrs \cap TonAddrs = {}
    /\ Times \subseteq Int
    /\ \A p \in Proofs :
          /\ p.stateInit.data \in [before: Nat, key: OwnerKeys \cup {Garbage}, after: Nat]
          /\ p.timestamp \in Int

VARIABLES
    listed,     \* how many of Holders the jetton's list has
    onChain,    \* the balance of each holder
    wallets,    \* the document of each address
    \* the locals of syncBalances
    pc, owners, offset, page, hasMore,
    \* the login requests
    login,      \* how far each has got, with the proof it brought
    \* bookkeeping
    begun,      \* ghost: the balances, and who was listed, when a call began
    overlapped, \* ghost: owners of whom two calls held a balance at a time
    faults

NoWallet == [network |-> "none", balance |-> -1]
NoProof == [address |-> NoKey]
NoOne == [o \in Owners |-> -1]

chainVars == <<listed, onChain>>
syncVars  == <<pc, owners, offset, page, hasMore>>
ghostVars == <<begun, overlapped>>
vars == <<chainVars, wallets, syncVars, login, ghostVars, faults>>

Balances == 0..MaxBalance
Wallets == [network: {"TON", "BNB"}, balance: Balances] \cup {NoWallet}

TypeOK ==
    /\ listed \in 0..Len(Holders)
    /\ onChain \in [Owners -> Balances]
    /\ wallets \in [Addresses -> Wallets]
    /\ pc \in [Syncs -> {"idle", "fetch", "find", "save", "create", "through"}]
    /\ owners \in [Syncs -> {<<>>} \cup {<<o>> : o \in Owners}]
    /\ offset \in [Syncs -> Nat]
    /\ page \in [Syncs -> Seq([owner: Owners, balance: Balances])]
    /\ hasMore \in [Syncs -> BOOLEAN]
    /\ \A s \in Syncs : pc[s] \in {"find", "save", "create"} => page[s] # <<>>
    /\ login \in [Logins -> [at: {"idle", "find", "create", "session", "denied"},
                            proof: Proofs \cup {NoProof}]]
    /\ begun \in [Syncs -> [Owners -> {-1} \cup Balances]]
    /\ overlapped \in SUBSET Owners
    /\ faults \in 0..MaxFaults

Init ==
    /\ listed = 0
    /\ onChain = [o \in Owners |-> 0]
    /\ wallets = [a \in Addresses |-> IF a \in EvmAddrs THEN [network |-> "BNB", balance |-> 0]
                                                       ELSE NoWallet]
    /\ pc = [s \in Syncs |-> "idle"]
    /\ owners = [s \in Syncs |-> <<>>]
    /\ offset = [s \in Syncs |-> 0]
    /\ page = [s \in Syncs |-> <<>>]
    /\ hasMore = [s \in Syncs |-> FALSE]
    /\ login = [l \in Logins |-> [at |-> "idle", proof |-> NoProof]]
    /\ begun = [s \in Syncs |-> NoOne]
    /\ overlapped = {}
    /\ faults = 0

-------------------------------------------------------------------------------
(* The jetton.                                                              *)

NewHolder ==
    /\ listed < Len(Holders)
    /\ listed' = listed + 1
    /\ UNCHANGED <<onChain, wallets, syncVars, login, ghostVars, faults>>

Transfer(i) ==
    /\ i <= listed
    /\ \A o \in Owners : onChain[o] < MaxBalance
    /\ onChain' = [onChain EXCEPT ![Holders[i]] = @ + 1]
    /\ UNCHANGED <<listed, wallets, syncVars, login, ghostVars, faults>>

Listed == {Holders[i] : i \in 1..listed}

-------------------------------------------------------------------------------
(* syncBalances.                                                            *)

Begin(s, asked) ==
    /\ pc[s] \in {"idle", "through"}
    /\ pc' = [pc EXCEPT ![s] = "fetch"]
    /\ owners' = [owners EXCEPT ![s] = asked]
    /\ offset' = [offset EXCEPT ![s] = 0]
    /\ begun' = [begun EXCEPT ![s] =
          [o \in Owners |-> IF o \in Listed /\ (asked = <<>> \/ asked = <<o>>) THEN onChain[o] ELSE -1]]
    /\ UNCHANGED <<chainVars, wallets, page, hasMore, login, overlapped, faults>>

\* Mutant: it fires once, like a timeout.
Interval_Once(s) == pc[s] = "idle" /\ Begin(s, <<>>)

\* @Interval: no owners, which is all of them.
Interval(s) == Begin(s, <<>>)

\* onTransactions: syncBalances([fromAddress]).
Refresh(s, o) == Begin(s, <<o>>)

\* The call is over: whatever it went by is gone.
Return(s) ==
    /\ owners' = [owners EXCEPT ![s] = <<>>]
    /\ offset' = [offset EXCEPT ![s] = 0]
    /\ page' = [page EXCEPT ![s] = <<>>]
    /\ hasMore' = [hasMore EXCEPT ![s] = FALSE]

\* It went through: it vouches for the balances it began with, or newer ones.
Finish(s) == pc' = [pc EXCEPT ![s] = "through"] /\ Return(s) /\ UNCHANGED begun

\* It broke off.
Break(s) ==
    /\ pc' = [pc EXCEPT ![s] = "idle"]
    /\ Return(s)
    /\ begun' = [begun EXCEPT ![s] = NoOne]

\* At most n elements of a sequence.
Cut(seq, n) == SubSeq(seq, 1, IF n < Len(seq) THEN n ELSE Len(seq))

\* The owners a call is about, in the order of the list.
Queried(s) == IF owners[s] = <<>> THEN SubSeq(Holders, 1, listed) ELSE owners[s]

\* What toncenter answers: from offset on, and one more than a page.
Answer(s) == Cut(SubSeq(Queried(s), offset[s] + 1, Len(Queried(s))), Limit + 1)

\* Mutant: the offset moves by what was asked for, one more than a page.
NextOffset_Asked(s) == offset[s] + Limit + 1

NextOffset(s) == offset[s] + Limit

\* The owners whose balance a call has in hand.
InHand(s) == {page[s][k].owner : k \in DOMAIN page[s]}

\* client.get, with the balances of that moment; an empty page ends the call.
FetchPage(s) ==
    LET answer == Answer(s)
        items  == Cut(answer, Limit)
    IN  /\ pc[s] = "fetch"
        /\ IF items = <<>>
             THEN Finish(s) /\ UNCHANGED overlapped
             ELSE /\ page' = [page EXCEPT ![s] =
                        [k \in DOMAIN items |-> [owner |-> items[k], balance |-> onChain[items[k]]]]]
                  /\ hasMore' = [hasMore EXCEPT ![s] = Len(answer) > Limit]
                  /\ offset' = [offset EXCEPT ![s] = NextOffset(s)]
                  /\ pc' = [pc EXCEPT ![s] = "find"]
                  /\ overlapped' = overlapped \cup
                        UNION {{items[k] : k \in DOMAIN items} \cap InHand(t) : t \in Syncs \ {s}}
                  /\ UNCHANGED <<owners, begun>>
        /\ UNCHANGED <<chainVars, wallets, login, faults>>

\* findByWalletAddress.
FindHolder(s) ==
    /\ pc[s] = "find"
    /\ pc' = [pc EXCEPT ![s] = IF wallets[Head(page[s]).owner] = NoWallet THEN "create" ELSE "save"]
    /\ UNCHANGED <<chainVars, wallets, owners, offset, page, hasMore, login, ghostVars, faults>>

\* Mutant: the loop goes on past the end of the page.
NextWallet_PastEnd(s) ==
    IF hasMore[s]
      THEN /\ page' = [page EXCEPT ![s] = Tail(@)]
           /\ pc' = [pc EXCEPT ![s] = "find"]
           /\ UNCHANGED <<owners, offset, hasMore, begun>>
      ELSE Finish(s)

\* The wallet is done; the next one, the next page, or the end.
NextWallet(s) ==
    IF Len(page[s]) > 1 \/ hasMore[s]
      THEN /\ page' = [page EXCEPT ![s] = Tail(@)]
           /\ pc' = [pc EXCEPT ![s] = IF Len(page[s]) > 1 THEN "find" ELSE "fetch"]
           /\ UNCHANGED <<owners, offset, hasMore, begun>>
      ELSE Finish(s)

SaveBalance(s) ==
    /\ pc[s] = "save"
    /\ wallets' = [wallets EXCEPT ![Head(page[s]).owner].balance = Head(page[s]).balance]
    /\ NextWallet(s)
    /\ UNCHANGED <<chainVars, login, overlapped, faults>>

\* The index refuses a second document: an error, and the call breaks off.
CreateWallet(s) ==
    /\ pc[s] = "create"
    /\ IF wallets[Head(page[s]).owner] = NoWallet
         THEN /\ wallets' = [wallets EXCEPT ![Head(page[s]).owner] =
                                [network |-> "TON", balance |-> Head(page[s]).balance]]
              /\ NextWallet(s)
         ELSE Break(s) /\ UNCHANGED wallets
    /\ UNCHANGED <<chainVars, login, overlapped, faults>>

\* catch: any error breaks off the whole call.
SyncFails(s) ==
    /\ pc[s] \notin {"idle", "through"}
    /\ faults < MaxFaults
    /\ faults' = faults + 1
    /\ Break(s)
    /\ UNCHANGED <<chainVars, wallets, login, overlapped>>

-------------------------------------------------------------------------------
(* Signing in.                                                              *)

LoginStep(l, at, p) == login' = [login EXCEPT ![l] = [at |-> at, proof |-> p]]

\* The network, and verifyJwt: generatePayload's token is a signed time, and
\* good for fifteen minutes after it.
Fresh(p, now) ==
    /\ p.chain = "ours"
    /\ p.payload.ours /\ now < p.payload.issued + ValidAuthTime

\* loginTon up to checkProof.
LoginTon(l, p, now) ==
    /\ login[l].at \in {"idle", "denied"}
    /\ Fresh(p, now) /\ CheckProof(p, now)
    /\ LoginStep(l, "find", p)
    /\ UNCHANGED <<chainVars, wallets, syncVars, ghostVars, faults>>

\* An owner's own request is turned away; any other one, and one that meets an
\* error of the node or the database, leaves no trace.
TurnAway(l, p, now) ==
    /\ login[l].at \in {"idle", "denied"}
    /\ Fresh(p, now) /\ Honest(p, now) /\ ~CheckProof(p, now)
    /\ LoginStep(l, "denied", p)
    /\ UNCHANGED <<chainVars, wallets, syncVars, ghostVars, faults>>

\* getWalletDetail(address, TON).
FindWallet(l) ==
    LET p == login[l].proof
    IN  /\ login[l].at = "find"
        /\ LoginStep(l, IF wallets[p.address].network = "TON" THEN "session" ELSE "create", p)
        /\ UNCHANGED <<chainVars, wallets, syncVars, ghostVars, faults>>

\* walletsService.create and the token, or the error of the index.
CreateOwner(l) ==
    LET p == login[l].proof
    IN  /\ login[l].at = "create"
        /\ IF wallets[p.address] = NoWallet
             THEN /\ wallets' = [wallets EXCEPT ![p.address] = [network |-> "TON", balance |-> 0]]
                  /\ LoginStep(l, "session", p)
             ELSE LoginStep(l, "denied", p) /\ UNCHANGED wallets
        /\ UNCHANGED <<chainVars, syncVars, ghostVars, faults>>

\* Mutant: the query is not checked for an Ethereum address.
GetNonce_AnyAddress(a) ==
    /\ wallets' = [wallets EXCEPT ![a] = [network |-> "BNB", balance |-> IF @ = NoWallet THEN 0 ELSE @.balance]]
    /\ UNCHANGED <<chainVars, syncVars, login, ghostVars, faults>>

\* getNonce: an upsert by address alone that makes it a wallet of BNB.
GetNonce(a) ==
    /\ a \in EvmAddrs
    /\ wallets' = [wallets EXCEPT ![a] = [network |-> "BNB", balance |-> IF @ = NoWallet THEN 0 ELSE @.balance]]
    /\ UNCHANGED <<chainVars, syncVars, login, ghostVars, faults>>

\* The process dies with everything it had under way.
Restart ==
    /\ faults < MaxFaults
    /\ faults' = faults + 1
    /\ pc' = [s \in Syncs |-> "idle"]
    /\ owners' = [s \in Syncs |-> <<>>]
    /\ offset' = [s \in Syncs |-> 0]
    /\ page' = [s \in Syncs |-> <<>>]
    /\ hasMore' = [s \in Syncs |-> FALSE]
    /\ begun' = [s \in Syncs |-> NoOne]
    /\ login' = [l \in Logins |-> IF login[l].at = "session" THEN login[l]
                                  ELSE [at |-> "idle", proof |-> NoProof]]
    /\ UNCHANGED <<chainVars, wallets, overlapped>>

-------------------------------------------------------------------------------
Sync(s) == FetchPage(s) \/ FindHolder(s) \/ SaveBalance(s) \/ CreateWallet(s)

Next ==
    \/ NewHolder
    \/ \E i \in DOMAIN Holders : Transfer(i)
    \/ \E s \in Rounds : Interval(s)
    \/ \E s \in Refreshes, o \in Listed : Refresh(s, o)
    \/ \E s \in Syncs : Sync(s) \/ SyncFails(s)
    \/ \E l \in Logins :
          \/ \E p \in Proofs, now \in Times : LoginTon(l, p, now) \/ TurnAway(l, p, now)
          \/ FindWallet(l) \/ CreateOwner(l)
    \/ \E a \in Addresses : GetNonce(a)
    \/ Restart

Spec == Init /\ [][Next]_vars

\* The interval fires, and what it calls settles; so does a refresh or a login
\* under way, but nobody has to ask for one.
Fairness ==
    /\ \A s \in Rounds : WF_vars(Interval(s))
    /\ \A s \in Syncs : WF_vars(Sync(s))
    /\ \A l \in Logins : WF_vars(FindWallet(l) \/ CreateOwner(l))

FairSpec == Spec /\ Fairness

-------------------------------------------------------------------------------
(* Properties.                                                              *)

Sessions == {login[l].proof : l \in {m \in Logins : login[m].at = "session"}}
Denied == {login[l].proof : l \in {m \in Logins : login[m].at = "denied"}}

\* Whoever gets a token for a TON address signed for it, with the key that the
\* contract at that address obeys, whatever version the contract is of and
\* whether its key was parsed or asked for.
SessionAuthentic ==
    \A p \in Sessions : WellFormed(p.address.stateInit) => p.signature.by = Owner(p.address)

\* The owner of a contract on the basechain who brings a proof of his own, in
\* time, gets a token, unless a sync or another login makes his wallet between
\* the look-up and the creation; then it is there for the next attempt.
\* An owner on the masterchain never gets one, and nothing is said of him.
HonestAccepted ==
    \A p \in Denied : p.address.workchain >= 0 => wallets[p.address].network = "TON"

\* A session finds its wallet, under the network of its token, as long as the
\* backend runs: no sync, login or nonce request takes it away.
SessionHasWallet == \A p \in Sessions : wallets[p.address].network = "TON"

\* When a call of syncBalances has gone through, the wallet of every owner who
\* was listed as it began is there and shows a balance at least as new as
\* then, unless two calls held balances of that owner at a time.
SyncedUnlessOverlap ==
    \A s \in Syncs, o \in Owners \ overlapped :
        pc[s] = "through" /\ begun[s][o] >= 0 =>
            wallets[o].network = "TON" /\ wallets[o].balance >= begun[s][o]

\* Once errors stop, every holder's wallet shows the balance on chain, also
\* where overlapping calls had written an older one.
EventuallySynced ==
    <>[](\A o \in Listed : wallets[o].balance = onChain[o])
===============================================================================

---------------------------- MODULE TonSubscription ----------------------------
(***************************************************************************)
(* AccountSubscriptionService: the poller that follows the VNST account on *)
(* TON, records its mints and redeems and notifies their senders.          *)
(*                                                                         *)
(* The account's transactions come newest first, in pages, down to the     *)
(* logical time the service last began from; each is recorded, its         *)
(* sender's balance refreshed, a notification created and a mail sent.     *)
(* Only at the end of an iteration does lastIndexedLt move; but a process  *)
(* that starts again takes it from the newest recorded transaction.        *)
(***************************************************************************)
EXTENDS Integers, FiniteSets

CONSTANTS
    MaxLt,      \* bound: the last logical time the account reaches
    Swaps,      \* the logical times that parseTransaction takes for MINT or REDEEM
    SentAt,     \* createdAt of the message behind each: not in the order of lt
    Owner,      \* the sender of each
    Subscribed, \* the owners with enabledNoti
    BatchLimit, \* transactions to a page, 100 in the code
    MaxFaults   \* bound: number of errors and crashes

Lts == 1..MaxLt

ASSUME TonAssumption ==
    /\ MaxLt \in Nat
    /\ Swaps \subseteq Lts
    /\ SentAt \in [Swaps -> Nat]
    /\ BatchLimit \in Nat \ {0}
    /\ MaxFaults \in Nat

VARIABLES
    head,      \* the logical time of the account's newest transaction
    \* MongoDB
    stored,    \* the ton_transactions collection, by logical time
    wallets,   \* owners with a wallet document
    notices,   \* notifications created for each swap
    \* Mailgun
    mails,     \* mails sent for each swap
    \* the process
    pc,
    lastIndexedLt,    \* 0 when undefined
    iterationStartLt, \* 0 when empty
    lt,               \* where the next page ends, 0 when undefined
    batch,            \* swaps of the page still to be handled
    \* bookkeeping
    dropped,     \* ghost: swaps whose createTransaction failed
    unlisted,    \* ghost: swaps whose sender had no wallet and was not listed as a holder
    trail,       \* ghost: "cut" once the process died inside an iteration, until one ends
    base,        \* ghost: below it an interrupted iteration may have left swaps
    faults       \* errors and crashes so far

mongoVars == <<stored, wallets, notices>>
iterVars  == <<iterationStartLt, lt, batch>>
ghostVars == <<dropped, unlisted, trail, base>>
vars == <<head, mongoVars, mails, pc, lastIndexedLt, iterVars, ghostVars, faults>>

Owners == {Owner[t] : t \in Swaps}

TypeOK ==
    /\ head \in 0..MaxLt
    /\ stored \in SUBSET Swaps
    /\ wallets \in SUBSET Owners
    /\ notices \in [Swaps -> Nat]
    /\ mails \in [Swaps -> Nat]
    /\ pc \in {"down", "idle", "fetch", "create", "sync", "notify", "mail"}
    /\ lastIndexedLt \in 0..MaxLt
    /\ iterationStartLt \in 0..MaxLt
    /\ lt \in 0..MaxLt
    /\ batch \in SUBSET Swaps
    /\ dropped \in SUBSET Swaps
    /\ unlisted \in SUBSET Swaps
    /\ trail \in {"whole", "cut"}
    /\ base \in 0..MaxLt
    /\ faults \in 0..MaxFaults

Init ==
    /\ head = 0
    /\ stored = {}
    /\ wallets = {}
    /\ notices = [t \in Swaps |-> 0]
    /\ mails = [t \in Swaps |-> 0]
    /\ pc = "down"
    /\ lastIndexedLt = 0
    /\ iterationStartLt = 0
    /\ lt = 0
    /\ batch = {}
    /\ dropped = {}
    /\ unlisted = {}
    /\ trail = "whole"
    /\ base = 0
    /\ faults = 0

Fault ==
    /\ faults < MaxFaults
    /\ faults' = faults + 1

Newest(t, S) == t \in S /\ \A u \in S : u <= t
Oldest(t, S) == t \in S /\ \A u \in S : t <= u

MaxOf(a, b) == IF a < b THEN b ELSE a

-------------------------------------------------------------------------------
(* The account gains a transaction, a swap or any other.                    *)

Arrive ==
    /\ head < MaxLt
    /\ head' = head + 1
    /\ UNCHANGED <<mongoVars, mails, pc, lastIndexedLt, iterVars, ghostVars, faults>>

-------------------------------------------------------------------------------
(* onModuleInit and the end of the process.                                 *)

\* getLastTransaction: a document with the greatest timestamp.
IsLastTransaction(t) ==
    t \in stored /\ \A u \in stored : SentAt[u] <= SentAt[t]

\* The service begins anew from l.
Begin(l) ==
    /\ pc = "down"
    /\ pc' = "idle"
    /\ lastIndexedLt' = l
    /\ base' = IF trail = "cut" THEN MaxOf(base, l) ELSE base
    /\ UNCHANGED <<head, mongoVars, mails, iterVars, dropped, unlisted, trail>>

OnModuleInit ==
    /\ \/ stored = {} /\ Begin(0)
       \/ \E t \in Swaps : IsLastTransaction(t) /\ Begin(t)
    /\ UNCHANGED faults

\* The query fails: the error is logged and lastIndexedLt stays undefined.
OnModuleInitFails == Begin(0) /\ Fault

\* A deploy, an unhandled error anywhere in the backend, or a page that fails
\* ten times (tick has no catch, so its rejection ends the process).
Crash ==
    /\ pc # "down"
    /\ Fault
    /\ pc' = "down"
    /\ trail' = IF pc = "idle" THEN trail ELSE "cut"
    /\ lastIndexedLt' = 0
    /\ iterationStartLt' = 0
    /\ lt' = 0
    /\ batch' = {}
    /\ UNCHANGED <<head, mongoVars, mails, dropped, unlisted, base>>

-------------------------------------------------------------------------------
(* subscribeToTransactionUpdate(): the pages.                               *)

\* tick, every ten seconds unless the last iteration is still running.
Tick ==
    /\ pc = "idle"
    /\ pc' = "fetch"
    /\ UNCHANGED <<head, mongoVars, mails, lastIndexedLt, iterVars, ghostVars, faults>>

\* What is left to fetch: to_lt is exclusive, and so is lt once it is given.
Remaining ==
    {t \in Lts : lastIndexedLt < t /\ t <= head /\ (lt # 0 => t < lt)}

\* The API answers with the newest of them, as many as it likes up to the limit.
IsPage(page) ==
    /\ page # {}
    /\ Cardinality(page) <= BatchLimit
    /\ \A t \in Remaining \ page, u \in page : t < u

\* Mutant: what parseTransaction cannot read is handled all the same.
HandlePage_Unparsed(page) ==
    /\ batch' = page
    /\ pc' = "create"
    /\ UNCHANGED <<head, mongoVars, mails, ghostVars, faults>>

\* onTransactions skips what parseTransaction does not return.
HandlePage(page) ==
    /\ batch' = page \cap Swaps
    /\ pc' = IF page \cap Swaps = {} THEN "fetch" ELSE "create"
    /\ UNCHANGED <<head, mongoVars, mails, ghostVars, faults>>

\* Mutant: lastIndexedLt moves with the first page, not at the end.
FetchBatch_MarkFirst ==
    /\ pc = "fetch"
    /\ \E page \in SUBSET Remaining :
          /\ IsPage(page)
          /\ \E first, last \in page :
                /\ Newest(first, page)
                /\ Oldest(last, page)
                /\ iterationStartLt' = first
                /\ lastIndexedLt' = first
                /\ lt' = last
          /\ HandlePage(page)

\* Mutant: the next page begins where this one did.
FetchBatch_SamePage ==
    /\ pc = "fetch"
    /\ \E page \in SUBSET Remaining :
          /\ IsPage(page)
          /\ \E first \in page :
                /\ Newest(first, page)
                /\ iterationStartLt' = IF iterationStartLt = 0 THEN first ELSE iterationStartLt
          /\ HandlePage(page)
    /\ UNCHANGED <<lastIndexedLt, lt>>

\* getTransactionsBatch and the handling of what it returned; the first
\* transaction of the first page is where the iteration started.
FetchBatch ==
    /\ pc = "fetch"
    /\ \E page \in SUBSET Remaining :
          /\ IsPage(page)
          /\ \E first, last \in page :
                /\ Newest(first, page)
                /\ Oldest(last, page)
                /\ iterationStartLt' = IF iterationStartLt = 0 THEN first ELSE iterationStartLt
                /\ lt' = last
          /\ HandlePage(page)
    /\ UNCHANGED lastIndexedLt

\* An empty page ends the iteration: only now does lastIndexedLt move.
EndIteration ==
    /\ pc = "fetch"
    /\ Remaining = {}
    /\ pc' = "idle"
    /\ lastIndexedLt' = IF iterationStartLt = 0 THEN lastIndexedLt ELSE iterationStartLt
    /\ iterationStartLt' = 0
    /\ lt' = 0
    /\ trail' = "whole"
    /\ UNCHANGED <<head, mongoVars, mails, batch, dropped, unlisted, base, faults>>

-------------------------------------------------------------------------------
(* onTransactions(): one swap after the other, newest first.  An error in   *)
(* any step is logged and the next swap is taken up.                        *)

Done(t) ==
    /\ batch' = batch \ {t}
    /\ pc' = IF batch = {t} THEN "fetch" ELSE "create"
    /\ UNCHANGED <<iterationStartLt, lt>>

\* Mutant: the collection has no unique index on hash.
CreateTransaction_Again(t) ==
    /\ pc = "create"
    /\ Newest(t, batch)
    /\ stored' = stored \cup {t}
    /\ pc' = "sync"
    /\ UNCHANGED <<head, wallets, notices, mails, lastIndexedLt, iterVars, ghostVars, faults>>

\* createTransaction; the index on hash refuses one that is already there.
CreateTransaction(t) ==
    /\ pc = "create"
    /\ Newest(t, batch)
    /\ \/ /\ t \notin stored
          /\ stored' = stored \cup {t}
          /\ pc' = "sync"
          /\ UNCHANGED <<iterVars, dropped, faults>>
       \/ /\ t \in stored
          /\ Done(t)
          /\ UNCHANGED <<stored, dropped, faults>>
       \/ /\ Fault
          /\ Done(t)
          /\ dropped' = dropped \cup {t}
          /\ UNCHANGED stored
    /\ UNCHANGED <<head, wallets, notices, mails, lastIndexedLt, unlisted, trail, base>>

\* Mutant: a missing wallet is not created.
SyncBalances_UpdateOnly(t) ==
    /\ pc = "sync"
    /\ Newest(t, batch)
    /\ pc' = "notify"
    /\ UNCHANGED <<head, mongoVars, mails, lastIndexedLt, iterVars, ghostVars, faults>>

\* tonSchedule.syncBalances([fromAddress]) creates the wallet of a holder who
\* has none.  toncenter may not list the sender (his first jettons are not
\* indexed yet, or there never were any): then there is no wallet and no error.
\* It catches its own errors, and so never ends the handling of the swap.
SyncBalances(t) ==
    /\ pc = "sync"
    /\ Newest(t, batch)
    /\ \/ wallets' = wallets \cup {Owner[t]} /\ UNCHANGED <<unlisted, faults>>
       \/ /\ unlisted' = IF Owner[t] \in wallets THEN unlisted ELSE unlisted \cup {t}
          /\ UNCHANGED <<wallets, faults>>
       \/ UNCHANGED <<wallets, unlisted>> /\ Fault
    /\ pc' = "notify"
    /\ UNCHANGED <<head, stored, notices, mails, lastIndexedLt, iterVars, dropped, trail, base>>

\* findByWalletAddress, and a notification if there is a wallet.
Notify(t) ==
    /\ pc = "notify"
    /\ Newest(t, batch)
    /\ \/ /\ Owner[t] \in wallets
          /\ notices' = [notices EXCEPT ![t] = @ + 1]
          /\ IF Owner[t] \in Subscribed
               THEN pc' = "mail" /\ UNCHANGED iterVars
               ELSE Done(t)
          /\ UNCHANGED faults
       \/ Owner[t] \notin wallets /\ Done(t) /\ UNCHANGED <<notices, faults>>
       \/ Fault /\ Done(t) /\ UNCHANGED notices
    /\ UNCHANGED <<head, stored, wallets, mails, lastIndexedLt, ghostVars>>

\* sendEmailTransaction swallows its errors.
Mail(t) ==
    /\ pc = "mail"
    /\ Newest(t, batch)
    /\ \/ mails' = [mails EXCEPT ![t] = @ + 1] /\ UNCHANGED faults
       \/ UNCHANGED mails /\ Fault
    /\ Done(t)
    /\ UNCHANGED <<head, mongoVars, lastIndexedLt, ghostVars>>

-------------------------------------------------------------------------------
Poll ==
    \/ OnModuleInit
    \/ Tick
    \/ FetchBatch
    \/ EndIteration
    \/ \E t \in Swaps : CreateTransaction(t) \/ SyncBalances(t) \/ Notify(t) \/ Mail(t)

Next == Poll \/ Arrive \/ OnModuleInitFails \/ Crash

Spec == Init /\ [][Next]_vars

\* The process is started again, the interval fires, every await settles.
FairSpec == Spec /\ WF_vars(Poll)

-------------------------------------------------------------------------------
(* Properties.                                                              *)

\* A swap is announced at most once, however often a restart makes the
\* poller fetch it again; no swap is announced that is not recorded, and
\* none is mailed without a notification.
AnnouncedOnce ==
    \A t \in Swaps :
        /\ notices[t] <= 1
        /\ mails[t] <= notices[t]
        /\ notices[t] = 1 => t \in stored

\* One error or crash costs at most one notification of a recorded swap: no
\* loss spreads to the swaps handled after it.  Without any error, only the swap
\* of a sender who had no wallet and whom toncenter did not list goes unannounced.
InHand(t) == t \in batch /\ pc \in {"sync", "notify"} /\ Newest(t, batch)

OneFaultOneLoss ==
    Cardinality({t \in stored \ unlisted : notices[t] = 0 /\ ~InHand(t)}) <= faults

\* Every swap up to lastIndexedLt is recorded or was dropped with an error,
\* except below the point where an interrupted iteration was taken up.
NoGapAboveBase ==
    \A t \in Swaps : base < t /\ t <= lastIndexedLt => t \in stored \cup dropped

\* The same without exception, as the comment above the loop has it: all the
\* transactions down to lastIndexedLt are fetched.  A crash in the middle of
\* an iteration breaks it: newer swaps are already recorded, older are not.
NoGap ==
    \A t \in Swaps : t <= lastIndexedLt => t \in stored \cup dropped

\* Once the account rests, every swap above that point is recorded or was
\* dropped, and everything the service ever fetched lies behind the mark.
EventuallyRecorded ==
    <>[](/\ \A t \in Swaps : base < t /\ t <= head => t \in stored \cup dropped
         /\ stored \subseteq 0..lastIndexedLt)

\* The poller keeps the indexer's promise, with lastIndexedLt for its mark.
Position == [t \in Swaps |-> t]
Arrived  == {t \in Swaps : t <= head}

Index == INSTANCE ChainIndex WITH
    Items <- Swaps, Pos <- Position, ledger <- Arrived, taken <- stored \cup dropped,
    mark <- lastIndexedLt + 1, floor <- base + 1

ImplementsChainIndex == Index!Spec
===============================================================================

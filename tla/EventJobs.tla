------------------------------- MODULE EventJobs -------------------------------
(***************************************************************************)
(* EventLogsConsumer and the Bull queue "eventLog" it serves: one kind of  *)
(* job records a contract event, notifies and mails its owner; the other   *)
(* copies a holder's on-chain balance into the wallet document.            *)
(*                                                                         *)
(* The queue is as the package behaves: first in, first out; the           *)
(* concurrencies of named processors add up, and every slot takes jobs of  *)
(* either kind; an error of the handler fails the job for good (attempts   *)
(* is 1); a job whose process died is found stalled and is run once more   *)
(* (maxStalledCount is 1).  Every await of a handler ends an action, so    *)
(* that handlers in other slots and crashes fall between any two.          *)
(***************************************************************************)
EXTENDS Integers, Sequences, FiniteSets

CONSTANTS
    InsertJobs,  \* insertEventLog jobs, some of them for the same event
    BalanceJobs, \* updateBalance jobs, some of them for the same address
    EventOf,     \* the event each insertEventLog job carries
    AddrOf,      \* the address each updateBalance job carries
    Swaps,       \* the events named MINT or REDEEM
    OwnerOf,     \* the address a swap names first, never the zero one: a token is
                 \* neither minted to it nor burnt from it
    Addrs,       \* addresses, in the lower case both handlers bring them to
    ZeroAddress, \* the one updateBalance skips
    Registered,  \* addresses with a wallet document from the start
    Subscribed,  \* those with enabledNoti
    Slots,       \* concurrency of the queue: 1 + 5 in the code
    MaxBalance,  \* bound: transfers that change an address's balance
    MaxFaults,   \* bound: number of errors
    MaxCrashes   \* bound: number of process deaths

Jobs == InsertJobs \cup BalanceJobs
Events == {EventOf[j] : j \in InsertJobs}

ASSUME JobsAssumption ==
    /\ InsertJobs \cap BalanceJobs = {}
    /\ DOMAIN EventOf = InsertJobs
    /\ AddrOf \in [BalanceJobs -> Addrs]
    /\ Swaps \subseteq Events
    /\ OwnerOf \in [Swaps -> Addrs \ {ZeroAddress}]
    /\ Subscribed \subseteq Registered /\ Registered \subseteq Addrs
    /\ Slots \in Nat \ {0}
    /\ MaxBalance \in Nat /\ MaxFaults \in Nat /\ MaxCrashes \in Nat

VARIABLES
    balance,    \* on chain: how often each address's balance has changed
    \* Redis
    waiting,    \* the wait list, next job first
    step,       \* where each job, or its handler, has got to
    stalls,     \* how often each job was found stalled
    \* the locals of the updateBalance handlers
    read,       \* the balance getBalanceOf returned
    \* MongoDB
    stored,     \* the event_logs collection
    wallet,     \* the balance in each wallet document, NoWallet if there is none
    notices,    \* notifications created for each swap
    \* Mailgun
    mails,      \* mails sent for each swap
    \* bookkeeping
    asked,      \* ghost: the balance on chain when a refresh was last queued, if ever
    overlapped, \* ghost: addresses two refreshes of which ran at a time, or that
                \* signed up while a refresh was about to create the document
    late,       \* ghost: swaps whose owner had no wallet yet, nor a refresh behind it
    faults, crashes

NoWallet == -1

queueVars  == <<waiting, stalls>>
mongoVars  == <<stored, wallet, notices>>
ghostVars  == <<asked, overlapped, late>>
bounds     == <<faults, crashes>>
vars == <<balance, queueVars, step, read, mongoVars, mails, ghostVars, bounds>>

InsertSteps  == {"upsert", "find", "notify", "mail"}
BalanceSteps == {"balance", "lookup", "save", "create"}
Running == {j \in Jobs : step[j] \in InsertSteps \cup BalanceSteps \cup {"finish"}}

TypeOK ==
    /\ balance \in [Addrs -> 0..MaxBalance]
    /\ waiting \in Seq(Jobs)
    /\ step \in [Jobs -> InsertSteps \cup BalanceSteps \cup
                        {"absent", "wait", "finish", "stalled", "completed", "failed"}]
    /\ \A j \in BalanceJobs : AddrOf[j] = ZeroAddress => step[j] \notin BalanceSteps
    /\ stalls \in [Jobs -> 0..2]
    /\ read \in [BalanceJobs -> 0..MaxBalance]
    /\ stored \in SUBSET Events
    /\ wallet \in [Addrs -> {NoWallet} \cup 0..MaxBalance]
    /\ notices \in [Swaps -> Nat]
    /\ mails \in [Swaps -> Nat]
    /\ asked \in [Addrs -> {NoWallet} \cup 0..MaxBalance]
    /\ overlapped \in SUBSET Addrs
    /\ late \in SUBSET Swaps
    /\ faults \in 0..MaxFaults
    /\ crashes \in 0..MaxCrashes
    /\ Cardinality(Running) <= Slots

Init ==
    /\ balance = [a \in Addrs |-> 0]
    /\ waiting = <<>>
    /\ step = [j \in Jobs |-> "absent"]
    /\ stalls = [j \in Jobs |-> 0]
    /\ read = [j \in BalanceJobs |-> 0]
    /\ stored = {}
    /\ wallet = [a \in Addrs |-> IF a \in Registered THEN 0 ELSE NoWallet]
    /\ notices = [e \in Swaps |-> 0]
    /\ mails = [e \in Swaps |-> 0]
    /\ asked = [a \in Addrs |-> NoWallet]
    /\ overlapped = {}
    /\ late = {}
    /\ faults = 0
    /\ crashes = 0

Fault ==
    /\ faults < MaxFaults
    /\ faults' = faults + 1
    /\ UNCHANGED crashes

Goto(j, s) == step' = [step EXCEPT ![j] = s]

-------------------------------------------------------------------------------
(* The chain and the producers of jobs.                                     *)

Transfer(a) ==
    /\ balance[a] < MaxBalance
    /\ balance' = [balance EXCEPT ![a] = @ + 1]
    /\ UNCHANGED <<queueVars, step, read, mongoVars, mails, ghostVars, bounds>>

\* addBulk of scanEventLog or getEventLogByTrasaction.
Add(j) ==
    /\ step[j] = "absent"
    /\ Goto(j, "wait")
    /\ waiting' = Append(waiting, j)
    /\ asked' = IF j \in BalanceJobs
                  THEN [asked EXCEPT ![AddrOf[j]] = balance[AddrOf[j]]]
                  ELSE asked
    /\ UNCHANGED <<balance, stalls, read, mongoVars, mails, overlapped, late, bounds>>

\* getNonce for an address without a document, be it the zero one: an upsert.
SignUp(a) ==
    /\ wallet[a] = NoWallet
    /\ wallet' = [wallet EXCEPT ![a] = 0]
    /\ overlapped' = IF \E j \in BalanceJobs : AddrOf[j] = a /\ step[j] = "create"
                       THEN overlapped \cup {a}
                       ELSE overlapped
    /\ UNCHANGED <<balance, queueVars, step, read, stored, notices, mails, asked, late, bounds>>

-------------------------------------------------------------------------------
(* The queue.                                                               *)

\* The refreshes of address a in a slot now.
Refreshing(a) == {j \in Running \cap BalanceJobs : AddrOf[j] = a}

RefreshCompleted(a) == \E j \in BalanceJobs : AddrOf[j] = a /\ step[j] = "completed"

\* Mutant: updateBalance does not skip the zero address.
Take_ZeroToo ==
    /\ waiting # <<>>
    /\ Cardinality(Running) < Slots
    /\ Goto(Head(waiting), IF Head(waiting) \in InsertJobs THEN "upsert" ELSE "balance")
    /\ waiting' = Tail(waiting)
    /\ UNCHANGED <<balance, stalls, read, mongoVars, mails, ghostVars, bounds>>

\* A free slot takes the next job, of whatever kind.
Take ==
    /\ waiting # <<>>
    /\ Cardinality(Running) < Slots
    /\ LET j == Head(waiting)
       IN  IF j \in InsertJobs
             THEN Goto(j, "upsert") /\ UNCHANGED overlapped
             ELSE IF AddrOf[j] = ZeroAddress
               THEN Goto(j, "finish") /\ UNCHANGED overlapped
               ELSE /\ Goto(j, "balance")
                    /\ overlapped' = IF Refreshing(AddrOf[j]) = {}
                                       THEN overlapped
                                       ELSE overlapped \cup {AddrOf[j]}
    /\ waiting' = Tail(waiting)
    /\ UNCHANGED <<balance, stalls, read, mongoVars, mails, asked, late, bounds>>

\* The handler returned; the job leaves the active list.
Complete(j) ==
    /\ step[j] = "finish"
    /\ Goto(j, "completed")
    /\ UNCHANGED <<balance, queueVars, read, mongoVars, mails, ghostVars, bounds>>

\* The process dies with all its handlers; their jobs stay active, unlocked.
Crash ==
    /\ crashes < MaxCrashes
    /\ Running # {}
    /\ crashes' = crashes + 1
    /\ step' = [j \in Jobs |-> IF j \in Running THEN "stalled" ELSE step[j]]
    /\ UNCHANGED <<balance, queueVars, read, mongoVars, mails, ghostVars, faults>>

\* Mutant: a stalled job is never run again.
Recover_TooLate(j) ==
    /\ step[j] = "stalled"
    /\ stalls[j] >= 1
    /\ Goto(j, "failed")
    /\ UNCHANGED <<balance, queueVars, read, mongoVars, mails, ghostVars, bounds>>

\* The stalled check: the first time the job runs again before the others
\* that wait, the second time it has failed.
Recover(j) ==
    /\ step[j] = "stalled"
    /\ stalls' = [stalls EXCEPT ![j] = @ + 1]
    /\ IF stalls[j] < 1
         THEN Goto(j, "wait") /\ waiting' = <<j>> \o waiting
         ELSE Goto(j, "failed") /\ UNCHANGED waiting
    /\ UNCHANGED <<balance, read, mongoVars, mails, ghostVars, bounds>>

-------------------------------------------------------------------------------
(* insertEventLog.                                                          *)

\* Mutant: the handler does not look at upsertedId.
Upsert_AnyJob(j) ==
    /\ step[j] = "upsert"
    /\ stored' = stored \cup {EventOf[j]}
    /\ Goto(j, IF EventOf[j] \in Swaps THEN "find" ELSE "finish")
    /\ UNCHANGED <<balance, queueVars, read, wallet, notices, mails, ghostVars, bounds>>

\* Mutant: the job that matched a document goes on, not the one that made it.
Upsert_Matched(j) ==
    /\ step[j] = "upsert"
    /\ stored' = stored \cup {EventOf[j]}
    /\ Goto(j, IF EventOf[j] \in Swaps \cap stored THEN "find" ELSE "finish")
    /\ UNCHANGED <<balance, queueVars, read, wallet, notices, mails, ghostVars, bounds>>

\* updateOne with upsert; only the job that inserted the document goes on
\* (upsertedId).  An error here is not caught and fails the job.
Upsert(j) ==
    /\ step[j] = "upsert"
    /\ \/ /\ stored' = stored \cup {EventOf[j]}
          /\ Goto(j, IF EventOf[j] \in Swaps \ stored THEN "find" ELSE "finish")
          /\ UNCHANGED bounds
       \/ /\ Goto(j, "failed")
          /\ Fault
          /\ UNCHANGED stored
    /\ UNCHANGED <<balance, queueVars, read, wallet, notices, mails, ghostVars>>

\* Every error from here on is caught, and the job completes.
FindWallet(j) ==
    LET owner == OwnerOf[EventOf[j]]
    IN  /\ step[j] = "find"
        /\ \/ /\ Goto(j, IF wallet[owner] # NoWallet THEN "notify" ELSE "finish")
              /\ late' = IF wallet[owner] = NoWallet /\ ~RefreshCompleted(owner)
                           THEN late \cup {EventOf[j]}
                           ELSE late
              /\ UNCHANGED bounds
           \/ Goto(j, "finish") /\ Fault /\ UNCHANGED late
        /\ UNCHANGED <<balance, queueVars, read, mongoVars, mails, asked, overlapped>>

CreateNotification(j) ==
    /\ step[j] = "notify"
    /\ \/ /\ notices' = [notices EXCEPT ![EventOf[j]] = @ + 1]
          /\ Goto(j, IF OwnerOf[EventOf[j]] \in Subscribed THEN "mail" ELSE "finish")
          /\ UNCHANGED bounds
       \/ Goto(j, "finish") /\ Fault /\ UNCHANGED notices
    /\ UNCHANGED <<balance, queueVars, read, stored, wallet, mails, ghostVars>>

SendEmail(j) ==
    /\ step[j] = "mail"
    /\ \/ mails' = [mails EXCEPT ![EventOf[j]] = @ + 1] /\ UNCHANGED bounds
       \/ UNCHANGED mails /\ Fault
    /\ Goto(j, "finish")
    /\ UNCHANGED <<balance, queueVars, read, mongoVars, ghostVars>>

-------------------------------------------------------------------------------
(* updateBalance.  Every error is caught, and the job completes.            *)

UpdateFails(j) ==
    /\ step[j] \in BalanceSteps
    /\ Fault
    /\ Goto(j, "finish")
    /\ UNCHANGED <<balance, queueVars, read, mongoVars, mails, ghostVars>>

GetBalance(j) ==
    /\ step[j] = "balance"
    /\ read' = [read EXCEPT ![j] = balance[AddrOf[j]]]
    /\ Goto(j, "lookup")
    /\ UNCHANGED <<balance, queueVars, mongoVars, mails, ghostVars, bounds>>

\* Mutant: an unknown holder is left to the next refresh.
FindHolder_NoCreate(j) ==
    /\ step[j] = "lookup"
    /\ Goto(j, IF wallet[AddrOf[j]] \in {NoWallet, read[j]} THEN "finish" ELSE "save")
    /\ UNCHANGED <<balance, queueVars, read, mongoVars, mails, ghostVars, bounds>>

\* Mutant: a wallet that exists is left as it is.
FindHolder_CreateOnly(j) ==
    /\ step[j] = "lookup"
    /\ Goto(j, IF wallet[AddrOf[j]] = NoWallet THEN "create" ELSE "finish")
    /\ UNCHANGED <<balance, queueVars, read, mongoVars, mails, ghostVars, bounds>>

\* The document as it is now decides how to go on.  save() writes only what
\* differs from the document that was loaded: if that is nothing, it is done.
FindHolder(j) ==
    /\ step[j] = "lookup"
    /\ Goto(j, CASE wallet[AddrOf[j]] = NoWallet -> "create"
                 [] wallet[AddrOf[j]] = read[j] -> "finish"
                 [] OTHER -> "save")
    /\ UNCHANGED <<balance, queueVars, read, mongoVars, mails, ghostVars, bounds>>

SaveBalance(j) ==
    /\ step[j] = "save"
    /\ wallet' = [wallet EXCEPT ![AddrOf[j]] = read[j]]
    /\ Goto(j, "finish")
    /\ UNCHANGED <<balance, queueVars, read, stored, notices, mails, ghostVars, bounds>>

\* The unique index refuses a second document for the address.
CreateWallet(j) ==
    /\ step[j] = "create"
    /\ wallet' = IF wallet[AddrOf[j]] = NoWallet
                   THEN [wallet EXCEPT ![AddrOf[j]] = read[j]]
                   ELSE wallet
    /\ Goto(j, "finish")
    /\ UNCHANGED <<balance, queueVars, read, stored, notices, mails, ghostVars, bounds>>

-------------------------------------------------------------------------------
Handle(j) ==
    \/ j \in InsertJobs /\ (Upsert(j) \/ FindWallet(j) \/ CreateNotification(j) \/ SendEmail(j))
    \/ j \in BalanceJobs /\ (GetBalance(j) \/ FindHolder(j) \/ SaveBalance(j) \/ CreateWallet(j))
    \/ Complete(j)

Next ==
    \/ \E a \in Addrs \ {ZeroAddress} : Transfer(a)
    \/ \E a \in Addrs : SignUp(a)
    \/ \E j \in Jobs : Add(j) \/ Handle(j) \/ Recover(j)
    \/ \E j \in BalanceJobs : UpdateFails(j)
    \/ Take
    \/ Crash

Spec == Init /\ [][Next]_vars

\* Slots keep taking jobs, awaits settle, the stalled check keeps running.
Fairness ==
    /\ WF_vars(Take)
    /\ \A j \in Jobs : WF_vars(Handle(j)) /\ WF_vars(Recover(j))

FairSpec == Spec /\ Fairness

-------------------------------------------------------------------------------
(* Properties.                                                              *)

\* However many jobs carry a swap, in slots side by side or run again after
\* a crash, its owner gets one notification and one mail at most, and only
\* for a recorded swap.
AnnouncedOnce ==
    \A e \in Swaps :
        /\ notices[e] <= 1
        /\ mails[e] <= notices[e]
        /\ notices[e] = 1 => e \in stored

\* A recorded swap whose owner had a wallet all along goes without its
\* notification only through an error or a crash: an error costs one, a
\* crash at most one for each slot.
Unannounced ==
    {e \in stored \cap Swaps :
        /\ OwnerOf[e] \in Registered
        /\ notices[e] = 0
        /\ \A j \in InsertJobs : EventOf[j] = e => step[j] \notin {"find", "notify"}}

LossIsBounded == Cardinality(Unannounced) <= faults + Slots * crashes

\* Once every refresh of an address is through, its wallet shows a balance
\* at least as new as the last time one was asked for, unless an error hit,
\* a refresh was given up after two crashes, or two of them overlapped.
Settled(a) ==
    \A j \in BalanceJobs : AddrOf[j] = a => step[j] \in {"absent", "completed"}

FreshUnlessOverlap ==
    \A a \in Addrs \ {ZeroAddress} :
        Settled(a) /\ faults = 0 /\ a \notin overlapped => wallet[a] >= asked[a]

\* Every queued job is eventually done with, also when the process dies.
Drains ==
    \A j \in Jobs : step[j] = "wait" ~> step[j] \in {"completed", "failed"}

\* Without errors and crashes every recorded swap with no job left for it is
\* announced, also to an owner who is new to the backend, unless its job looked
\* for the wallet before any refresh of the owner had been through.
NewOwnerHeard ==
    \A e \in Swaps \ late :
        /\ e \in stored /\ faults = 0 /\ crashes = 0
        /\ \A j \in InsertJobs : EventOf[j] = e => step[j] \in {"absent", "completed"}
        => notices[e] = 1
===============================================================================

----------------------------- MODULE TransactionLog -----------------------------
(***************************************************************************)
(* TransactionLogService.transactionLogJob: the third indexer, which keeps *)
(* the transactions sent to the VNST contract as BscScan lists them.       *)
(*                                                                         *)
(* Every minute a run asks for the blocks after the greatest stored one    *)
(* and stores the answer one transaction at a time, newest first.  There   *)
(* is no watermark: the newest document is one, from the moment it is      *)
(* stored.  Runs may overlap, and an error ends a run where it stands.     *)
(***************************************************************************)
EXTENDS Integers, FiniteSets

CONSTANTS
    Runs,      \* runs under way at a time
    MaxBlock,  \* bound: the chain stops growing here
    PerBlock,  \* bound: transactions of a block
    ApiLimit,  \* the longest list BscScan answers with
    MaxFaults  \* bound: number of errors and crashes

ASSUME LogAssumption ==
    /\ MaxBlock \in Nat
    /\ PerBlock \in Nat \ {0}
    /\ ApiLimit \in Nat \ {0}
    /\ MaxFaults \in Nat

Txs == [block: 1..MaxBlock, index: 1..PerBlock]

VARIABLES
    height,   \* the newest block BscScan knows
    history,  \* the transactions it lists
    stored,   \* the transactionlogs collection, unique by hash
    junk,     \* whether it also has the document without hash and blockNumber
    pc,
    start,    \* latestBlockNumber of a run
    page,     \* what the run has still to store
    dropped,  \* ghost: fetched by a run that failed, or beyond the limit of an answer
    faults    \* errors and crashes so far

runVars == <<pc, start, page>>
vars == <<height, history, stored, junk, runVars, dropped, faults>>

\* What undefined + 1 is: the start when no stored document has a blockNumber.
NaN == -1

TypeOK ==
    /\ height \in 0..MaxBlock
    /\ history \in SUBSET Txs
    /\ stored \in SUBSET Txs
    /\ junk \in BOOLEAN
    /\ pc \in [Runs -> {"idle", "fetch", "store"}]
    /\ start \in [Runs -> NaN..MaxBlock + 1]
    /\ page \in [Runs -> SUBSET Txs]
    /\ dropped \in SUBSET Txs
    /\ faults \in 0..MaxFaults

Init ==
    /\ height = 0
    /\ history = {}
    /\ stored = {}
    /\ junk = FALSE
    /\ pc = [r \in Runs |-> "idle"]
    /\ start = [r \in Runs |-> 0]
    /\ page = [r \in Runs |-> {}]
    /\ dropped = {}
    /\ faults = 0

Newer(t, u) == t.block > u.block \/ (t.block = u.block /\ t.index > u.index)

\* A block with transactions for the contract; BscScan lists all of them at once.
Mine ==
    /\ height < MaxBlock
    /\ height' = height + 1
    /\ \E n \in 1..PerBlock :
          history' = history \cup [block: {height + 1}, index: 1..n]
    /\ UNCHANGED <<stored, junk, runVars, dropped, faults>>

-------------------------------------------------------------------------------
(* transactionLogJob().                                                     *)

\* findOne().sort({ blockNumber: -1 }), plus one; a document without a
\* blockNumber comes after all others.
IsStart(n) ==
    \/ stored = {} /\ n = IF junk THEN NaN ELSE 0
    \/ \E t \in stored : n = t.block + 1 /\ \A u \in stored : u.block <= t.block

\* Mutant: startblock is taken to be exclusive.
ReadMax_Beyond(r) ==
    /\ pc[r] = "idle"
    /\ \E n \in NaN..MaxBlock + 1 : IsStart(n) /\ start' = [start EXCEPT ![r] = n + 1]
    /\ pc' = [pc EXCEPT ![r] = "fetch"]
    /\ UNCHANGED <<height, history, stored, junk, page, dropped, faults>>

ReadMax(r) ==
    /\ pc[r] = "idle"
    /\ \E n \in NaN..MaxBlock + 1 : IsStart(n) /\ start' = [start EXCEPT ![r] = n]
    /\ pc' = [pc EXCEPT ![r] = "fetch"]
    /\ UNCHANGED <<height, history, stored, junk, page, dropped, faults>>

\* BscScan may make anything of the start NaN; if it lists transactions, then
\* from the first block on.
Wanted(r) == {t \in history : start[r] <= t.block}

\* The newest of what is asked for, all of it unless the limit cuts it short.
IsAnswer(p, wanted) ==
    /\ Cardinality(p) <= ApiLimit
    /\ p # wanted => Cardinality(p) = ApiLimit
    /\ \A t \in p, u \in wanted \ p : Newer(t, u)

Fetch(r) ==
    /\ pc[r] = "fetch"
    /\ \E p \in SUBSET Wanted(r) :
          /\ IsAnswer(p, Wanted(r))
          /\ page' = [page EXCEPT ![r] = p]
          /\ dropped' = dropped \cup (Wanted(r) \ p)
          /\ pc' = [pc EXCEPT ![r] = IF p = {} THEN "idle" ELSE "store"]
    /\ UNCHANGED <<height, history, stored, junk, start, faults>>

\* Mutant: a return inside the loop forgets the rest of the answer.
Store_Forget(r) ==
    /\ pc[r] = "store"
    /\ \E t \in page[r] :
          /\ \A u \in page[r] \ {t} : Newer(t, u)
          /\ stored' = stored \cup {t}
    /\ page' = [page EXCEPT ![r] = {}]
    /\ pc' = [pc EXCEPT ![r] = "idle"]
    /\ UNCHANGED <<height, history, junk, start, dropped, faults>>

\* findOneAndUpdate with upsert, in the order of the answer.
Store(r) ==
    /\ pc[r] = "store"
    /\ \E t \in page[r] :
          /\ \A u \in page[r] \ {t} : Newer(t, u)
          /\ stored' = stored \cup {t}
          /\ page' = [page EXCEPT ![r] = @ \ {t}]
          /\ pc' = [pc EXCEPT ![r] = IF page[r] = {t} THEN "idle" ELSE "store"]
    /\ UNCHANGED <<height, history, junk, start, dropped, faults>>

\* BscScan refuses with status 200 and a message for a result (NOTOK): a limit
\* of the key, a bad parameter.  The loop takes the message's characters for
\* transactions; if the decoder puts up with them, one document without hash
\* and blockNumber stands for them all.
NotOk(r) ==
    /\ pc[r] = "fetch"
    /\ \/ start[r] = NaN /\ UNCHANGED faults
       \/ faults < MaxFaults /\ faults' = faults + 1
    /\ junk' = TRUE
    /\ pc' = [pc EXCEPT ![r] = "idle"]
    /\ UNCHANGED <<height, history, stored, start, page, dropped>>

\* The database, the API with its timeout of ten seconds, or the decoder: the
\* error is rethrown and the scheduler logs it.
Fail(r) ==
    /\ pc[r] # "idle"
    /\ faults < MaxFaults
    /\ faults' = faults + 1
    /\ pc' = [pc EXCEPT ![r] = "idle"]
    /\ page' = [page EXCEPT ![r] = {}]
    /\ dropped' = dropped \cup (page[r] \ stored)
    /\ UNCHANGED <<height, history, stored, junk, start>>

\* The process dies with all its runs.
Crash ==
    /\ \E r \in Runs : pc[r] # "idle"
    /\ faults < MaxFaults
    /\ faults' = faults + 1
    /\ pc' = [r \in Runs |-> "idle"]
    /\ page' = [r \in Runs |-> {}]
    /\ dropped' = dropped \cup ((UNION {page[r] : r \in Runs}) \ stored)
    /\ UNCHANGED <<height, history, stored, junk, start>>

-------------------------------------------------------------------------------
Step(r) == ReadMax(r) \/ Fetch(r) \/ Store(r)

Next == Mine \/ Crash \/ \E r \in Runs : Step(r) \/ NotOk(r) \/ Fail(r)

Spec == Init /\ [][Next]_vars

\* The cron job fires again and again and its awaits settle.
FairSpec == Spec /\ \A r \in Runs : WF_vars(Step(r))

-------------------------------------------------------------------------------
(* Properties.                                                              *)

InHand == UNION {page[r] : r \in Runs}

\* Whatever lies in or before a stored block, where no later run will look,
\* is stored, being stored by a run under way, or was given up by a run that
\* failed over it or whose answer was cut short.
NothingMissed ==
    \A t \in history, s \in stored :
        t.block <= s.block => t \in stored \cup InHand \cup dropped

\* The log catches up with the chain, in the end the newest block is stored and
\* every transaction is stored or was given up, unless it never gets started:
\* BscScan refused a request when nothing was stored, and refuses the start
\* NaN that follows from the document this left.
Stuck == junk /\ stored = {}

EventuallyLogged ==
    <>[](\/ Stuck
         \/ /\ \A t \in history : t \in stored \cup dropped
            /\ height # 0 => \E s \in stored : s.block = height)

\* The log keeps the indexer's promise from the first block on, with the
\* block the next run would start from for its mark.
Position == [t \in Txs |-> t.block]
Resume   == CHOOSE n \in NaN..MaxBlock + 1 : IsStart(n)

Index == INSTANCE ChainIndex WITH
    Items <- Txs, Pos <- Position, ledger <- history,
    taken <- stored \cup InHand \cup dropped, mark <- Resume, floor <- 0

ImplementsChainIndex == Index!Spec
===============================================================================

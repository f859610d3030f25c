------------------------------- MODULE EventScan -------------------------------
(***************************************************************************)
(* EventLogsService: the cron job that follows the VNST contract on BSC    *)
(* and hands its events to the "eventLog" queue, and the request that      *)
(* hands over the events of one block on demand.                           *)
(*                                                                         *)
(* scanEventLog() runs every minute and nothing keeps a slow run from      *)
(* overlapping the next one, so Scans is a set of concurrent runs.  Every  *)
(* await of the function ends an action: between two of them the chain     *)
(* grows, another run moves the watermark, a job is done, or the process   *)
(* dies.  The queue consumer is reduced to its effect on the event_logs    *)
(* collection; EventJobs models it in full.                                *)
(***************************************************************************)
EXTENDS Integers, FiniteSets

CONSTANTS
    Events,        \* the logs the contract may ever emit, one per blockHash and logIndex
    BlockOf,       \* the block number of each
    Transfers,     \* those whose name is EventName.TRANSFER
    Scans,         \* concurrent runs of scanEventLog
    LookupBlocks,  \* block numbers asked for through getEventLogByTrasaction
    HeadMayReorg,  \* whether the newest block may still be replaced
    StartBlock,    \* DEFAULT_START_BLOCK_NUMBER
    MaxBlockRange, \* maxBlockRange, 5000 in the code
    MaxBlock,      \* bound: the chain stops growing here
    MaxFaults      \* bound: number of errors and restarts

ASSUME ScanAssumption ==
    /\ BlockOf \in [Events -> Nat \ {0}]
    /\ Transfers \subseteq Events
    /\ LookupBlocks \subseteq Nat
    /\ HeadMayReorg \in BOOLEAN
    /\ StartBlock \in Nat
    /\ MaxBlockRange \in Nat \ {0}
    /\ MaxBlock \in Nat
    /\ MaxFaults \in Nat

VARIABLES
    \* the chain
    head,        \* its newest block number
    canon,       \* the events on it
    \* Redis
    watermark,   \* CACHE_LAST_SCAN_BLOCK_NUMBER, 0 when absent
    queue,       \* events with an insertEventLog job waiting
    refreshes,   \* transfers whose two addresses were given an updateBalance job
    \* MongoDB
    stored,      \* the event_logs collection
    failed,      \* events whose job failed: attempts is 1, Bull never runs it again
    \* the locals of each run
    pc, fromBlock, currentBlockNumber, result,
    floor,       \* ghost: where the run began if it could not use the watermark
    \* bookkeeping
    base,        \* ghost: the highest floor of a run that completed
    faults       \* errors and restarts so far

chainVars == <<head, canon>>
redisVars == <<watermark, queue, refreshes>>
mongoVars == <<stored, failed>>
scanVars  == <<pc, fromBlock, currentBlockNumber, result, floor>>
vars == <<chainVars, redisVars, mongoVars, scanVars, base, faults>>

\* The events the backend has taken charge of.
Handed == queue \cup stored \cup failed

MaxOf(a, b) == IF a < b THEN b ELSE a

EventsBetween(lo, hi) == {e \in canon : lo <= BlockOf[e] /\ BlockOf[e] <= hi}

TypeOK ==
    /\ head \in Nat
    /\ canon \in SUBSET Events
    /\ watermark \in Nat
    /\ queue \in SUBSET Events
    /\ refreshes \in SUBSET Transfers
    /\ stored \in SUBSET Events
    /\ failed \in SUBSET Events
    /\ pc \in [Scans -> {"idle", "latest", "height", "fetch", "inserts", "save"}]
    /\ fromBlock \in [Scans -> Nat]
    /\ currentBlockNumber \in [Scans -> Nat]
    /\ result \in [Scans -> SUBSET Events]
    /\ floor \in [Scans -> Nat]
    /\ base \in Nat
    /\ faults \in 0..MaxFaults

Init ==
    /\ head = 0
    /\ canon = {}
    /\ watermark = 0
    /\ queue = {}
    /\ refreshes = {}
    /\ stored = {}
    /\ failed = {}
    /\ pc = [s \in Scans |-> "idle"]
    /\ fromBlock = [s \in Scans |-> 0]
    /\ currentBlockNumber = [s \in Scans |-> 0]
    /\ result = [s \in Scans |-> {}]
    /\ floor = [s \in Scans |-> 0]
    /\ base = 0
    /\ faults = 0

-------------------------------------------------------------------------------
(* The chain.  Only the newest block may be replaced; the code re-reads the *)
(* block it stopped at and so is built for a depth of one.                  *)

Mine ==
    /\ head < MaxBlock
    /\ head' = head + 1
    /\ \E new \in SUBSET {e \in Events : BlockOf[e] = head + 1} :
          canon' = canon \cup new
    /\ UNCHANGED <<redisVars, mongoVars, scanVars, base, faults>>

Reorg ==
    /\ HeadMayReorg
    /\ \E new \in SUBSET {e \in Events : BlockOf[e] = head} :
          canon' = {e \in canon : BlockOf[e] # head} \cup new
    /\ UNCHANGED <<head, redisVars, mongoVars, scanVars, base, faults>>

-------------------------------------------------------------------------------
(* scanEventLog(), one action per await.                                    *)

\* An error costs one of the MaxFaults.
Fault ==
    /\ faults < MaxFaults
    /\ faults' = faults + 1

\* The runs in S return or are lost, and their locals with them.
End(S) ==
    /\ pc' = [s \in Scans |-> IF s \in S THEN "idle" ELSE pc[s]]
    /\ fromBlock' = [s \in Scans |-> IF s \in S THEN 0 ELSE fromBlock[s]]
    /\ currentBlockNumber' = [s \in Scans |-> IF s \in S THEN 0 ELSE currentBlockNumber[s]]
    /\ result' = [s \in Scans |-> IF s \in S THEN {} ELSE result[s]]
    /\ floor' = [s \in Scans |-> IF s \in S THEN 0 ELSE floor[s]]

\* Mutant: the block the last run stopped at is not read again.
ReadCache_NextBlock(s) ==
    /\ pc[s] = "idle"
    /\ watermark > 0
    /\ pc' = [pc EXCEPT ![s] = "height"]
    /\ fromBlock' = [fromBlock EXCEPT ![s] = watermark + 1]
    /\ UNCHANGED <<currentBlockNumber, result, floor, chainVars, redisVars,
                   mongoVars, base, faults>>

\* cacheManager.get: a positive watermark is where this run begins.
ReadCache(s) ==
    /\ pc[s] = "idle"
    /\ watermark > 0
    /\ pc' = [pc EXCEPT ![s] = "height"]
    /\ fromBlock' = [fromBlock EXCEPT ![s] = watermark]
    /\ UNCHANGED <<currentBlockNumber, result, floor, chainVars, redisVars,
                   mongoVars, base, faults>>

\* No watermark, or the cache failed (caught): ask the collection instead.
MissCache(s) ==
    /\ pc[s] = "idle"
    /\ \/ watermark = 0 /\ UNCHANGED faults
       \/ watermark > 0 /\ Fault
    /\ pc' = [pc EXCEPT ![s] = "latest"]
    /\ UNCHANGED <<fromBlock, currentBlockNumber, result, floor, chainVars,
                   redisVars, mongoVars, base>>

\* findOne().sort({blockNumber: -1}): the block after the newest stored event.
IsFallback(b) ==
    \/ stored = {} /\ b = StartBlock
    \/ \E e \in stored :
          /\ \A f \in stored : BlockOf[f] <= BlockOf[e]
          /\ b = BlockOf[e] + 1

ReadLatest(s) ==
    /\ pc[s] = "latest"
    /\ \E b \in {StartBlock} \cup {BlockOf[e] + 1 : e \in stored} :
          /\ IsFallback(b)
          /\ fromBlock' = [fromBlock EXCEPT ![s] = b]
          /\ floor' = [floor EXCEPT ![s] = b]
    /\ pc' = [pc EXCEPT ![s] = "height"]
    /\ UNCHANGED <<currentBlockNumber, result, chainVars, redisVars, mongoVars,
                   base, faults>>

\* contractService.getBlockNumber(), read once for the whole run.
ReadHeight(s) ==
    /\ pc[s] = "height"
    /\ currentBlockNumber' = [currentBlockNumber EXCEPT ![s] = head]
    /\ pc' = [pc EXCEPT ![s] = "fetch"]
    /\ UNCHANGED <<fromBlock, result, floor, chainVars, redisVars, mongoVars,
                   base, faults>>

\* One getPastEvents: both ends are inclusive, and the next range begins
\* where this one ended.
ToBlock(s) ==
    IF fromBlock[s] + MaxBlockRange > currentBlockNumber[s]
      THEN currentBlockNumber[s]
      ELSE fromBlock[s] + MaxBlockRange

\* Mutant: the upper end of the range is taken to be exclusive.
FetchRange_HalfOpen(s) ==
    /\ pc[s] = "fetch"
    /\ fromBlock[s] <= currentBlockNumber[s]
    /\ result' = [result EXCEPT ![s] = @ \cup EventsBetween(fromBlock[s], ToBlock(s) - 1)]
    /\ fromBlock' = [fromBlock EXCEPT ![s] = @ + MaxBlockRange]
    /\ UNCHANGED <<pc, currentBlockNumber, floor, chainVars, redisVars,
                   mongoVars, base, faults>>

\* Mutant: the loop does not move on to the next range.
FetchRange_Stuck(s) ==
    /\ pc[s] = "fetch"
    /\ fromBlock[s] <= currentBlockNumber[s]
    /\ result' = [result EXCEPT ![s] = @ \cup EventsBetween(fromBlock[s], ToBlock(s))]
    /\ UNCHANGED <<pc, fromBlock, currentBlockNumber, floor, chainVars, redisVars,
                   mongoVars, base, faults>>

FetchRange(s) ==
    /\ pc[s] = "fetch"
    /\ fromBlock[s] <= currentBlockNumber[s]
    /\ result' = [result EXCEPT ![s] = @ \cup EventsBetween(fromBlock[s], ToBlock(s))]
    /\ fromBlock' = [fromBlock EXCEPT ![s] = @ + MaxBlockRange]
    /\ UNCHANGED <<pc, currentBlockNumber, floor, chainVars, redisVars,
                   mongoVars, base, faults>>

\* Mutant: the addresses of every event are refreshed, not those of transfers.
QueueBalances_AnyEvent(s) ==
    /\ pc[s] = "fetch"
    /\ fromBlock[s] > currentBlockNumber[s]
    /\ refreshes' = refreshes \cup result[s]
    /\ pc' = [pc EXCEPT ![s] = "inserts"]
    /\ UNCHANGED <<fromBlock, currentBlockNumber, result, floor, watermark,
                   queue, chainVars, mongoVars, base, faults>>

\* Mutant: an error of this addBulk is swallowed and the run goes on.
QueueBalances_Swallow(s) ==
    /\ pc[s] = "fetch"
    /\ fromBlock[s] > currentBlockNumber[s]
    /\ \/ refreshes' = refreshes \cup (result[s] \cap Transfers) /\ UNCHANGED faults
       \/ UNCHANGED refreshes /\ Fault
    /\ pc' = [pc EXCEPT ![s] = "inserts"]
    /\ UNCHANGED <<fromBlock, currentBlockNumber, result, floor, watermark,
                   queue, chainVars, mongoVars, base>>

\* addBulk of one updateBalance per address a fetched Transfer names.
QueueBalances(s) ==
    /\ pc[s] = "fetch"
    /\ fromBlock[s] > currentBlockNumber[s]
    /\ refreshes' = refreshes \cup (result[s] \cap Transfers)
    /\ pc' = [pc EXCEPT ![s] = "inserts"]
    /\ UNCHANGED <<fromBlock, currentBlockNumber, result, floor, watermark,
                   queue, chainVars, mongoVars, base, faults>>

\* addBulk of one insertEventLog per event: all of them or, on an error, none.
QueueInserts(s) ==
    /\ pc[s] = "inserts"
    /\ queue' = queue \cup result[s]
    /\ pc' = [pc EXCEPT ![s] = "save"]
    /\ UNCHANGED <<fromBlock, currentBlockNumber, result, floor, watermark,
                   refreshes, chainVars, mongoVars, base, faults>>

\* cacheManager.set, without looking at what the watermark is by now.
SaveWatermark(s) ==
    /\ pc[s] = "save"
    /\ watermark' = currentBlockNumber[s]
    /\ base' = MaxOf(base, floor[s])
    /\ End({s})
    /\ UNCHANGED <<queue, refreshes, chainVars, mongoVars, faults>>

\* Any await of the run throws: logged, and nothing more of it is done.
Abort(s) ==
    /\ pc[s] # "idle"
    /\ Fault
    /\ End({s})
    /\ UNCHANGED <<chainVars, redisVars, mongoVars, base>>

\* The process dies and is started again: every run is gone.
Restart ==
    /\ \E s \in Scans : pc[s] # "idle"
    /\ Fault
    /\ End(Scans)
    /\ UNCHANGED <<chainVars, redisVars, mongoVars, base>>

-------------------------------------------------------------------------------
(* getEventLogByTrasaction(): the events of one block, queued by two         *)
(* addBulk calls nobody awaits.                                              *)

ByTransaction(b) ==
    LET found == EventsBetween(b, b)
    IN  /\ found # {}
        /\ refreshes' = refreshes \cup (found \cap Transfers)
        /\ queue' = queue \cup found
        /\ UNCHANGED <<watermark, chainVars, mongoVars, scanVars, base, faults>>

\* One of the two calls fails: its rejection is unhandled, and Node ends the
\* process with every run in it.
ByTransactionCrash(b) ==
    LET found == EventsBetween(b, b)
    IN  /\ found # {}
        /\ Fault
        /\ \/ refreshes' = refreshes \cup (found \cap Transfers) /\ UNCHANGED queue
           \/ queue' = queue \cup found /\ UNCHANGED refreshes
        /\ End(Scans)
        /\ UNCHANGED <<watermark, chainVars, mongoVars, base>>

-------------------------------------------------------------------------------
(* The queue consumer, reduced to the collection it writes.                 *)

InsertJob(e) ==
    /\ e \in queue
    /\ queue' = queue \ {e}
    /\ stored' = stored \cup {e}
    /\ UNCHANGED <<watermark, refreshes, failed, chainVars, scanVars, base, faults>>

\* Mutant: a failed job leaves no trace (removeOnFail).
JobFails_Removed(e) ==
    /\ e \in queue
    /\ Fault
    /\ queue' = queue \ {e}
    /\ UNCHANGED <<watermark, refreshes, mongoVars, chainVars, scanVars, base>>

JobFails(e) ==
    /\ e \in queue
    /\ Fault
    /\ queue' = queue \ {e}
    /\ failed' = failed \cup {e}
    /\ UNCHANGED <<watermark, refreshes, stored, chainVars, scanVars, base>>

-------------------------------------------------------------------------------
ScanStep(s) ==
    \/ ReadCache(s) \/ MissCache(s) \/ ReadLatest(s) \/ ReadHeight(s)
    \/ FetchRange(s) \/ QueueBalances(s) \/ QueueInserts(s) \/ SaveWatermark(s)

Next ==
    \/ Mine
    \/ Reorg
    \/ \E s \in Scans : ScanStep(s) \/ Abort(s)
    \/ Restart
    \/ \E b \in LookupBlocks : ByTransaction(b) \/ ByTransactionCrash(b)
    \/ \E e \in Events : InsertJob(e) \/ JobFails(e)

Spec == Init /\ [][Next]_vars

\* The cron job keeps firing and every await settles; the queue is served.
Fairness ==
    /\ \A s \in Scans : WF_vars(ScanStep(s))
    /\ \A e \in Events : WF_vars(InsertJob(e))

FairSpec == Spec /\ Fairness

-------------------------------------------------------------------------------
(* Properties.                                                              *)

\* Whatever the interleaving of overlapping runs, errors, restarts, lookups
\* and a reorganised newest block: every event behind the watermark, and not
\* below a floor the service fell back to, is queued, stored or failed.
NoGapAboveBase ==
    \A e \in canon : base <= BlockOf[e] /\ BlockOf[e] < watermark => e \in Handed

\* While events enter only through the scan and blocks are final, falling
\* back to the newest stored event loses nothing either: every event from
\* DEFAULT_START_BLOCK_NUMBER up to and including the watermark is in hand.
NoGap ==
    \A e \in canon : StartBlock <= BlockOf[e] /\ BlockOf[e] <= watermark => e \in Handed

\* While events enter only through the scan, a Transfer is never in the
\* queue or the collection unless its two balances were asked for first.
RefreshBeforeInsert ==
    \A e \in Transfers : e \in Handed => e \in refreshes

\* Once the chain rests, every event on it is stored, or its job failed;
\* aborted runs, restarts and a lost watermark only delay that.
EventuallyIndexed ==
    <>[](\A e \in canon : StartBlock <= BlockOf[e] => e \in stored \cup failed)

\* The scan keeps the indexer's promise: the watermark is the mark, an event
\* in hand is taken, and only a completed fallback raises the floor.
Index == INSTANCE ChainIndex WITH
    Items <- Events, Pos <- BlockOf,
    ledger <- canon, taken <- Handed, mark <- watermark, floor <- base

ImplementsChainIndex == Index!Spec
===============================================================================

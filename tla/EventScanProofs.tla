---------------------------- MODULE EventScanProofs ----------------------------
(***************************************************************************)
(* Proofs about EventScan, for every set of events and runs and every      *)
(* value of the bounds: its type invariant, that no event above the floor  *)
(* is left behind the watermark, and that it implements ChainIndex.        *)
(***************************************************************************)
EXTENDS EventScan, TLAPS

\* A run that has chosen its first block, and one that has read the height too.
Begun(s) == pc[s] \in {"height", "fetch", "inserts", "save"}
Read(s)  == pc[s] \in {"fetch", "inserts", "save"}

\* Nothing of the backend's is ahead of the chain.
BehindHead ==
    /\ watermark <= head
    /\ \A e \in canon : BlockOf[e] <= head
    /\ \A s \in Scans : Read(s) => currentBlockNumber[s] <= head

\* A run begins behind the head, or at the floor it fell back to.
BeginsKnown ==
    \A s \in Scans :
        pc[s] = "height" => fromBlock[s] <= head \/ floor[s] = fromBlock[s]

\* The run only leaves the loop once it is past the height it read.
LoopDone ==
    \A s \in Scans :
        pc[s] \in {"inserts", "save"} => fromBlock[s] > currentBlockNumber[s]

\* What lies between a run's floor and the block it has come to is in hand
\* or among what it has fetched; the height it read is still open, since
\* that block may be replaced.
Covered(s) ==
    \A e \in canon :
        /\ base <= BlockOf[e]
        /\ floor[s] <= BlockOf[e]
        /\ BlockOf[e] < fromBlock[s]
        /\ Read(s) => BlockOf[e] < currentBlockNumber[s]
        => \/ e \in Handed
           \/ pc[s] \in {"fetch", "inserts"} /\ e \in result[s]

IInv ==
    /\ TypeOK
    /\ BehindHead
    /\ BeginsKnown
    /\ LoopDone
    /\ NoGapAboveBase
    /\ \A s \in Scans : Begun(s) => Covered(s)

-------------------------------------------------------------------------------
(* Type correctness.                                                        *)

LEMMA InitType == Init => TypeOK
  BY ScanAssumption DEF Init, TypeOK, ScanAssumption

\* Ending runs resets their locals to values of the right type.
LEMMA EndType ==
  ASSUME TypeOK, NEW S \in SUBSET Scans, End(S)
  PROVE  /\ pc' \in [Scans -> {"idle", "latest", "height", "fetch", "inserts", "save"}]
         /\ fromBlock' \in [Scans -> Nat]
         /\ currentBlockNumber' \in [Scans -> Nat]
         /\ result' \in [Scans -> SUBSET Events]
         /\ floor' \in [Scans -> Nat]
  BY DEF TypeOK, End

LEMMA NextType == TypeOK /\ [Next]_vars => TypeOK'
<1> SUFFICES ASSUME TypeOK, [Next]_vars PROVE TypeOK'
  OBVIOUS
<1> USE ScanAssumption DEF ScanAssumption, TypeOK, chainVars, redisVars, mongoVars, scanVars
<1>1. CASE Mine
  BY <1>1 DEF Mine
<1>2. CASE Reorg
  BY <1>2 DEF Reorg
<1>3. ASSUME NEW s \in Scans, ScanStep(s) PROVE TypeOK'
  <2>1. CASE ReadCache(s)
    BY <2>1 DEF ReadCache
  <2>2. CASE MissCache(s)
    BY <2>2 DEF MissCache, Fault
  <2>3. CASE ReadLatest(s)
    <3>1. PICK b \in {StartBlock} \cup {BlockOf[e] + 1 : e \in stored} :
             /\ fromBlock' = [fromBlock EXCEPT ![s] = b]
             /\ floor' = [floor EXCEPT ![s] = b]
      BY <2>3 DEF ReadLatest
    <3>2. b \in Nat
      BY <3>1
    <3> QED
      BY <2>3, <3>1, <3>2 DEF ReadLatest
  <2>4. CASE ReadHeight(s)
    BY <2>4 DEF ReadHeight
  <2>5. CASE FetchRange(s)
    BY <2>5 DEF FetchRange, EventsBetween
  <2>6. CASE QueueBalances(s)
    BY <2>6 DEF QueueBalances
  <2>7. CASE QueueInserts(s)
    BY <2>7 DEF QueueInserts
  <2>8. CASE SaveWatermark(s)
    <3>1. End({s})
      BY <2>8 DEF SaveWatermark
    <3> QED
      BY <2>8, <3>1, EndType DEF SaveWatermark, MaxOf
  <2> QED
    BY <1>3, <2>1, <2>2, <2>3, <2>4, <2>5, <2>6, <2>7, <2>8 DEF ScanStep
<1>4. ASSUME NEW s \in Scans, Abort(s) PROVE TypeOK'
  BY <1>4, EndType DEF Abort, Fault
<1>5. CASE Restart
  BY <1>5, EndType DEF Restart, Fault
<1>6. ASSUME NEW b \in LookupBlocks, ByTransaction(b) PROVE TypeOK'
  BY <1>6 DEF ByTransaction, EventsBetween
<1>7. ASSUME NEW b \in LookupBlocks, ByTransactionCrash(b) PROVE TypeOK'
  BY <1>7, EndType DEF ByTransactionCrash, EventsBetween, Fault
<1>8. ASSUME NEW e \in Events, InsertJob(e) PROVE TypeOK'
  BY <1>8 DEF InsertJob
<1>9. ASSUME NEW e \in Events, JobFails(e) PROVE TypeOK'
  BY <1>9 DEF JobFails, Fault
<1>10. CASE UNCHANGED vars
  BY <1>10 DEF vars
<1> QED
  BY <1>1, <1>2, <1>3, <1>4, <1>5, <1>6, <1>7, <1>8, <1>9, <1>10 DEF Next

\* Every variable keeps its type, whatever the sets of events and runs and
\* the bounds.
THEOREM TypeCorrect == Spec => []TypeOK
  BY InitType, NextType, PTL DEF Spec

-------------------------------------------------------------------------------
(* Nothing above the floor is left behind.  The invariant has to speak of   *)
(* the runs in flight: what a run will have covered once it saves its       *)
(* height, and that both stay behind the head, which may still be replaced. *)

LEMMA InitInv == Init => IInv
<1> SUFFICES ASSUME Init PROVE IInv
  OBVIOUS
<1>1. TypeOK
  BY InitType
<1> QED
  BY <1>1 DEF Init, IInv, BehindHead, BeginsKnown, LoopDone, NoGapAboveBase,
              Begun, Read

\* A step that ends some runs, and at most adds to what is in hand and to
\* the base, keeps what the invariant says of the other runs.
LEMMA EndKeepsRuns ==
  ASSUME IInv, TypeOK', NEW S \in SUBSET Scans, End(S),
         UNCHANGED <<head, canon>>, watermark' <= head,
         Handed \subseteq Handed', base <= base'
  PROVE  BehindHead' /\ BeginsKnown' /\ LoopDone' /\ \A s \in Scans : (Begun(s) => Covered(s))'
<1> USE ScanAssumption DEF ScanAssumption, IInv, TypeOK
<1>1. BehindHead'
  BY DEF End, BehindHead, Read
<1>2. BeginsKnown'
  BY DEF End, BeginsKnown
<1>3. LoopDone'
  BY DEF End, LoopDone
<1>4. ASSUME NEW s \in Scans, Begun(s)' PROVE Covered(s)'
  <2>1. s \notin S /\ pc'[s] = pc[s]
    BY <1>4 DEF End, Begun
  <2>2. UNCHANGED <<fromBlock[s], currentBlockNumber[s], result[s], floor[s]>>
    BY <2>1 DEF End
  <2>3. Covered(s)
    BY <1>4, <2>1 DEF Begun
  <2>4. ASSUME NEW e \in canon, base' <= BlockOf[e] PROVE base <= BlockOf[e]
    BY <2>4
  <2> QED
    BY <2>1, <2>2, <2>3, <2>4 DEF Covered, Read
<1> QED
  BY <1>1, <1>2, <1>3, <1>4

\* A step that leaves chain, watermark and runs alone, and at most adds to
\* what is in hand, keeps all of it.
LEMMA HandingKeepsAll ==
  ASSUME IInv, TypeOK', UNCHANGED <<chainVars, watermark, scanVars, base>>,
         Handed \subseteq Handed'
  PROVE  IInv'
<1> USE DEF IInv, chainVars, scanVars
<1>1. BehindHead' /\ BeginsKnown' /\ LoopDone'
  BY DEF BehindHead, BeginsKnown, LoopDone, Read
<1>2. NoGapAboveBase'
  BY DEF NoGapAboveBase
<1>3. \A s \in Scans : (Begun(s) => Covered(s))'
  BY DEF Covered, Begun, Read
<1> QED
  BY <1>1, <1>2, <1>3

LEMMA MineInv == ASSUME IInv, TypeOK', Mine PROVE IInv'
<1> USE ScanAssumption DEF ScanAssumption, IInv, TypeOK, redisVars, mongoVars, scanVars
<1>1. head' = head + 1 /\ canon \subseteq canon'
  BY DEF Mine
<1>2. \A e \in canon' : e \in canon \/ BlockOf[e] = head + 1
  BY DEF Mine
<1>3. UNCHANGED <<watermark, queue, stored, failed, pc, fromBlock, currentBlockNumber,
                  result, floor, base>>
  BY DEF Mine
<1>4. BehindHead'
  <2>1. \A e \in canon' : BlockOf[e] <= head'
    BY <1>1, <1>2 DEF BehindHead
  <2> QED
    BY <1>1, <1>3, <2>1 DEF BehindHead, Read
<1>5. BeginsKnown' /\ LoopDone'
  BY <1>1, <1>3 DEF BeginsKnown, LoopDone
<1>6. NoGapAboveBase'
  BY <1>1, <1>2, <1>3 DEF BehindHead, NoGapAboveBase, Handed
<1>7. ASSUME NEW s \in Scans, Begun(s)' PROVE Covered(s)'
  <2>1. Begun(s) /\ Covered(s)
    BY <1>3, <1>7 DEF Begun
  <2> SUFFICES ASSUME NEW e \in canon', base <= BlockOf[e], floor[s] <= BlockOf[e],
                      BlockOf[e] < fromBlock[s],
                      Read(s) => BlockOf[e] < currentBlockNumber[s]
               PROVE  e \in Handed \/ (pc[s] \in {"fetch", "inserts"} /\ e \in result[s])
    BY <1>3 DEF Covered, Read, Handed
  <2>2. BlockOf[e] <= head
    BY <2>1 DEF BehindHead, BeginsKnown, Begun, Read
  <2>3. e \in canon
    BY <1>2, <2>2
  <2> QED
    BY <2>1, <2>3 DEF Covered
<1> QED
  BY <1>4, <1>5, <1>6, <1>7

LEMMA ReorgInv == ASSUME IInv, TypeOK', Reorg PROVE IInv'
<1> USE ScanAssumption DEF ScanAssumption, IInv, TypeOK, redisVars, mongoVars, scanVars
<1>1. \A e \in canon' : (e \in canon /\ BlockOf[e] # head) \/ BlockOf[e] = head
  BY DEF Reorg
<1>2. UNCHANGED <<head, watermark, queue, stored, failed, pc, fromBlock,
                  currentBlockNumber, result, floor, base>>
  BY DEF Reorg
<1>3. BehindHead'
  BY <1>1, <1>2 DEF BehindHead, Read
<1>4. BeginsKnown' /\ LoopDone'
  BY <1>2 DEF BeginsKnown, LoopDone
<1>5. NoGapAboveBase'
  BY <1>1, <1>2 DEF BehindHead, NoGapAboveBase, Handed
<1>6. ASSUME NEW s \in Scans, Begun(s)' PROVE Covered(s)'
  <2>1. Begun(s) /\ Covered(s)
    BY <1>2, <1>6 DEF Begun
  <2> SUFFICES ASSUME NEW e \in canon', base <= BlockOf[e], floor[s] <= BlockOf[e],
                      BlockOf[e] < fromBlock[s],
                      Read(s) => BlockOf[e] < currentBlockNumber[s]
               PROVE  e \in Handed \/ (pc[s] \in {"fetch", "inserts"} /\ e \in result[s])
    BY <1>2 DEF Covered, Read, Handed
  <2>2. BlockOf[e] < head
    BY <2>1, <1>1 DEF BehindHead, BeginsKnown, Begun, Read
  <2>3. e \in canon
    BY <1>1, <2>2
  <2> QED
    BY <2>1, <2>3 DEF Covered
<1> QED
  BY <1>3, <1>4, <1>5, <1>6

\* The steps of one run that do not end it.  The other runs keep their
\* locals, and with them what the invariant says of them.
LEMMA StepKeepsOthers ==
  ASSUME IInv, TypeOK', NEW s \in Scans,
         UNCHANGED <<head, canon, watermark, base>>, Handed \subseteq Handed',
         \A r \in Scans \ {s} :
            UNCHANGED <<pc[r], fromBlock[r], currentBlockNumber[r], result[r], floor[r]>>,
         Read(s)' => currentBlockNumber'[s] <= head,
         pc'[s] = "height" => fromBlock'[s] <= head \/ floor'[s] = fromBlock'[s],
         pc'[s] \in {"inserts", "save"} => fromBlock'[s] > currentBlockNumber'[s],
         (Begun(s) => Covered(s))'
  PROVE  IInv'
<1> USE DEF IInv
<1>1. BehindHead'
  BY DEF BehindHead, Read
<1>2. BeginsKnown'
  BY DEF BeginsKnown
<1>3. LoopDone'
  BY DEF LoopDone
<1>4. NoGapAboveBase'
  BY DEF NoGapAboveBase
<1>5. ASSUME NEW r \in Scans PROVE (Begun(r) => Covered(r))'
  <2>1. CASE r = s
    BY <2>1
  <2>2. CASE r # s
    BY <2>2 DEF Begun, Covered, Read
  <2> QED
    BY <2>1, <2>2
<1> QED
  BY <1>1, <1>2, <1>3, <1>4, <1>5

LEMMA ScanStepInv ==
  ASSUME IInv, TypeOK', NEW s \in Scans, ScanStep(s)
  PROVE  IInv'
<1> USE ScanAssumption DEF ScanAssumption, TypeOK, chainVars, redisVars, mongoVars, scanVars
<1> TypeOK
  BY DEF IInv
<1>1. CASE ReadCache(s)
  <2> USE <1>1 DEF ReadCache
  <2>1. pc'[s] = "height" /\ fromBlock'[s] = watermark /\ fromBlock'[s] <= head
    BY DEF IInv, BehindHead
  <2>2. Covered(s)'
    BY <2>1 DEF Covered, IInv, NoGapAboveBase, Handed
  <2> QED
    BY <2>1, <2>2, StepKeepsOthers DEF Handed, Read, Begun
<1>2. CASE MissCache(s)
  <2> USE <1>2 DEF MissCache
  <2>1. pc'[s] = "latest"
    OBVIOUS
  <2> QED
    BY <2>1, StepKeepsOthers DEF Handed, Read, Begun
<1>3. CASE ReadLatest(s)
  <2> USE <1>3 DEF ReadLatest
  <2>1. pc'[s] = "height" /\ floor'[s] = fromBlock'[s]
    OBVIOUS
  <2>2. Covered(s)'
    BY <2>1 DEF Covered
  <2> QED
    BY <2>1, <2>2, StepKeepsOthers DEF Handed, Read, Begun
<1>4. CASE ReadHeight(s)
  <2> USE <1>4 DEF ReadHeight
  <2>1. pc'[s] = "fetch" /\ currentBlockNumber'[s] = head
    OBVIOUS
  <2>2. Covered(s)
    BY DEF IInv, Begun
  <2>3. Covered(s)'
    BY <2>1, <2>2 DEF Covered, Handed, Read
  <2> QED
    BY <2>1, <2>3, StepKeepsOthers DEF Handed, Read, Begun
<1>5. CASE FetchRange(s)
  <2> USE <1>5 DEF FetchRange
  <2>1. Covered(s) /\ currentBlockNumber[s] <= head
    BY DEF IInv, Begun, BehindHead, Read
  <2>2. \A e \in canon :
           /\ fromBlock[s] <= BlockOf[e]
           /\ BlockOf[e] < fromBlock[s] + MaxBlockRange
           /\ BlockOf[e] < currentBlockNumber[s]
           => e \in result'[s]
    BY DEF EventsBetween, ToBlock
  <2>3. result[s] \subseteq result'[s] /\ fromBlock'[s] = fromBlock[s] + MaxBlockRange
    OBVIOUS
  <2>4. Covered(s)'
    BY <2>1, <2>2, <2>3 DEF Covered, Handed, Read
  <2> QED
    BY <2>1, <2>4, StepKeepsOthers DEF Handed, Read, Begun
<1>6. CASE QueueBalances(s)
  <2> USE <1>6 DEF QueueBalances
  <2>1. pc'[s] = "inserts" /\ fromBlock'[s] > currentBlockNumber'[s]
    OBVIOUS
  <2>2. Covered(s) /\ currentBlockNumber[s] <= head
    BY DEF IInv, Begun, BehindHead, Read
  <2>3. Covered(s)'
    BY <2>1, <2>2 DEF Covered, Handed, Read
  <2> QED
    BY <2>1, <2>2, <2>3, StepKeepsOthers DEF Handed, Read, Begun
<1>7. CASE QueueInserts(s)
  <2> USE <1>7 DEF QueueInserts
  <2>1. pc'[s] = "save" /\ fromBlock'[s] > currentBlockNumber'[s]
    BY DEF IInv, LoopDone
  <2>2. Covered(s) /\ currentBlockNumber[s] <= head
    BY DEF IInv, Begun, BehindHead, Read
  <2>3. Covered(s)'
    BY <2>1, <2>2 DEF Covered, Handed, Read
  <2> QED
    BY <2>1, <2>2, <2>3, StepKeepsOthers DEF Handed, Read, Begun
<1>8. CASE SaveWatermark(s)
  <2> USE <1>8 DEF SaveWatermark
  <2>1. /\ Covered(s)
        /\ currentBlockNumber[s] <= head
        /\ fromBlock[s] > currentBlockNumber[s]
    BY DEF IInv, Begun, BehindHead, LoopDone, Read
  <2>2. base <= base' /\ floor[s] <= base'
    BY DEF MaxOf
  <2>3. End({s}) /\ {s} \in SUBSET Scans
    OBVIOUS
  <2>4. BehindHead' /\ BeginsKnown' /\ LoopDone' /\ \A r \in Scans : (Begun(r) => Covered(r))'
    BY <2>1, <2>2, <2>3, EndKeepsRuns DEF Handed
  <2>5. NoGapAboveBase'
    BY <2>1, <2>2 DEF NoGapAboveBase, Covered, Handed, Read
  <2> QED
    BY <2>4, <2>5 DEF IInv
<1> QED
  BY <1>1, <1>2, <1>3, <1>4, <1>5, <1>6, <1>7, <1>8 DEF ScanStep

LEMMA NextInv == IInv /\ [Next]_vars => IInv'
<1> SUFFICES ASSUME IInv, [Next]_vars PROVE IInv'
  OBVIOUS
<1> USE DEF chainVars, redisVars, mongoVars, scanVars
<1>0. TypeOK /\ TypeOK'
  BY NextType DEF IInv
<1>1. CASE Mine
  BY <1>0, <1>1, MineInv
<1>2. CASE Reorg
  BY <1>0, <1>2, ReorgInv
<1>3. ASSUME NEW s \in Scans, ScanStep(s) PROVE IInv'
  BY <1>0, <1>3, ScanStepInv
<1>4. ASSUME NEW S \in SUBSET Scans, End(S), Handed \subseteq Handed',
             UNCHANGED <<head, canon, watermark, base>>
      PROVE IInv'
  <2>1. watermark' <= head /\ base <= base'
    BY <1>0, <1>4 DEF IInv, BehindHead, TypeOK
  <2>2. BehindHead' /\ BeginsKnown' /\ LoopDone' /\ \A r \in Scans : (Begun(r) => Covered(r))'
    BY <1>0, <1>4, <2>1, EndKeepsRuns
  <2>3. NoGapAboveBase'
    BY <1>4 DEF IInv, NoGapAboveBase
  <2> QED
    BY <1>0, <2>2, <2>3 DEF IInv
<1>5. ASSUME NEW s \in Scans, Abort(s) PROVE IInv'
  BY <1>4, <1>5 DEF Abort, Handed
<1>6. CASE Restart
  BY <1>4, <1>6 DEF Restart, Handed
<1>7. ASSUME NEW b \in LookupBlocks, ByTransaction(b) PROVE IInv'
  BY <1>0, <1>7, HandingKeepsAll DEF ByTransaction, Handed
<1>8. ASSUME NEW b \in LookupBlocks, ByTransactionCrash(b) PROVE IInv'
  BY <1>4, <1>8 DEF ByTransactionCrash, Handed
<1>9. ASSUME NEW e \in Events, InsertJob(e) PROVE IInv'
  BY <1>0, <1>9, HandingKeepsAll DEF InsertJob, Handed
<1>10. ASSUME NEW e \in Events, JobFails(e) PROVE IInv'
  BY <1>0, <1>10, HandingKeepsAll DEF JobFails, Handed
<1>11. CASE UNCHANGED vars
  BY <1>0, <1>11, HandingKeepsAll DEF vars, Handed
<1> QED
  BY <1>1, <1>2, <1>3, <1>5, <1>6, <1>7, <1>8, <1>9, <1>10, <1>11 DEF Next

\* For any chain, any number of overlapping runs, any block range and any
\* number of errors, restarts and lookups: no event between the floor and
\* the watermark is missing from queue, collection and failed jobs.
THEOREM NothingLeftBehind == Spec => []NoGapAboveBase
<1>1. IInv => NoGapAboveBase
  BY DEF IInv
<1> QED
  BY <1>1, InitInv, NextInv, PTL DEF Spec

-------------------------------------------------------------------------------
(* The refinement: every step of the scan is a step of ChainIndex.          *)

LEMMA ScanStepImplements ==
  ASSUME IInv, IInv', NEW s \in Scans, ScanStep(s)
  PROVE  Index!Next \/ UNCHANGED Index!vars
<1> USE DEF chainVars, redisVars, mongoVars, scanVars, Handed
<1>1. CASE SaveWatermark(s)
  <2>1. watermark' \in Int /\ base' \in Int /\ base <= base'
    BY <1>1, ScanAssumption DEF IInv, TypeOK, SaveWatermark, MaxOf, ScanAssumption
  <2>2. Index!Complete'
    BY DEF IInv, NoGapAboveBase, Index!Complete
  <2>3. Index!Move
    BY <1>1, <2>1, <2>2 DEF SaveWatermark, Index!Move
  <2> QED
    BY <2>3 DEF Index!Next
<1>2. CASE QueueInserts(s)
  <2>1. Index!Take
    BY <1>2 DEF QueueInserts, Index!Take, IInv, TypeOK
  <2> QED
    BY <2>1 DEF Index!Next
<1>3. CASE ReadCache(s) \/ MissCache(s) \/ ReadLatest(s) \/ ReadHeight(s)
           \/ FetchRange(s) \/ QueueBalances(s)
  BY <1>3 DEF ReadCache, MissCache, ReadLatest, ReadHeight, FetchRange,
              QueueBalances, Index!vars
<1> QED
  BY <1>1, <1>2, <1>3 DEF ScanStep

LEMMA NextImplements ==
  ASSUME IInv, IInv', [Next]_vars
  PROVE  Index!Next \/ UNCHANGED Index!vars
<1> USE DEF chainVars, redisVars, mongoVars, scanVars, Handed
<1>1. CASE Mine
  <2>1. \A i \in Events : BlockOf[i] < watermark => (i \in canon' <=> i \in canon)
    BY <1>1, ScanAssumption DEF Mine, IInv, TypeOK, BehindHead, ScanAssumption
  <2>2. canon' \in SUBSET Events
    BY DEF IInv, TypeOK
  <2>3. Index!Grow
    BY <1>1, <2>1, <2>2 DEF Mine, Index!Grow
  <2> QED
    BY <2>3 DEF Index!Next
<1>2. CASE Reorg
  <2>1. \A i \in Events : BlockOf[i] < watermark => (i \in canon' <=> i \in canon)
    BY <1>2, ScanAssumption DEF Reorg, IInv, TypeOK, BehindHead, ScanAssumption
  <2>2. canon' \in SUBSET Events
    BY DEF IInv, TypeOK
  <2>3. Index!Grow
    BY <1>2, <2>1, <2>2 DEF Reorg, Index!Grow
  <2> QED
    BY <2>3 DEF Index!Next
<1>3. ASSUME NEW s \in Scans, ScanStep(s) PROVE Index!Next \/ UNCHANGED Index!vars
  BY <1>3, ScanStepImplements
<1>4. CASE (\E s \in Scans : Abort(s)) \/ Restart \/ UNCHANGED vars
  BY <1>4 DEF Abort, Restart, vars, Index!vars
<1>5. ASSUME Handed \subseteq Handed', UNCHANGED <<chainVars, watermark, base>>
      PROVE  Index!Next
  <2>1. Index!Take
    BY <1>5 DEF Index!Take, IInv, TypeOK
  <2> QED
    BY <2>1 DEF Index!Next
<1>6. ASSUME NEW b \in LookupBlocks, ByTransaction(b) \/ ByTransactionCrash(b)
      PROVE  Index!Next
  BY <1>5, <1>6 DEF ByTransaction, ByTransactionCrash
<1>7. ASSUME NEW e \in Events, InsertJob(e) \/ JobFails(e)
      PROVE  Index!Next
  BY <1>5, <1>7 DEF InsertJob, JobFails
<1> QED
  BY <1>1, <1>2, <1>3, <1>4, <1>6, <1>7 DEF Next

\* The scan implements the abstract indexer, for every value of the
\* constants: the watermark never passes an event that is not in hand, what
\* is in hand stays so, and only a completed fallback raises the floor.
THEOREM ScanImplementsChainIndex == Spec => ImplementsChainIndex
<1>1. Init => Index!Init
  BY DEF Init, Index!Init, Handed
<1>2. IInv /\ IInv' /\ [Next]_vars => [Index!Next]_Index!vars
  BY NextImplements
<1> QED
  BY <1>1, <1>2, InitInv, NextInv, PTL DEF Spec, ImplementsChainIndex, Index!Spec
-------------------------------------------------------------------------------
(* Final blocks and no lookups: falling back to the newest stored event     *)
(* loses nothing.  That needs more than the runs in flight: whatever is in  *)
(* hand came with everything before it, so that the block after a stored    *)
(* event is as good a beginning as the watermark.                           *)

\* With an event in hand, so is every event from StartBlock up to its block.
Closed ==
    \A e \in Handed, f \in canon :
        StartBlock <= BlockOf[f] /\ BlockOf[f] <= BlockOf[e] => f \in Handed

\* What is in hand or fetched is on the chain, up to the height the run read.
OnChain ==
    /\ Handed \subseteq canon
    /\ \A s \in Scans : result[s] \subseteq canon
    /\ \A s \in Scans : Read(s) => \A e \in result[s] : BlockOf[e] <= currentBlockNumber[s]

\* No run begins beyond the next block, unless StartBlock itself is.
BeginsNear ==
    \A s \in Scans : pc[s] = "height" => fromBlock[s] <= head + 1 \/ fromBlock[s] = StartBlock

\* Between StartBlock and the block a run has come to, all is in hand or fetched.
Behind(s) ==
    \A e \in canon :
        /\ StartBlock <= BlockOf[e]
        /\ BlockOf[e] < fromBlock[s]
        /\ Read(s) => BlockOf[e] <= currentBlockNumber[s]
        => \/ e \in Handed
           \/ pc[s] \in {"fetch", "inserts"} /\ e \in result[s]

FinalInv ==
    /\ NoGap /\ Closed /\ OnChain /\ BeginsNear
    /\ \A s \in Scans : Begun(s) => Behind(s)

LEMMA InitFinal == Init => FinalInv
  BY DEF Init, FinalInv, NoGap, Closed, OnChain, BeginsNear, Begun, Read, Handed

\* A step of one run, or none, that moves neither chain, watermark nor hand.
LEMMA RunKeepsFinal ==
  ASSUME FinalInv, UNCHANGED <<head, canon, watermark>>, Handed' = Handed,
         NEW S \in SUBSET Scans,
         \A r \in Scans \ S :
            UNCHANGED <<pc[r], fromBlock[r], currentBlockNumber[r], result[r]>>,
         \A s \in S : /\ result'[s] \subseteq canon
                      /\ Read(s)' => \A e \in result'[s] : BlockOf[e] <= currentBlockNumber'[s]
                      /\ pc'[s] = "height" =>
                            fromBlock'[s] <= head + 1 \/ fromBlock'[s] = StartBlock
                      /\ (Begun(s) => Behind(s))'
  PROVE  FinalInv'
<1> USE DEF FinalInv
<1>1. NoGap' /\ Closed'
  BY DEF NoGap, Closed
<1>2. OnChain'
  BY DEF OnChain, Read
<1>3. BeginsNear'
  BY DEF BeginsNear
<1>4. ASSUME NEW r \in Scans \ S PROVE (Begun(r) => Behind(r))'
  BY <1>4 DEF Begun, Behind, Read
<1> QED
  BY <1>1, <1>2, <1>3, <1>4

LEMMA OneRunKeepsFinal ==
  ASSUME FinalInv, UNCHANGED <<head, canon, watermark>>, Handed' = Handed, NEW s \in Scans,
         \A r \in Scans \ {s} :
            UNCHANGED <<pc[r], fromBlock[r], currentBlockNumber[r], result[r]>>,
         result'[s] \subseteq canon,
         Read(s)' => \A e \in result'[s] : BlockOf[e] <= currentBlockNumber'[s],
         pc'[s] = "height" => fromBlock'[s] <= head + 1 \/ fromBlock'[s] = StartBlock,
         (Begun(s) => Behind(s))'
  PROVE  FinalInv'
<1>1. {s} \in SUBSET Scans
  OBVIOUS
<1> QED
  BY <1>1, RunKeepsFinal

LEMMA MineFinal == ASSUME IInv, FinalInv, Mine PROVE FinalInv'
<1> USE ScanAssumption DEF ScanAssumption, IInv, FinalInv, TypeOK, redisVars, mongoVars, scanVars
<1>1. /\ head' = head + 1 /\ canon \subseteq canon'
      /\ \A e \in canon' : e \in canon \/ BlockOf[e] = head + 1
      /\ UNCHANGED <<watermark, queue, stored, failed, pc, fromBlock, currentBlockNumber, result>>
  BY DEF Mine
<1>2. NoGap'
  BY <1>1 DEF NoGap, BehindHead, Handed
<1>3. Closed'
  <2>1. \A e \in Handed : e \in canon /\ BlockOf[e] <= head /\ BlockOf[e] \in Int
    BY DEF OnChain, BehindHead, Handed
  <2> QED
    BY <1>1, <2>1 DEF Closed, Handed
<1>4. OnChain'
  BY <1>1 DEF OnChain, Handed, Read
<1>5. BeginsNear'
  BY <1>1 DEF BeginsNear
<1>6. ASSUME NEW s \in Scans, Begun(s)' PROVE Behind(s)'
  <2>1. Begun(s) /\ Behind(s)
    BY <1>1, <1>6 DEF Begun
  <2> SUFFICES ASSUME NEW e \in canon', StartBlock <= BlockOf[e], BlockOf[e] < fromBlock[s],
                      Read(s) => BlockOf[e] <= currentBlockNumber[s]
               PROVE  e \in Handed \/ (pc[s] \in {"fetch", "inserts"} /\ e \in result[s])
    BY <1>1 DEF Behind, Read, Handed
  <2>2. BlockOf[e] <= head
    BY <2>1, <1>1 DEF BehindHead, BeginsNear, Begun, Read
  <2>3. e \in canon
    BY <1>1, <2>2
  <2> QED
    BY <2>1, <2>3 DEF Behind
<1> QED
  BY <1>2, <1>3, <1>4, <1>5, <1>6

LEMMA ScanStepFinal ==
  ASSUME IInv, FinalInv, NEW s \in Scans, ScanStep(s)
  PROVE  FinalInv'
<1> USE ScanAssumption DEF ScanAssumption, TypeOK, chainVars, redisVars, mongoVars, scanVars
<1> TypeOK /\ {s} \in SUBSET Scans
  BY DEF IInv
<1>1. CASE ReadCache(s)
  <2> USE <1>1 DEF ReadCache
  <2>1. pc'[s] = "height" /\ fromBlock'[s] = watermark /\ fromBlock'[s] <= head
    BY DEF IInv, BehindHead
  <2>2. Behind(s)'
    BY <2>1 DEF Behind, FinalInv, NoGap, Handed
  <2> QED
    BY <2>1, <2>2, OneRunKeepsFinal DEF Handed, Read, Begun, FinalInv, OnChain
<1>2. CASE MissCache(s)
  <2> USE <1>2 DEF MissCache
  <2>1. pc'[s] = "latest"
    OBVIOUS
  <2> QED
    BY <2>1, OneRunKeepsFinal DEF Handed, Read, Begun, FinalInv, OnChain
<1>3. CASE ReadLatest(s)
  <2> USE <1>3 DEF ReadLatest
  <2>1. PICK b \in {StartBlock} \cup {BlockOf[e] + 1 : e \in stored} :
           IsFallback(b) /\ fromBlock' = [fromBlock EXCEPT ![s] = b]
    OBVIOUS
  <2>2. pc'[s] = "height" /\ fromBlock'[s] = b
    BY <2>1
  <2>3. CASE b = StartBlock
    <3>1. Behind(s)'
      BY <2>2, <2>3 DEF Behind
    <3> QED
      BY <2>2, <2>3, <3>1, OneRunKeepsFinal DEF Handed, Read, Begun, FinalInv, OnChain
  <2>4. CASE b # StartBlock
    <3>1. PICK e \in stored : b = BlockOf[e] + 1
      BY <2>1, <2>4 DEF IsFallback
    <3>2. e \in Handed /\ e \in canon /\ b <= head + 1
      BY <3>1 DEF Handed, FinalInv, OnChain, IInv, BehindHead
    <3>3. Behind(s)'
      BY <2>2, <3>1, <3>2 DEF Behind, FinalInv, Closed, Handed
    <3> QED
      BY <2>2, <3>2, <3>3, OneRunKeepsFinal DEF Handed, Read, Begun, FinalInv, OnChain
  <2> QED
    BY <2>3, <2>4
<1>4. CASE ReadHeight(s)
  <2> USE <1>4 DEF ReadHeight
  <2>1. pc'[s] = "fetch" /\ currentBlockNumber'[s] = head
    OBVIOUS
  <2>2. Behind(s)
    BY DEF FinalInv, Begun
  <2>3. Behind(s)'
    BY <2>1, <2>2 DEF Behind, Handed, Read
  <2>4. result'[s] \subseteq canon /\ \A e \in result'[s] : BlockOf[e] <= head
    BY DEF FinalInv, OnChain, IInv, BehindHead
  <2> QED
    BY <2>1, <2>3, <2>4, OneRunKeepsFinal DEF Handed, Read, Begun
<1>5. CASE FetchRange(s)
  <2> USE <1>5 DEF FetchRange
  <2>1. Behind(s)
    BY DEF FinalInv, Begun
  <2>2. \A e \in canon :
           /\ fromBlock[s] <= BlockOf[e]
           /\ BlockOf[e] < fromBlock[s] + MaxBlockRange
           /\ BlockOf[e] <= currentBlockNumber[s]
           => e \in result'[s]
    BY DEF EventsBetween, ToBlock
  <2>3. result[s] \subseteq result'[s] /\ fromBlock'[s] = fromBlock[s] + MaxBlockRange
    OBVIOUS
  <2>4. Behind(s)'
    BY <2>1, <2>2, <2>3 DEF Behind, Handed, Read
  <2>5. /\ result'[s] \subseteq canon
        /\ \A e \in result'[s] : BlockOf[e] <= currentBlockNumber[s]
    BY DEF FinalInv, OnChain, Read, EventsBetween, ToBlock
  <2> QED
    BY <2>4, <2>5, OneRunKeepsFinal DEF Handed, Read, Begun
<1>6. CASE QueueBalances(s)
  <2> USE <1>6 DEF QueueBalances
  <2>1. pc'[s] = "inserts" /\ Behind(s)
    BY DEF FinalInv, Begun
  <2>2. Behind(s)'
    BY <2>1 DEF Behind, Handed, Read
  <2> QED
    BY <2>1, <2>2, OneRunKeepsFinal DEF Handed, Read, Begun, FinalInv, OnChain
<1>7. CASE QueueInserts(s)
  <2> USE <1>7 DEF QueueInserts
  <2>1. /\ Behind(s) /\ fromBlock[s] > currentBlockNumber[s]
        /\ result[s] \subseteq canon /\ \A e \in result[s] : BlockOf[e] <= currentBlockNumber[s]
    BY DEF FinalInv, Begun, IInv, LoopDone, OnChain, Read
  <2>2. Handed' = Handed \cup result[s]
    BY DEF Handed
  <2>3. /\ UNCHANGED <<head, canon, watermark, fromBlock, currentBlockNumber, result>>
        /\ pc'[s] = "save" /\ \A r \in Scans \ {s} : pc'[r] = pc[r]
    OBVIOUS
  <2>4. \A e \in canon : StartBlock <= BlockOf[e] /\ BlockOf[e] <= currentBlockNumber[s]
                           => e \in Handed'
    BY <2>1, <2>2 DEF Behind, Read
  <2>5. NoGap'
    BY <2>2, <2>3 DEF FinalInv, NoGap
  <2>6. Closed'
    <3> SUFFICES ASSUME NEW e \in Handed', NEW f \in canon,
                        StartBlock <= BlockOf[f], BlockOf[f] <= BlockOf[e]
                 PROVE  f \in Handed'
      BY <2>3 DEF Closed
    <3>1. CASE e \in Handed
      BY <2>2, <3>1 DEF FinalInv, Closed
    <3>2. CASE e \in result[s]
      BY <2>1, <2>4, <3>2
    <3> QED
      BY <2>2, <3>1, <3>2
  <2>7. OnChain'
    BY <2>1, <2>2, <2>3 DEF FinalInv, OnChain, Read
  <2>8. BeginsNear'
    BY <2>3 DEF FinalInv, BeginsNear
  <2>9. Behind(s)'
    BY <2>1, <2>2, <2>3 DEF Behind, Read
  <2>10. ASSUME NEW r \in Scans \ {s}, Begun(r)' PROVE Behind(r)'
    <3>1. Begun(r) /\ Behind(r)
      BY <2>3, <2>10 DEF Begun, FinalInv
    <3> QED
      BY <2>2, <2>3, <3>1 DEF Behind, Read
  <2> QED
    BY <2>5, <2>6, <2>7, <2>8, <2>9, <2>10 DEF FinalInv
<1>8. CASE SaveWatermark(s)
  <2> USE <1>8 DEF SaveWatermark
  <2>1. Behind(s) /\ fromBlock[s] > currentBlockNumber[s]
    BY DEF FinalInv, Begun, IInv, LoopDone
  <2>2. /\ pc'[s] = "idle" /\ UNCHANGED <<head, canon>> /\ Handed' = Handed
        /\ watermark' = currentBlockNumber[s] /\ result'[s] = {}
        /\ \A r \in Scans \ {s} :
              UNCHANGED <<pc[r], fromBlock[r], currentBlockNumber[r], result[r]>>
    BY DEF End, Handed
  <2>3. NoGap'
    BY <2>1, <2>2 DEF NoGap, Behind, Read
  <2>4. Closed'
    BY <2>2 DEF FinalInv, Closed
  <2>5. OnChain'
    BY <2>2 DEF FinalInv, OnChain, Read
  <2>6. BeginsNear'
    BY <2>2 DEF FinalInv, BeginsNear
  <2>7. ASSUME NEW r \in Scans, Begun(r)' PROVE Behind(r)'
    <3>1. r # s /\ Begun(r) /\ Behind(r)
      BY <2>2, <2>7 DEF Begun, FinalInv
    <3> QED
      BY <2>2, <3>1 DEF Behind, Read
  <2> QED
    BY <2>3, <2>4, <2>5, <2>6, <2>7 DEF FinalInv
<1> QED
  BY <1>1, <1>2, <1>3, <1>4, <1>5, <1>6, <1>7, <1>8 DEF ScanStep

LEMMA NextFinal ==
  ASSUME HeadMayReorg = FALSE, LookupBlocks = {}, IInv, FinalInv, [Next]_vars
  PROVE  FinalInv'
<1> USE DEF chainVars, redisVars, mongoVars, scanVars
<1>1. ASSUME NEW S \in SUBSET Scans, End(S), UNCHANGED <<head, canon, watermark>>,
             Handed' = Handed
      PROVE  FinalInv'
  <2>1. /\ \A r \in Scans \ S :
              UNCHANGED <<pc[r], fromBlock[r], currentBlockNumber[r], result[r]>>
        /\ \A s \in S : pc'[s] = "idle" /\ result'[s] = {}
    BY <1>1 DEF End, IInv, TypeOK
  <2> QED
    BY <1>1, <2>1, RunKeepsFinal DEF Read, Begun
<1>2. ASSUME UNCHANGED <<head, canon, watermark, scanVars>>, Handed' = Handed
      PROVE  FinalInv'
  BY <1>2 DEF FinalInv, NoGap, Closed, OnChain, BeginsNear, Begun, Behind, Read
<1>3. CASE Mine
  BY <1>3, MineFinal
<1>4. ASSUME NEW s \in Scans, ScanStep(s) PROVE FinalInv'
  BY <1>4, ScanStepFinal
<1>5. ASSUME NEW s \in Scans, Abort(s) PROVE FinalInv'
  BY <1>1, <1>5 DEF Abort, Handed
<1>6. CASE Restart
  BY <1>1, <1>6 DEF Restart, Handed
<1>7. ASSUME NEW e \in Events, InsertJob(e) \/ JobFails(e) PROVE FinalInv'
  BY <1>2, <1>7 DEF InsertJob, JobFails, Handed
<1>8. CASE UNCHANGED vars
  BY <1>2, <1>8 DEF vars, Handed
<1> QED
  BY <1>3, <1>4, <1>5, <1>6, <1>7, <1>8 DEF Next, Reorg

\* With final blocks and no lookups, scanEventLog never leaves a gap at all,
\* however its runs overlap and however often one fails or loses its
\* watermark and begins after the newest stored event.
THEOREM NothingLost ==
  ASSUME HeadMayReorg = FALSE, LookupBlocks = {}
  PROVE  Spec => []NoGap
<1>1. Init => IInv /\ FinalInv
  BY InitInv, InitFinal
<1>2. IInv /\ FinalInv /\ [Next]_vars => (IInv /\ FinalInv)'
  BY NextInv, NextFinal
<1>3. FinalInv => NoGap
  BY DEF FinalInv
<1> QED
  BY <1>1, <1>2, <1>3, PTL DEF Spec

-------------------------------------------------------------------------------
(* The order of the two addBulk calls.                                      *)

\* A run about to queue the events it fetched has queued their balances.
Refreshed ==
    \A s \in Scans : pc[s] \in {"inserts", "save"} => result[s] \cap Transfers \subseteq refreshes

LEMMA NextRefreshed ==
  ASSUME LookupBlocks = {}, TypeOK, Refreshed, RefreshBeforeInsert, [Next]_vars
  PROVE  Refreshed' /\ RefreshBeforeInsert'
<1> USE DEF TypeOK, chainVars, redisVars, mongoVars, scanVars, Handed
<1>1. ASSUME NEW S \in SUBSET Scans, End(S), UNCHANGED <<redisVars, mongoVars>>
             \/ UNCHANGED <<queue, refreshes, mongoVars>>
      PROVE  Refreshed' /\ RefreshBeforeInsert'
  BY <1>1 DEF End, Refreshed, RefreshBeforeInsert
<1>2. CASE Mine \/ Reorg \/ UNCHANGED vars
  BY <1>2 DEF Mine, Reorg, vars, Refreshed, RefreshBeforeInsert
<1>3. ASSUME NEW s \in Scans, ScanStep(s) PROVE Refreshed' /\ RefreshBeforeInsert'
  <2>1. CASE ReadCache(s) \/ MissCache(s) \/ ReadLatest(s) \/ ReadHeight(s) \/ FetchRange(s)
    <3>1. pc'[s] \in {"latest", "height", "fetch"} /\ UNCHANGED <<queue, refreshes, mongoVars>>
      BY <2>1 DEF ReadCache, MissCache, ReadLatest, ReadHeight, FetchRange
    <3>2. \A r \in Scans \ {s} : pc'[r] = pc[r] /\ result'[r] = result[r]
      BY <2>1 DEF ReadCache, MissCache, ReadLatest, ReadHeight, FetchRange
    <3> QED
      BY <3>1, <3>2 DEF Refreshed, RefreshBeforeInsert
  <2>2. CASE QueueBalances(s)
    BY <2>2 DEF QueueBalances, Refreshed, RefreshBeforeInsert
  <2>3. CASE QueueInserts(s)
    BY <2>3 DEF QueueInserts, Refreshed, RefreshBeforeInsert
  <2>4. CASE SaveWatermark(s)
    BY <1>1, <2>4 DEF SaveWatermark
  <2> QED
    BY <1>3, <2>1, <2>2, <2>3, <2>4 DEF ScanStep
<1>4. ASSUME NEW s \in Scans, Abort(s) PROVE Refreshed' /\ RefreshBeforeInsert'
  BY <1>1, <1>4 DEF Abort
<1>5. CASE Restart
  BY <1>1, <1>5 DEF Restart
<1>6. ASSUME NEW e \in Events, InsertJob(e) \/ JobFails(e)
      PROVE  Refreshed' /\ RefreshBeforeInsert'
  BY <1>6 DEF InsertJob, JobFails, Refreshed, RefreshBeforeInsert
<1> QED
  BY <1>2, <1>3, <1>4, <1>5, <1>6 DEF Next

\* Without lookups, a Transfer reaches the eventLog queue only after the
\* updateBalance jobs of its two addresses, on any chain, for any number of
\* runs, errors and restarts.
THEOREM BalancesFirst ==
  ASSUME LookupBlocks = {}
  PROVE  Spec => []RefreshBeforeInsert
<1>1. Init => TypeOK /\ Refreshed /\ RefreshBeforeInsert
  BY InitType DEF Init, Refreshed, RefreshBeforeInsert, Handed
<1>2. TypeOK /\ Refreshed /\ RefreshBeforeInsert /\ [Next]_vars
        => (TypeOK /\ Refreshed /\ RefreshBeforeInsert)'
  BY NextType, NextRefreshed
<1> QED
  BY <1>1, <1>2, PTL DEF Spec
===============================================================================

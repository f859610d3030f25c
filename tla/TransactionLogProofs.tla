-------------------------- MODULE TransactionLogProofs --------------------------
(***************************************************************************)
(* Proofs about TransactionLog, for any chain, any number of overlapping   *)
(* runs, any limit of the API and any number of errors: types, and that    *)
(* nothing in or before a stored block is missed.                          *)
(***************************************************************************)
EXTENDS TransactionLog, TLAPS

-------------------------------------------------------------------------------
(* Type correctness.                                                        *)

\* Where a run may start from.
LEMMA StartTypes ==
  /\ NaN \in NaN..MaxBlock + 1 /\ 0 \in NaN..MaxBlock + 1
  /\ \A b \in 1..MaxBlock : b + 1 \in NaN..MaxBlock + 1
  BY LogAssumption DEF NaN, LogAssumption

LEMMA InitType == Init => TypeOK
<1> SUFFICES ASSUME Init PROVE TypeOK
  OBVIOUS
<1>1. start \in [Runs -> NaN..MaxBlock + 1]
  BY StartTypes DEF Init
<1>2. height \in 0..MaxBlock /\ faults \in 0..MaxFaults
  BY LogAssumption DEF Init, LogAssumption
<1> QED
  BY <1>1, <1>2 DEF Init, TypeOK

LEMMA NextType == TypeOK /\ [Next]_vars => TypeOK'
<1> SUFFICES ASSUME TypeOK, [Next]_vars PROVE TypeOK'
  OBVIOUS
<1> USE LogAssumption DEF LogAssumption, TypeOK, runVars
<1>1. CASE Mine
  <2>1. height' \in 0..MaxBlock /\ height + 1 \in 1..MaxBlock
    BY <1>1 DEF Mine
  <2>2. PICK n \in 1..PerBlock : history' = history \cup [block: {height + 1}, index: 1..n]
    BY <1>1 DEF Mine
  <2>3. [block: {height + 1}, index: 1..n] \subseteq Txs
    BY <2>1 DEF Txs
  <2> QED
    BY <1>1, <2>1, <2>2, <2>3 DEF Mine
<1>2. CASE Crash
  <2>1. UNION {page[r] : r \in Runs} \subseteq Txs
    OBVIOUS
  <2> QED
    BY <1>2, <2>1 DEF Crash
<1>3. ASSUME NEW r \in Runs, ReadMax(r) PROVE TypeOK'
  BY <1>3 DEF ReadMax
<1>4. ASSUME NEW r \in Runs, Fetch(r) PROVE TypeOK'
  BY <1>4 DEF Fetch, Wanted
<1>5. ASSUME NEW r \in Runs, Store(r) PROVE TypeOK'
  BY <1>5 DEF Store
<1>6. ASSUME NEW r \in Runs, Fail(r) PROVE TypeOK'
  BY <1>6 DEF Fail
<1>7. ASSUME NEW r \in Runs, NotOk(r) PROVE TypeOK'
  BY <1>7 DEF NotOk
<1>8. CASE UNCHANGED vars
  BY <1>8 DEF vars
<1> QED
  BY <1>1, <1>2, <1>3, <1>4, <1>5, <1>6, <1>7, <1>8 DEF Next, Step

\* Every variable keeps its type.
THEOREM TypeCorrect == Spec => []TypeOK
  BY InitType, NextType, PTL DEF Spec

-------------------------------------------------------------------------------
(* Nothing is missed.  A transaction is accounted for once it is stored,    *)
(* in hand or given up, and stays so.  The invariant says how far down each *)
(* run's knowledge reaches: a run that has read its start knows that all    *)
(* before it is accounted for, and a run with a page that all up to the     *)
(* newest of the page is.                                                   *)

Accounted == stored \cup InHand \cup dropped

StartKnown ==
    \A r \in Runs, t \in history : pc[r] = "fetch" /\ t.block < start[r] => t \in Accounted

PageKnown ==
    \A r \in Runs, t \in history : \A u \in page[r] : t.block <= u.block => t \in Accounted

\* What is stored or in hand is on the chain, no higher than its head, and
\* a start is no higher than the block after it.
BelowHead ==
    /\ \A t \in history : t.block <= height
    /\ stored \subseteq history
    /\ \A r \in Runs : page[r] \subseteq history /\ start[r] <= height + 1

\* Only a run that stores has a page.
EmptyPage == \A r \in Runs : pc[r] # "store" => page[r] = {}

MissedInv == BelowHead /\ EmptyPage /\ StartKnown /\ PageKnown /\ NothingMissed

LEMMA InitMissed == Init => MissedInv
  BY LogAssumption DEF Init, MissedInv, BelowHead, EmptyPage, StartKnown, PageKnown, NothingMissed, LogAssumption

\* A step that forgets nothing and brings no new knowledge keeps the invariant.
LEMMA StillAccounted ==
  ASSUME MissedInv, Accounted \subseteq Accounted', history' = history, stored' = stored,
         \A r \in Runs : page'[r] \subseteq page[r],
         \A r \in Runs : pc'[r] = "fetch" => pc[r] = "fetch" /\ start'[r] = start[r]
  PROVE  StartKnown' /\ PageKnown' /\ NothingMissed'
  BY DEF MissedInv, StartKnown, PageKnown, NothingMissed, Accounted

LEMMA NextEmptyPage == TypeOK /\ EmptyPage /\ [Next]_vars => EmptyPage'
  BY DEF TypeOK, EmptyPage, Next, Step, Mine, Crash, ReadMax, Fetch, Store, NotOk, Fail, vars, runVars

LEMMA NextBelowHead == TypeOK /\ BelowHead /\ [Next]_vars => BelowHead'
<1> SUFFICES ASSUME TypeOK, BelowHead, [Next]_vars PROVE BelowHead'
  OBVIOUS
<1> USE LogAssumption DEF LogAssumption, TypeOK, BelowHead, runVars
<1>1. CASE Mine
  <2>1. PICK n \in 1..PerBlock : history' = history \cup [block: {height + 1}, index: 1..n]
    BY <1>1 DEF Mine
  <2>2. \A t \in history' : t.block <= height'
    BY <1>1, <2>1 DEF Mine, Txs
  <2> QED
    BY <1>1, <2>1, <2>2 DEF Mine
<1>2. CASE Crash
  BY <1>2 DEF Crash
<1>3. ASSUME NEW r \in Runs, ReadMax(r) PROVE BelowHead'
  <2>1. start'[r] <= height + 1
    BY <1>3 DEF ReadMax, IsStart, Txs, NaN
  <2> QED
    BY <1>3, <2>1 DEF ReadMax
<1>4. ASSUME NEW r \in Runs, Fetch(r) PROVE BelowHead'
  BY <1>4 DEF Fetch, Wanted
<1>5. ASSUME NEW r \in Runs, Store(r) PROVE BelowHead'
  BY <1>5 DEF Store
<1>6. ASSUME NEW r \in Runs, Fail(r) PROVE BelowHead'
  BY <1>6 DEF Fail
<1>7. ASSUME NEW r \in Runs, NotOk(r) PROVE BelowHead'
  BY <1>7 DEF NotOk
<1>8. CASE UNCHANGED vars
  BY <1>8 DEF vars
<1> QED
  BY <1>1, <1>2, <1>3, <1>4, <1>5, <1>6, <1>7, <1>8 DEF Next, Step

LEMMA NextMissed == TypeOK /\ MissedInv /\ [Next]_vars => MissedInv'
<1> SUFFICES ASSUME TypeOK, MissedInv, [Next]_vars
             PROVE  StartKnown' /\ PageKnown' /\ NothingMissed'
  BY NextBelowHead, NextEmptyPage DEF MissedInv
<1> USE LogAssumption DEF LogAssumption, TypeOK, runVars
<1>1. CASE Mine
  <2>1. UNCHANGED <<pc, start, page, stored, Accounted>>
    BY <1>1 DEF Mine, Accounted, InHand
  <2>2. PICK n \in 1..PerBlock : history' = history \cup [block: {height + 1}, index: 1..n]
    BY <1>1 DEF Mine
  <2>3. \A t \in history' : t \in history \/ t.block = height + 1
    BY <2>2
  <2>4. \A r \in Runs : start[r] <= height + 1 /\ \A u \in page[r] : u.block <= height
    BY DEF MissedInv, BelowHead
  <2>5. \A s \in stored : s.block <= height
    BY DEF MissedInv, BelowHead
  <2>6. StartKnown'
    BY <2>1, <2>3, <2>4 DEF MissedInv, StartKnown, Txs
  <2>7. PageKnown'
    BY <2>1, <2>3, <2>4 DEF MissedInv, PageKnown, Txs
  <2>8. NothingMissed'
    BY <2>1, <2>3, <2>5 DEF MissedInv, NothingMissed, Accounted, Txs
  <2> QED
    BY <2>6, <2>7, <2>8
<1>2. CASE Crash
  <2>1. Accounted \subseteq Accounted'
    BY <1>2 DEF Crash, Accounted, InHand
  <2> QED
    BY <1>2, <2>1, StillAccounted DEF Crash
<1>3. ASSUME NEW r \in Runs, ReadMax(r) PROVE StartKnown' /\ PageKnown' /\ NothingMissed'
  <2>1. UNCHANGED <<history, stored, page, Accounted>>
    BY <1>3 DEF ReadMax, Accounted, InHand
  <2>2. \A t \in history : t.block < start'[r] => t \in Accounted
    <3>1. PICK n \in NaN..MaxBlock + 1 : IsStart(n) /\ start' = [start EXCEPT ![r] = n]
      BY <1>3 DEF ReadMax
    <3>2. CASE stored = {} /\ n = IF junk THEN NaN ELSE 0
      BY <3>1, <3>2 DEF Txs, NaN
    <3>3. CASE \E s \in stored : n = s.block + 1
      BY <3>1, <3>3 DEF Txs, MissedInv, NothingMissed, Accounted
    <3> QED
      BY <3>1, <3>2, <3>3 DEF IsStart
  <2> QED
    BY <1>3, <2>1, <2>2 DEF ReadMax, MissedInv, StartKnown, PageKnown, NothingMissed, Accounted
<1>4. ASSUME NEW r \in Runs, Fetch(r) PROVE StartKnown' /\ PageKnown' /\ NothingMissed'
  <2>1. PICK p \in SUBSET Wanted(r) :
           page' = [page EXCEPT ![r] = p] /\ dropped' = dropped \cup (Wanted(r) \ p)
    BY <1>4 DEF Fetch
  <2>2. pc[r] = "fetch" /\ page[r] = {} /\ UNCHANGED <<history, stored, start>>
    BY <1>4 DEF Fetch, MissedInv, EmptyPage
  <2>3. Accounted \subseteq Accounted' /\ Wanted(r) \subseteq Accounted'
    BY <2>1, <2>2 DEF Accounted, InHand, Wanted
  <2>4. \A t \in history : t \in Accounted'
    BY <2>2, <2>3 DEF MissedInv, StartKnown, Wanted, Txs
  <2> QED
    BY <2>2, <2>4 DEF StartKnown, PageKnown, NothingMissed, Accounted
<1>5. ASSUME NEW r \in Runs, Store(r) PROVE StartKnown' /\ PageKnown' /\ NothingMissed'
  <2>1. PICK t \in page[r] : stored' = stored \cup {t} /\ page' = [page EXCEPT ![r] = @ \ {t}]
    BY <1>5 DEF Store
  <2>2. Accounted \subseteq Accounted'
    BY <1>5, <2>1 DEF Store, Accounted, InHand
  <2>3. StartKnown'
    BY <1>5, <2>2 DEF Store, MissedInv, StartKnown
  <2>4. PageKnown'
    BY <1>5, <2>1, <2>2 DEF Store, MissedInv, PageKnown
  <2>5. \A u \in history : u.block <= t.block => u \in Accounted
    BY DEF MissedInv, PageKnown
  <2>6. NothingMissed'
    BY <1>5, <2>1, <2>2, <2>5 DEF Store, MissedInv, NothingMissed, Accounted
  <2> QED
    BY <2>3, <2>4, <2>6
<1>6. ASSUME NEW r \in Runs, Fail(r) PROVE StartKnown' /\ PageKnown' /\ NothingMissed'
  <2>1. Accounted \subseteq Accounted'
    BY <1>6 DEF Fail, Accounted, InHand
  <2> QED
    BY <1>6, <2>1, StillAccounted DEF Fail
<1>7. ASSUME NEW r \in Runs, NotOk(r) PROVE StartKnown' /\ PageKnown' /\ NothingMissed'
  <2>1. Accounted' = Accounted
    BY <1>7 DEF NotOk, Accounted, InHand
  <2> QED
    BY <1>7, <2>1, StillAccounted DEF NotOk
<1>8. CASE UNCHANGED vars
  BY <1>8, StillAccounted DEF vars, Accounted, InHand
<1> QED
  BY <1>1, <1>2, <1>3, <1>4, <1>5, <1>6, <1>7, <1>8 DEF Next, Step

\* Whatever runs overlap, fail or crash, nothing in or before a stored block
\* is missed: it is stored, being stored, or was given up with an error or
\* by a cut answer.
THEOREM NothingIsMissed == Spec => []NothingMissed
<1>1. MissedInv => NothingMissed
  BY DEF MissedInv
<1> QED
  BY <1>1, InitType, NextType, InitMissed, NextMissed, PTL DEF Spec

-------------------------------------------------------------------------------
(* The log implements the indexer.  Its mark is a choice, so the invariant  *)
(* adds that there is something to choose: a stored block that is greatest. *)

HasStart == \E n \in NaN..MaxBlock + 1 : IsStart(n)

LEMMA NextHasStart == TypeOK /\ HasStart /\ [Next]_vars => HasStart'
<1> SUFFICES ASSUME TypeOK, HasStart, [Next]_vars PROVE HasStart'
  OBVIOUS
<1> USE LogAssumption DEF LogAssumption, TypeOK, HasStart, IsStart
<1>1. ASSUME stored' = stored PROVE HasStart'
  <2>1. CASE stored = {}
    <3>1. (IF junk' THEN NaN ELSE 0) \in NaN..MaxBlock + 1
      BY StartTypes
    <3> QED
      BY <1>1, <2>1, <3>1
  <2>2. CASE stored # {}
    BY <1>1, <2>2
  <2> QED
    BY <2>1, <2>2
<1>2. ASSUME NEW t \in Txs, stored' = stored \cup {t} PROVE HasStart'
  <2>1. PICK n \in NaN..MaxBlock + 1 : IsStart(n)
    OBVIOUS
  <2>2. t.block \in 1..MaxBlock /\ \A u \in stored : u.block \in 1..MaxBlock
    BY DEF Txs
  <2>3. CASE n <= t.block + 1
    <3>1. \A u \in stored : u.block <= t.block
      BY <2>1, <2>2, <2>3
    <3>2. t.block + 1 \in NaN..MaxBlock + 1
      BY <2>2 DEF NaN
    <3> QED
      BY <1>2, <3>1, <3>2, <2>2
  <2>4. CASE t.block + 1 < n
    <3>1. PICK s \in stored : n = s.block + 1 /\ \A u \in stored : u.block <= s.block
      BY <2>1, <2>2, <2>4 DEF NaN
    <3> QED
      BY <1>2, <2>1, <2>2, <2>4, <3>1
  <2> QED
    BY <2>2, <2>3, <2>4
<1>3. ASSUME NEW r \in Runs, Store(r) PROVE HasStart'
  BY <1>2, <1>3 DEF Store
<1> QED
  BY <1>1, <1>3 DEF Next, Step, Mine, Crash, ReadMax, Fetch, NotOk, Fail, vars

Inv == TypeOK /\ MissedInv /\ HasStart

LEMMA InitInv == Init => Inv
<1>1. Init => HasStart
  BY LogAssumption DEF Init, HasStart, IsStart, NaN, LogAssumption
<1> QED
  BY <1>1, InitType, InitMissed DEF Inv

LEMMA NextInv == Inv /\ [Next]_vars => Inv'
  BY NextType, NextMissed, NextHasStart DEF Inv

LEMMA ResumeIsStart == HasStart => Resume \in NaN..MaxBlock + 1 /\ IsStart(Resume)
  BY DEF HasStart, Resume

\* Nothing before the mark is missing from what the backend took charge of.
LEMMA MarkComplete == Inv => Resume \in Int /\ Index!Complete
<1> SUFFICES ASSUME Inv PROVE Resume \in Int /\ Index!Complete
  OBVIOUS
<1>1. Resume \in NaN..MaxBlock + 1 /\ IsStart(Resume)
  BY ResumeIsStart DEF Inv
<1>2. ASSUME NEW t \in history, t.block < Resume PROVE t \in stored \cup InHand \cup dropped
  BY <1>1, <1>2 DEF IsStart, NaN, Inv, TypeOK, Txs, MissedInv, NothingMissed
<1>3. \A t \in history : Position[t] = t.block
  BY DEF Position, Inv, TypeOK
<1> QED
  BY <1>1, <1>2, <1>3, LogAssumption DEF Index!Complete, LogAssumption, NaN

LEMMA MarkCompleteNext == Inv' => (Resume \in Int /\ Index!Complete)'
  BY MarkComplete, PTL

\* While no document is added the mark stands still.
LEMMA MarkStill == UNCHANGED <<stored, junk>> => Resume' = Resume
  BY DEF Resume, IsStart

LEMMA NextImplements == Inv /\ Inv' /\ [Next]_vars => [Index!Next]_Index!vars
<1> SUFFICES ASSUME Inv, Inv', [Next]_vars PROVE [Index!Next]_Index!vars
  OBVIOUS
<1> USE LogAssumption DEF LogAssumption, Inv, TypeOK, runVars
<1>1. CASE Mine
  <2>1. PICK n \in 1..PerBlock : history' = history \cup [block: {height + 1}, index: 1..n]
    BY <1>1 DEF Mine
  <2>2. Resume <= height + 1
    BY ResumeIsStart DEF IsStart, NaN, MissedInv, BelowHead, Txs
  <2>3. ASSUME NEW t \in Txs, Position[t] < Resume PROVE t \in history' <=> t \in history
    BY <2>1, <2>2, <2>3, ResumeIsStart DEF Position, Txs, NaN
  <2>4. UNCHANGED <<stored \cup InHand \cup dropped, Resume>>
    BY <1>1, MarkStill DEF Mine, InHand
  <2> QED
    BY <2>3, <2>4 DEF Index!Next, Index!Grow
<1>2. ASSUME UNCHANGED <<history, stored, junk>>,
             stored \cup InHand \cup dropped \subseteq (stored \cup InHand \cup dropped)'
      PROVE  Index!Take
  BY <1>2, MarkStill DEF Index!Take, InHand
<1>3. CASE Crash
  <2>1. stored \cup InHand \cup dropped \subseteq (stored \cup InHand \cup dropped)'
    BY <1>3 DEF Crash, InHand
  <2> QED
    BY <1>2, <1>3, <2>1 DEF Crash, Index!Next
<1>4. ASSUME NEW r \in Runs, ReadMax(r) PROVE Index!Take
  BY <1>2, <1>4 DEF ReadMax, InHand
<1>5. ASSUME NEW r \in Runs, Fetch(r) PROVE Index!Take
  <2>1. page[r] = {}
    BY <1>5 DEF Fetch, MissedInv, EmptyPage
  <2>2. stored \cup InHand \cup dropped \subseteq (stored \cup InHand \cup dropped)'
    BY <1>5, <2>1 DEF Fetch, InHand
  <2> QED
    BY <1>2, <1>5, <2>2 DEF Fetch
<1>6. ASSUME NEW r \in Runs, Store(r) PROVE Index!Move
  <2>1. PICK t \in page[r] : stored' = stored \cup {t} /\ page' = [page EXCEPT ![r] = @ \ {t}]
    BY <1>6 DEF Store
  <2>2. UNCHANGED <<history, stored \cup InHand \cup dropped>>
    BY <1>6, <2>1 DEF Store, InHand
  <2>3. Resume' \in Int /\ Index!Complete'
    BY MarkCompleteNext
  <2> QED
    BY <2>2, <2>3 DEF Index!Move
<1>7. ASSUME NEW r \in Runs, Fail(r) PROVE Index!Take
  <2>1. stored \cup InHand \cup dropped \subseteq (stored \cup InHand \cup dropped)'
    BY <1>7 DEF Fail, InHand
  <2> QED
    BY <1>2, <1>7, <2>1 DEF Fail
<1>8. ASSUME NEW r \in Runs, NotOk(r) PROVE Index!Move
  <2>1. UNCHANGED <<history, stored \cup InHand \cup dropped>>
    BY <1>8 DEF NotOk, InHand
  <2>2. Resume' \in Int /\ Index!Complete'
    BY MarkCompleteNext
  <2> QED
    BY <2>1, <2>2 DEF Index!Move
<1>9. CASE UNCHANGED vars
  BY <1>9, MarkStill DEF vars, Index!vars, InHand
<1> QED
  BY <1>1, <1>3, <1>4, <1>5, <1>6, <1>7, <1>8, <1>9 DEF Next, Step, Index!Next

\* Every step of the log is one of the indexer's, for every chain and every
\* number of runs, with the block the next run would start from as its mark.
THEOREM LogImplementsChainIndex == Spec => ImplementsChainIndex
<1>1. Init => Index!Init
  BY InitInv, MarkComplete DEF Init, Index!Init, InHand
<1> QED
  BY <1>1, InitInv, NextInv, NextImplements, PTL DEF Spec, ImplementsChainIndex, Index!Spec
===============================================================================

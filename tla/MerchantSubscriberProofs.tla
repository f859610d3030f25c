------------------------ MODULE MerchantSubscriberProofs ------------------------
(***************************************************************************)
(* Proofs about MerchantSubscriber, for any number of requests, addresses, *)
(* Telegram names and documents: types, and that a subscriber of whom no   *)
(* two requests overlapped is recorded once.                               *)
(***************************************************************************)
EXTENDS MerchantSubscriber, TLAPS

Recorded == {Subscriber(p) : p \in Subscribers}

-------------------------------------------------------------------------------
(* The collection as a sequence.                                            *)

\* The type of the collection, as a sequence of bounded length.
LEMMA Collection ==
  ASSUME NEW d
  PROVE  (\E n \in 0..MaxDocuments : d \in [1..n -> Recorded])
           <=> d \in Seq(Recorded) /\ Len(d) <= MaxDocuments
<1>1. ASSUME NEW n \in 0..MaxDocuments, d \in [1..n -> Recorded]
      PROVE  d \in Seq(Recorded) /\ Len(d) <= MaxDocuments
  BY <1>1, SubscriberAssumption DEF SubscriberAssumption
<1>2. ASSUME d \in Seq(Recorded), Len(d) <= MaxDocuments
      PROVE  \E n \in 0..MaxDocuments : d \in [1..n -> Recorded]
  BY <1>2, SubscriberAssumption DEF SubscriberAssumption
<1> QED
  BY <1>1, <1>2

\* A request that ends is idle and keeps the types of the handlers.
LEMMA EndTyped ==
  ASSUME TypeOK, NEW r \in Requests, End(r)
  PROVE  /\ pc' \in [Requests -> {"idle", "find", "create"}]
         /\ payload' \in [Requests -> Subscribers]
         /\ overlapped' \in SUBSET Subscribers
  BY DEF TypeOK, End, Subscribers

LEMMA SubscriberTyped == ASSUME NEW p \in Subscribers PROVE Subscriber(p) \in Subscribers
  BY DEF Subscriber, Subscribers

-------------------------------------------------------------------------------
(* Type correctness.                                                        *)

LEMMA InitType == Init => TypeOK
<1> SUFFICES ASSUME Init PROVE TypeOK
  OBVIOUS
<1>1. <<>> \in Seq(Recorded) /\ Len(<<>>) <= MaxDocuments
  BY SubscriberAssumption DEF SubscriberAssumption
<1>2. \E n \in 0..MaxDocuments : documents \in [1..n -> Recorded]
  BY <1>1, Collection DEF Init
<1> QED
  BY <1>2 DEF Init, TypeOK, Subscribers, Recorded

LEMMA NextType == TypeOK /\ [Next]_vars => TypeOK'
<1> SUFFICES ASSUME TypeOK, [Next]_vars PROVE TypeOK'
  OBVIOUS
<1>1. ASSUME NEW r \in Requests, NEW p \in Subscribers, Register(r, p) PROVE TypeOK'
  BY <1>1, SubscriberTyped DEF Register, TypeOK
<1>2. ASSUME NEW r \in Requests, Find(r) PROVE TypeOK'
  BY <1>2 DEF Find, TypeOK
<1>3. ASSUME NEW r \in Requests, Conflict(r) PROVE TypeOK'
  BY <1>3, EndTyped DEF Conflict, TypeOK
<1>4. ASSUME NEW r \in Requests, Create(r) PROVE TypeOK'
  <2>1. documents \in Seq(Recorded) /\ Len(documents) < MaxDocuments
    BY <1>4, Collection DEF Create, TypeOK, Recorded
  <2>2. Subscriber(payload[r]) \in Recorded
    BY DEF Recorded, TypeOK
  <2>3. documents' \in Seq(Recorded) /\ Len(documents') <= MaxDocuments
    BY <1>4, <2>1, <2>2, SubscriberAssumption DEF Create, SubscriberAssumption
  <2> QED
    BY <1>4, <2>3, Collection, EndTyped DEF Create, TypeOK, Recorded
<1>5. ASSUME NEW r \in Requests, Fail(r) PROVE TypeOK'
  BY <1>5, EndTyped DEF Fail, TypeOK
<1>6. CASE UNCHANGED vars
  BY <1>6 DEF vars, TypeOK
<1> QED
  BY <1>1, <1>2, <1>3, <1>4, <1>5, <1>6 DEF Next

\* Every variable keeps its type.
THEOREM TypeCorrect == Spec => []TypeOK
  BY InitType, NextType, PTL DEF Spec

-------------------------------------------------------------------------------
(* Recorded once.  A request that is about to insert has looked the         *)
(* subscriber up; unless another one for the same subscriber was under way  *)
(* since, nobody has inserted it.                                           *)

\* Two requests for one subscriber overlap.
Alone ==
    \A r, s \in Requests :
        r # s /\ pc[r] # "idle" /\ pc[s] # "idle"
          /\ Subscriber(payload[r]) = Subscriber(payload[s])
        => Subscriber(payload[r]) \in overlapped

\* What a request is about to insert is not there yet.
Missing ==
    \A r \in Requests : pc[r] = "create" /\ Subscriber(payload[r]) \notin overlapped =>
        \A i \in DOMAIN documents : documents[i] # Subscriber(payload[r])

OnceInv == Alone /\ Missing /\ SubscribedOnceUnlessOverlap

\* A document no query for a payload matches is not what it would insert.
LEMMA MatchesOwn ==
  ASSUME NEW p \in Subscribers
  PROVE  Matches(Subscriber(p), p)
  BY DEF Matches, Subscriber, Subscribers

LEMMA InitOnce == Init => OnceInv
  BY DEF Init, OnceInv, Alone, Missing, SubscribedOnceUnlessOverlap

\* A request that ends without an insertion disturbs nothing.
LEMMA EndOnce ==
  ASSUME TypeOK, OnceInv, NEW r \in Requests, End(r), UNCHANGED documents
  PROVE  OnceInv'
  BY DEF TypeOK, OnceInv, Alone, Missing, SubscribedOnceUnlessOverlap, End

LEMMA NextOnce == TypeOK /\ OnceInv /\ [Next]_vars => OnceInv'
<1> SUFFICES ASSUME TypeOK, OnceInv, [Next]_vars PROVE OnceInv'
  OBVIOUS
<1> USE DEF OnceInv
<1>1. ASSUME NEW r \in Requests, NEW p \in Subscribers, Register(r, p) PROVE OnceInv'
  <2>1. Alone'
    BY <1>1 DEF Register, TypeOK, Alone
  <2>2. Missing'
    BY <1>1 DEF Register, TypeOK, Missing
  <2>3. SubscribedOnceUnlessOverlap'
    BY <1>1 DEF Register, SubscribedOnceUnlessOverlap
  <2> QED
    BY <2>1, <2>2, <2>3
<1>2. ASSUME NEW r \in Requests, Find(r) PROVE OnceInv'
  <2>1. \A i \in DOMAIN documents : documents[i] # Subscriber(payload[r])
    BY <1>2, MatchesOwn DEF Find, TypeOK
  <2>2. Alone' /\ SubscribedOnceUnlessOverlap'
    BY <1>2 DEF Find, TypeOK, Alone, SubscribedOnceUnlessOverlap
  <2>3. Missing'
    BY <1>2, <2>1 DEF Find, TypeOK, Missing
  <2> QED
    BY <2>2, <2>3
<1>3. ASSUME NEW r \in Requests, Conflict(r) PROVE OnceInv'
  BY <1>3, EndOnce DEF Conflict
<1>4. ASSUME NEW r \in Requests, Create(r) PROVE OnceInv'
  <2> DEFINE new == Subscriber(payload[r])
  <2>1. documents \in Seq(Recorded)
    BY Collection DEF TypeOK, Recorded
  <2>2. new \in Recorded
    BY DEF Recorded, TypeOK
  <2>3. /\ DOMAIN documents' = 1..(Len(documents) + 1)
        /\ DOMAIN documents = 1..Len(documents)
        /\ Len(documents) \in Nat
        /\ \A i \in DOMAIN documents : documents'[i] = documents[i]
        /\ documents'[Len(documents) + 1] = new
    BY <1>4, <2>1, <2>2 DEF Create
  <2>4. UNCHANGED overlapped
    BY <1>4 DEF Create, End
  <2>5. new \in overlapped \/ \A i \in DOMAIN documents : documents[i] # new
    BY <1>4 DEF Create, Missing
  <2>6. \A s \in Requests \ {r} : pc'[s] = pc[s] /\ payload'[s] = payload[s]
    BY <1>4 DEF Create, End, TypeOK
  <2>7. pc'[r] = "idle"
    BY <1>4 DEF Create, End, TypeOK
  <2>8. Alone'
    BY <2>4, <2>6, <2>7 DEF Alone
  <2>9. SubscribedOnceUnlessOverlap'
    BY <2>3, <2>4, <2>5 DEF SubscribedOnceUnlessOverlap
  <2>10. ASSUME NEW s \in Requests, pc'[s] = "create", Subscriber(payload[s]) \notin overlapped
         PROVE  \A i \in DOMAIN documents' : documents'[i] # Subscriber(payload[s])
    <3>1. s # r /\ pc[s] = "create"
      BY <2>6, <2>7, <2>10
    <3>2. Subscriber(payload[s]) # new
      BY <1>4, <3>1, <2>10 DEF Create, Alone
    <3>3. \A i \in DOMAIN documents : documents[i] # Subscriber(payload[s])
      BY <3>1, <2>10 DEF Missing
    <3> QED
      BY <2>3, <3>2, <3>3
  <2>11. Missing'
    BY <2>4, <2>6, <2>7, <2>10 DEF Missing
  <2> QED
    BY <2>8, <2>9, <2>11
<1>5. ASSUME NEW r \in Requests, Fail(r) PROVE OnceInv'
  BY <1>5, EndOnce DEF Fail
<1>6. CASE UNCHANGED vars
  BY <1>6 DEF vars, Alone, Missing, SubscribedOnceUnlessOverlap
<1> QED
  BY <1>1, <1>2, <1>3, <1>4, <1>5, <1>6 DEF Next

\* saveMerchantSubscriber records a subscriber once, unless two requests for
\* it overlap: looking it up first is enough against any other request.
THEOREM RecordedOnce == Spec => []SubscribedOnceUnlessOverlap
<1>1. Init => TypeOK /\ OnceInv
  BY InitType, InitOnce
<1>2. TypeOK /\ OnceInv /\ [Next]_vars => TypeOK' /\ OnceInv'
  BY NextType, NextOnce
<1>3. OnceInv => SubscribedOnceUnlessOverlap
  BY DEF OnceInv
<1> QED
  BY <1>1, <1>2, <1>3, PTL DEF Spec
===============================================================================

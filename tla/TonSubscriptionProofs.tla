------------------------- MODULE TonSubscriptionProofs -------------------------
(***************************************************************************)
(* Proofs about TonSubscription, for any history of the account, any page  *)
(* size and any number of crashes: types, that a swap is announced at most *)
(* once, that none above the base is left behind lastIndexedLt, and that   *)
(* what is recorded are the deals that happened, whatever messages the     *)
(* account's transactions hold.                                            *)
(***************************************************************************)
EXTENDS TonDeals, FiniteSetTheorems, WellFoundedInduction, TLAPS

Handling == pc \in {"create", "sync", "notify", "mail"}

-------------------------------------------------------------------------------
(* Type correctness.                                                        *)

LEMMA InitType == Init => TypeOK
  BY TonAssumption DEF Init, TypeOK, TonAssumption, Lts

LEMMA NextType == TypeOK /\ [Next]_vars => TypeOK'
<1> SUFFICES ASSUME TypeOK, [Next]_vars PROVE TypeOK'
  OBVIOUS
<1> USE TonAssumption DEF TonAssumption, TypeOK, Lts, mongoVars, iterVars, ghostVars
<1>1. CASE Arrive
  BY <1>1 DEF Arrive
<1>2. ASSUME NEW l \in 0..MaxLt, Begin(l), faults' \in 0..MaxFaults PROVE TypeOK'
  BY <1>2 DEF Begin, MaxOf
<1>3. CASE OnModuleInit
  BY <1>2, <1>3 DEF OnModuleInit
<1>4. CASE OnModuleInitFails
  BY <1>2, <1>4 DEF OnModuleInitFails, Fault
<1>5. CASE Crash
  BY <1>5 DEF Crash, Fault
<1>6. CASE Tick
  BY <1>6 DEF Tick
<1>7. CASE FetchBatch
  <2>1. PICK page \in SUBSET Remaining :
           /\ \E first, last \in page :
                 /\ iterationStartLt' = IF iterationStartLt = 0 THEN first ELSE iterationStartLt
                 /\ lt' = last
           /\ HandlePage(page)
    BY <1>7 DEF FetchBatch
  <2>2. Remaining \subseteq 0..MaxLt
    BY DEF Remaining
  <2>3. iterationStartLt' \in 0..MaxLt /\ lt' \in 0..MaxLt
    BY <2>1, <2>2
  <2> QED
    BY <1>7, <2>1, <2>3 DEF FetchBatch, HandlePage
<1>8. CASE EndIteration
  BY <1>8 DEF EndIteration
<1>9. ASSUME NEW t \in Swaps, CreateTransaction(t) PROVE TypeOK'
  <2>1. batch' \in SUBSET Swaps /\ iterationStartLt' \in 0..MaxLt /\ lt' \in 0..MaxLt
    BY <1>9 DEF CreateTransaction, Done
  <2>2. stored' \in SUBSET Swaps /\ dropped' \in SUBSET Swaps
    BY <1>9 DEF CreateTransaction
  <2>3. pc' \in {"sync", "fetch", "create"} /\ faults' \in 0..MaxFaults
    BY <1>9 DEF CreateTransaction, Done, Fault
  <2> QED
    BY <1>9, <2>1, <2>2, <2>3 DEF CreateTransaction
<1>10. ASSUME NEW t \in Swaps, SyncBalances(t) PROVE TypeOK'
  <2>1. wallets' \in SUBSET Owners
    BY <1>10 DEF SyncBalances, Owners
  <2>2. pc' = "notify" /\ faults' \in 0..MaxFaults
    BY <1>10 DEF SyncBalances, Fault
  <2>3. unlisted' \in {unlisted, unlisted \cup {t}}
    BY <1>10 DEF SyncBalances
  <2>4. UNCHANGED <<head, stored, notices, mails, lastIndexedLt, iterVars, dropped, trail, base>>
    BY <1>10 DEF SyncBalances
  <2> QED
    BY <2>1, <2>2, <2>3, <2>4
<1>11. ASSUME NEW t \in Swaps, Notify(t) PROVE TypeOK'
  <2>1. batch' \in SUBSET Swaps /\ iterationStartLt' \in 0..MaxLt /\ lt' \in 0..MaxLt
    BY <1>11 DEF Notify, Done
  <2>2. notices' \in [Swaps -> Nat]
    BY <1>11 DEF Notify
  <2>3. pc' \in {"mail", "fetch", "create"} /\ faults' \in 0..MaxFaults
    BY <1>11 DEF Notify, Done, Fault
  <2> QED
    BY <1>11, <2>1, <2>2, <2>3 DEF Notify
<1>12. ASSUME NEW t \in Swaps, Mail(t) PROVE TypeOK'
  <2>1. batch' \in SUBSET Swaps /\ pc' \in {"fetch", "create"}
    BY <1>12 DEF Mail, Done
  <2>2. mails' \in [Swaps -> Nat] /\ faults' \in 0..MaxFaults
    BY <1>12 DEF Mail, Fault
  <2>3. UNCHANGED <<iterationStartLt, lt>>
    BY <1>12 DEF Mail, Done
  <2> QED
    BY <1>12, <2>1, <2>2, <2>3 DEF Mail
<1>13. CASE UNCHANGED vars
  BY <1>13 DEF vars
<1> QED
  BY <1>1, <1>3, <1>4, <1>5, <1>6, <1>7, <1>8, <1>9, <1>10, <1>11, <1>12, <1>13
     DEF Next, Poll

\* Every variable keeps its type.
THEOREM TypeCorrect == Spec => []TypeOK
  BY InitType, NextType, PTL DEF Spec

-------------------------------------------------------------------------------
(* A swap is announced at most once.  The invariant adds that the swap in   *)
(* hand has not been announced yet: it was inserted by this very pass.      *)

OnceInv ==
    /\ AnnouncedOnce
    /\ \A t \in Swaps : t \notin stored => notices[t] = 0
    /\ pc \in {"sync", "notify"} =>
          \A t \in Swaps : Newest(t, batch) => t \in stored /\ notices[t] = 0
    /\ pc = "mail" =>
          \A t \in Swaps : Newest(t, batch) => notices[t] = 1 /\ mails[t] = 0

LEMMA OneNewest ==
  ASSUME NEW B \in SUBSET Swaps, NEW t \in Swaps, NEW u \in Swaps, Newest(t, B), Newest(u, B)
  PROVE  t = u
  BY TonAssumption DEF Newest, TonAssumption, Lts

LEMMA InitOnce == Init => OnceInv
  BY TonAssumption DEF Init, OnceInv, AnnouncedOnce, TonAssumption

LEMMA NextOnce == TypeOK /\ OnceInv /\ [Next]_vars => OnceInv'
<1> SUFFICES ASSUME TypeOK, OnceInv, [Next]_vars PROVE OnceInv'
  OBVIOUS
<1> USE TonAssumption DEF TonAssumption, TypeOK, OnceInv, AnnouncedOnce,
                          mongoVars, iterVars, ghostVars
<1>1. ASSUME UNCHANGED <<stored, notices, mails>>, pc' \notin {"sync", "notify", "mail"}
      PROVE  OnceInv'
  BY <1>1
<1>2. CASE OnModuleInit \/ OnModuleInitFails
  BY <1>1, <1>2 DEF OnModuleInit, OnModuleInitFails, Begin
<1>3. CASE Crash
  BY <1>1, <1>3 DEF Crash
<1>4. CASE Tick \/ EndIteration
  BY <1>1, <1>4 DEF Tick, EndIteration
<1>5. CASE FetchBatch
  BY <1>1, <1>5 DEF FetchBatch, HandlePage
<1>6. ASSUME NEW t \in Swaps, CreateTransaction(t) PROVE OnceInv'
  <2>1. CASE t \notin stored /\ stored' = stored \cup {t} /\ pc' = "sync" /\ UNCHANGED batch
    <3>1. \A u \in Swaps : Newest(u, batch) => u = t
      BY <1>6, OneNewest DEF CreateTransaction
    <3>2. notices[t] = 0
      BY <2>1
    <3> QED
      BY <1>6, <2>1, <3>1, <3>2 DEF CreateTransaction, Newest
  <2>2. CASE UNCHANGED stored /\ Done(t)
    BY <1>1, <1>6, <2>2 DEF CreateTransaction, Done
  <2> QED
    BY <1>6, <2>1, <2>2 DEF CreateTransaction
<1>7. ASSUME NEW t \in Swaps, SyncBalances(t) PROVE OnceInv'
  BY <1>7 DEF SyncBalances, Newest
<1>8. ASSUME NEW t \in Swaps, Notify(t) PROVE OnceInv'
  <2>1. t \in stored /\ notices[t] = 0 /\ mails[t] = 0
    BY <1>8 DEF Notify
  <2>2. CASE notices' = [notices EXCEPT ![t] = @ + 1]
    <3>1. AnnouncedOnce' /\ \A u \in Swaps : u \notin stored' => notices'[u] = 0
      BY <1>8, <2>1, <2>2 DEF Notify
    <3>2. ASSUME pc' = "mail", NEW u \in Swaps, Newest(u, batch)'
          PROVE  notices'[u] = 1 /\ mails'[u] = 0
      <4>1. UNCHANGED <<batch, mails>>
        BY <1>8, <3>2 DEF Notify, Done
      <4>2. Newest(t, batch) /\ Newest(u, batch)
        BY <1>8, <3>2, <4>1 DEF Notify, Newest
      <4>3. u = t
        BY <4>2, OneNewest
      <4> QED
        BY <2>1, <2>2, <4>1, <4>3
    <3>3. pc' \notin {"sync", "notify"}
      BY <1>8 DEF Notify, Done
    <3> QED
      BY <3>1, <3>2, <3>3
  <2>3. CASE UNCHANGED notices /\ Done(t)
    BY <1>1, <1>8, <2>3 DEF Notify, Done
  <2> QED
    BY <1>8, <2>2, <2>3 DEF Notify
<1>9. ASSUME NEW t \in Swaps, Mail(t) PROVE OnceInv'
  BY <1>9 DEF Mail, Done
<1>10. CASE Arrive \/ UNCHANGED vars
  BY <1>10 DEF Arrive, vars, Newest
<1> QED
  BY <1>2, <1>3, <1>4, <1>5, <1>6, <1>7, <1>8, <1>9, <1>10 DEF Next, Poll

\* A swap is notified and mailed at most once, whatever crashes and restarts
\* make the poller fetch again.
THEOREM SwapAnnouncedOnce == Spec => []AnnouncedOnce
<1>1. OnceInv => AnnouncedOnce
  BY DEF OnceInv
<1> QED
  BY <1>1, InitType, NextType, InitOnce, NextOnce, PTL DEF Spec

-------------------------------------------------------------------------------
(* One error or crash, one loss.  A swap in hand whose owner has no wallet  *)
(* is as good as lost: the error that lost it is that of syncBalances, and  *)
(* nothing else goes wrong when its notification is left out.               *)

\* The swap in hand may still be announced.
Hopeful(t) == InHand(t) /\ (pc = "sync" \/ Owner[t] \in wallets)

Lost == {t \in stored \ unlisted : notices[t] = 0 /\ ~Hopeful(t)}

LossInv == IsFiniteSet(Lost) /\ Cardinality(Lost) <= faults

\* A step that loses nothing.
LEMMA NoLoss ==
  ASSUME TypeOK, LossInv, Lost' \subseteq Lost, faults' \in {faults, faults + 1}
  PROVE  LossInv'
<1>1. IsFiniteSet(Lost') /\ Cardinality(Lost') <= Cardinality(Lost)
  BY FS_Subset DEF LossInv
<1>2. Cardinality(Lost) \in Nat /\ Cardinality(Lost') \in Nat /\ faults \in Nat
  BY <1>1, FS_CardinalityType, TonAssumption DEF LossInv, TypeOK, TonAssumption
<1> QED
  BY <1>1, <1>2 DEF LossInv

\* An error that loses a swap.
LEMMA OneLoss ==
  ASSUME TypeOK, LossInv, NEW t, Lost' \subseteq Lost \cup {t}, faults' = faults + 1
  PROVE  LossInv'
<1>1. IsFiniteSet(Lost) /\ Cardinality(Lost) \in Nat
  BY FS_CardinalityType DEF LossInv
<1>2. /\ IsFiniteSet(Lost \cup {t})
      /\ Cardinality(Lost \cup {t}) =
           IF t \in Lost THEN Cardinality(Lost) ELSE Cardinality(Lost) + 1
  BY <1>1, FS_AddElement
<1>3. IsFiniteSet(Lost') /\ Cardinality(Lost') <= Cardinality(Lost \cup {t})
  BY <1>2, FS_Subset
<1>4. Cardinality(Lost') \in Nat /\ Cardinality(Lost \cup {t}) \in Nat /\ faults \in Nat
  BY <1>2, <1>3, FS_CardinalityType, TonAssumption DEF TypeOK, TonAssumption
<1> QED
  BY <1>1, <1>2, <1>3, <1>4 DEF LossInv

LEMMA InitLoss == Init => LossInv
<1> SUFFICES ASSUME Init PROVE LossInv
  OBVIOUS
<1>1. Lost = {}
  BY DEF Init, Lost
<1> QED
  BY <1>1, FS_EmptySet, TonAssumption DEF Init, LossInv, TonAssumption

LEMMA NextLoss == TypeOK /\ LossInv /\ [Next]_vars => LossInv'
<1> SUFFICES ASSUME TypeOK, LossInv, [Next]_vars PROVE LossInv'
  OBVIOUS
<1> USE DEF mongoVars, iterVars, ghostVars
\* No swap was in hand before, and nothing was recorded or announced.
<1>1. ASSUME UNCHANGED <<stored, notices, unlisted>>, pc \notin {"sync", "notify"},
             faults' \in {faults, faults + 1}
      PROVE  LossInv'
  BY <1>1, NoLoss DEF Lost, Hopeful, InHand
<1>2. CASE OnModuleInit \/ OnModuleInitFails
  BY <1>1, <1>2 DEF OnModuleInit, OnModuleInitFails, Begin, Fault
<1>3. CASE Crash
  <2>1. UNCHANGED <<stored, notices, unlisted>> /\ faults' = faults + 1
    BY <1>3 DEF Crash, Fault
  <2>2. CASE \E t \in Swaps : Newest(t, batch)
    <3>1. PICK t \in Swaps : Newest(t, batch)
      BY <2>2
    <3>2. \A u \in Swaps : Newest(u, batch) => u = t
      BY <3>1, OneNewest DEF TypeOK
    <3>3. Lost' \subseteq Lost \cup {t}
      BY <2>1, <3>2 DEF Lost, Hopeful, InHand, TypeOK
    <3> QED
      BY <2>1, <3>3, OneLoss
  <2>3. CASE ~\E t \in Swaps : Newest(t, batch)
    <3>1. Lost' \subseteq Lost
      BY <2>1, <2>3 DEF Lost, Hopeful, InHand, TypeOK
    <3> QED
      BY <2>1, <3>1, NoLoss
  <2> QED
    BY <2>2, <2>3
<1>4. CASE Tick \/ FetchBatch \/ EndIteration
  BY <1>1, <1>4 DEF Tick, FetchBatch, HandlePage, EndIteration
<1>5. ASSUME NEW t \in Swaps, CreateTransaction(t) PROVE LossInv'
  <2>1. faults' \in {faults, faults + 1} /\ UNCHANGED <<notices, wallets, unlisted>> /\ pc = "create"
    BY <1>5 DEF CreateTransaction, Fault
  <2>2. CASE stored' = stored \cup {t} /\ pc' = "sync" /\ UNCHANGED batch
    <3>1. Hopeful(t)'
      BY <1>5, <2>2 DEF CreateTransaction, Hopeful, InHand, Newest
    <3>2. Lost' \subseteq Lost
      BY <2>1, <2>2, <3>1 DEF Lost, Hopeful, InHand
    <3> QED
      BY <2>1, <3>2, NoLoss
  <2>3. CASE UNCHANGED stored
    BY <1>1, <2>1, <2>3
  <2> QED
    BY <1>5, <2>2, <2>3 DEF CreateTransaction
<1>6. ASSUME NEW t \in Swaps, SyncBalances(t) PROVE LossInv'
  <2>1. /\ UNCHANGED <<stored, notices, batch>> /\ wallets \subseteq wallets'
        /\ unlisted \subseteq unlisted'
        /\ pc = "sync" /\ pc' = "notify" /\ Newest(t, batch)
    BY <1>6 DEF SyncBalances
  <2>2. \A u \in Swaps : Newest(u, batch) => u = t
    BY <2>1, OneNewest DEF TypeOK
  <2>3. CASE wallets' = wallets \cup {Owner[t]} /\ UNCHANGED faults
    <3>1. Hopeful(t)'
      BY <2>1, <2>3 DEF Hopeful, InHand, Newest, TypeOK
    <3>2. Lost' \subseteq Lost
      BY <2>1, <2>2, <3>1 DEF Lost, Hopeful, InHand, TypeOK
    <3> QED
      BY <2>3, <3>2, NoLoss
  <2>4. CASE /\ unlisted' = IF Owner[t] \in wallets THEN unlisted ELSE unlisted \cup {t}
             /\ UNCHANGED <<wallets, faults>>
    <3>1. Owner[t] \in wallets => Hopeful(t)'
      BY <2>1, <2>4 DEF Hopeful, InHand, Newest, TypeOK
    <3>2. Lost' \subseteq Lost
      BY <2>1, <2>2, <2>4, <3>1 DEF Lost, Hopeful, InHand, TypeOK
    <3> QED
      BY <2>4, <3>2, NoLoss
  <2>5. CASE Fault
    <3>1. Lost' \subseteq Lost \cup {t}
      BY <2>1, <2>2 DEF Lost, Hopeful, InHand, TypeOK
    <3> QED
      BY <2>5, <3>1, OneLoss DEF Fault
  <2> QED
    BY <1>6, <2>3, <2>4, <2>5 DEF SyncBalances
<1>7. ASSUME NEW t \in Swaps, Notify(t) PROVE LossInv'
  <2>1. /\ UNCHANGED <<stored, wallets, unlisted>> /\ faults' \in {faults, faults + 1}
        /\ pc = "notify" /\ Newest(t, batch)
    BY <1>7 DEF Notify, Fault
  <2>2. \A u \in Swaps : Newest(u, batch) => u = t
    BY <2>1, OneNewest DEF TypeOK
  <2>3. CASE notices' = [notices EXCEPT ![t] = @ + 1]
    <3>1. Lost' \subseteq Lost
      BY <2>1, <2>2, <2>3 DEF Lost, Hopeful, InHand, TypeOK
    <3> QED
      BY <2>1, <3>1, NoLoss
  <2>4. CASE Owner[t] \notin wallets /\ UNCHANGED notices
    <3>1. Lost' \subseteq Lost
      BY <2>1, <2>2, <2>4 DEF Lost, Hopeful, InHand, TypeOK
    <3> QED
      BY <2>1, <3>1, NoLoss
  <2>5. CASE Fault /\ UNCHANGED notices
    <3>1. Lost' \subseteq Lost \cup {t}
      BY <2>1, <2>2, <2>5 DEF Lost, Hopeful, InHand, TypeOK
    <3> QED
      BY <2>5, <3>1, OneLoss DEF Fault
  <2> QED
    BY <1>7, <2>3, <2>4, <2>5 DEF Notify
<1>8. ASSUME NEW t \in Swaps, Mail(t) PROVE LossInv'
  BY <1>1, <1>8 DEF Mail, Fault
<1>9. CASE Arrive \/ UNCHANGED vars
  <2>1. UNCHANGED <<stored, notices, wallets, unlisted, batch, pc, faults>>
    BY <1>9 DEF Arrive, vars
  <2>2. Lost' = Lost
    BY <2>1 DEF Lost, Hopeful, InHand, Newest
  <2> QED
    BY <2>1, <2>2, NoLoss
<1> QED
  BY <1>2, <1>3, <1>4, <1>5, <1>6, <1>7, <1>8, <1>9 DEF Next, Poll

\* onTransactions takes up the next swap after an error in any step: one
\* error or crash costs one recorded swap its notification at most, and without
\* one only a sender toncenter did not list, and who had no wallet, hears nothing.
THEOREM LossBounded == Spec => []OneFaultOneLoss
<1>1. TypeOK /\ LossInv => OneFaultOneLoss
  <2> SUFFICES ASSUME TypeOK, LossInv PROVE OneFaultOneLoss
    OBVIOUS
  <2> DEFINE missed == {t \in stored \ unlisted : notices[t] = 0 /\ ~InHand(t)}
  <2>1. missed \subseteq Lost
    BY DEF Lost, Hopeful
  <2>2. IsFiniteSet(missed) /\ Cardinality(missed) <= Cardinality(Lost)
    BY <2>1, FS_Subset DEF LossInv
  <2>3. Cardinality(missed) \in Nat /\ Cardinality(Lost) \in Nat /\ faults \in Nat
    BY <2>2, FS_CardinalityType, TonAssumption DEF LossInv, TypeOK, TonAssumption
  <2> QED
    BY <2>2, <2>3 DEF LossInv, OneFaultOneLoss
<1> QED
  BY <1>1, InitType, NextType, InitLoss, NextLoss, PTL DEF Spec

-------------------------------------------------------------------------------
(* No swap above the base is left behind lastIndexedLt.                     *)

Handled == stored \cup dropped

\* Nothing of the service's is ahead of the account.
BehindHead == lastIndexedLt <= head /\ \A u \in stored : u <= head

\* Where an iteration has got to: the page in hand is empty between pages,
\* and from the cursor up to the start everything is handled or in hand.
\* Since the start was the newest transaction, nothing recorded is above it.
Cursor ==
    /\ pc \in {"down", "idle"} => lt = 0
    /\ pc \in {"down", "idle", "fetch"} => batch = {}
    /\ lt = 0 => iterationStartLt = 0 /\ batch = {}
    /\ lt # 0 => /\ lastIndexedLt < lt /\ lt <= iterationStartLt
                 /\ iterationStartLt <= head
                 /\ \A u \in stored \cup batch : u <= iterationStartLt

SweptToCursor ==
    lt # 0 => \A t \in Swaps :
                 lt <= t /\ t <= iterationStartLt => t \in Handled \cup batch

\* Past createTransaction, the swap in hand is recorded.
InHandStored ==
    pc \in {"sync", "notify", "mail"} =>
        \A t \in Swaps : Newest(t, batch) => t \in stored

\* Between iterations, if none was cut short, what is recorded has no holes,
\* so whichever recorded swap a restart begins from is a sound mark.
NoHoles ==
    pc \in {"down", "idle"} /\ trail = "whole" =>
        \A t \in Swaps, u \in stored : base < t /\ t <= u => t \in Handled

IInv == TypeOK /\ BehindHead /\ Cursor /\ SweptToCursor /\ InHandStored
               /\ NoHoles /\ NoGapAboveBase

LEMMA InitInv == Init => IInv
<1> SUFFICES ASSUME Init PROVE IInv
  OBVIOUS
<1>1. TypeOK
  BY InitType
<1> QED
  BY <1>1, TonAssumption
     DEF Init, IInv, BehindHead, Cursor, SweptToCursor, InHandStored, NoHoles,
         NoGapAboveBase, TonAssumption, Lts

\* Beginning from a recorded swap, or from nothing.
LEMMA BeginInv ==
  ASSUME IInv, TypeOK', NEW l, l = 0 \/ l \in stored, Begin(l)
  PROVE  IInv'
<1> USE TonAssumption DEF TonAssumption, Lts, TypeOK, IInv, Begin, mongoVars, iterVars
<1>1. l \in 0..MaxLt /\ l <= head
  BY DEF BehindHead
<1>2. BehindHead'
  BY <1>1 DEF BehindHead
<1>3. Cursor' /\ SweptToCursor' /\ InHandStored'
  BY DEF Cursor, SweptToCursor, InHandStored
<1>4. NoHoles'
  BY DEF NoHoles, Handled
<1>5. NoGapAboveBase'
  <2>1. CASE trail = "cut"
    <3>1. l <= base'
      BY <1>1, <2>1 DEF MaxOf
    <3> QED
      BY <1>1, <3>1 DEF NoGapAboveBase
  <2>2. CASE trail = "whole"
    <3>1. base' = base /\ lastIndexedLt' = l
      BY <2>2
    <3>2. CASE l = 0
      BY <3>1, <3>2 DEF NoGapAboveBase
    <3>3. CASE l \in stored
      BY <2>2, <3>1, <3>3 DEF NoGapAboveBase, NoHoles, Handled
    <3> QED
      BY <3>2, <3>3
  <2> QED
    BY <2>1, <2>2
<1> QED
  BY <1>2, <1>3, <1>4, <1>5

LEMMA FetchInv == ASSUME IInv, TypeOK', FetchBatch PROVE IInv'
<1> USE TonAssumption DEF TonAssumption, Lts, TypeOK, IInv, mongoVars, ghostVars
<1> PICK page \in SUBSET Remaining :
      /\ IsPage(page)
      /\ \E first, last \in page :
            /\ Newest(first, page)
            /\ Oldest(last, page)
            /\ iterationStartLt' = IF iterationStartLt = 0 THEN first ELSE iterationStartLt
            /\ lt' = last
      /\ HandlePage(page)
  BY DEF FetchBatch
<1> PICK first \in page, last \in page :
      /\ Newest(first, page)
      /\ Oldest(last, page)
      /\ iterationStartLt' = IF iterationStartLt = 0 THEN first ELSE iterationStartLt
      /\ lt' = last
  OBVIOUS
<1>1. /\ pc = "fetch" /\ batch = {}
      /\ UNCHANGED <<head, stored, dropped, trail, base, lastIndexedLt>>
      /\ batch' = page \cap Swaps
      /\ pc' \in {"fetch", "create"} /\ (pc' = "fetch" => batch' = {})
  BY DEF FetchBatch, HandlePage, Cursor
<1>2. \A t \in page : t \in Lts /\ lastIndexedLt < t /\ t <= head /\ (lt # 0 => t < lt)
  BY DEF Remaining
<1>3. first \in Lts /\ last \in Lts /\ last <= first
  BY <1>2 DEF Oldest
<1>4. \A t \in Remaining : last <= t => t \in page
  BY <1>3 DEF IsPage, Remaining
<1>5. CASE lt = 0
  <2>1. iterationStartLt' = first
    BY <1>5 DEF Cursor
  <2>2. head \in Remaining /\ head \in page
    BY <1>2, <1>3, <1>4, <1>5 DEF Remaining
  <2>3. first = head
    BY <1>2, <2>2 DEF Newest
  <2>4. Cursor' /\ BehindHead'
    BY <1>1, <1>2, <1>3, <2>1, <2>3 DEF Cursor, BehindHead
  <2>5. SweptToCursor'
    BY <1>1, <1>2, <1>3, <1>4, <1>5, <2>1, <2>3 DEF SweptToCursor, Remaining
  <2> QED
    BY <1>1, <2>4, <2>5 DEF InHandStored, NoHoles, NoGapAboveBase
<1>6. CASE lt # 0
  <2>1. iterationStartLt' = iterationStartLt
    BY <1>6 DEF Cursor
  <2>2. Cursor' /\ BehindHead'
    BY <1>1, <1>2, <1>3, <1>6, <2>1 DEF Cursor, BehindHead
  <2>3. ASSUME NEW t \in Swaps, last <= t, t <= iterationStartLt
        PROVE  t \in Handled \cup batch'
    <3>1. CASE lt <= t
      BY <1>1, <1>6, <2>3, <3>1 DEF SweptToCursor
    <3>2. CASE t < lt
      <4>1. t \in Remaining
        BY <1>2, <1>3, <1>6, <2>3, <3>2 DEF Remaining, Cursor
      <4> QED
        BY <1>1, <1>4, <2>3, <4>1
    <3> QED
      BY <1>6, <3>1, <3>2
  <2>4. SweptToCursor'
    BY <1>1, <2>1, <2>3 DEF SweptToCursor, Handled
  <2> QED
    BY <1>1, <2>2, <2>4 DEF InHandStored, NoHoles, NoGapAboveBase
<1> QED
  BY <1>5, <1>6

LEMMA EndInv == ASSUME IInv, TypeOK', EndIteration PROVE IInv'
<1> USE TonAssumption DEF TonAssumption, Lts, TypeOK, IInv, mongoVars
<1>1. /\ batch = {} /\ lt' = 0 /\ iterationStartLt' = 0 /\ pc' = "idle"
      /\ UNCHANGED <<head, stored, dropped, base, batch>>
  BY DEF EndIteration, Cursor
<1>2. ASSUME NEW t \in Swaps, lastIndexedLt < t, t <= lastIndexedLt'
      PROVE  t \in Handled
  <2>1. lt # 0 /\ t <= iterationStartLt
    BY <1>2 DEF EndIteration, Cursor
  <2>2. t \notin Remaining
    BY DEF EndIteration
  <2>3. lt <= t
    BY <1>2, <2>1, <2>2 DEF Remaining, Cursor
  <2> QED
    BY <1>1, <2>1, <2>3 DEF SweptToCursor
<1>3. NoGapAboveBase'
  BY <1>1, <1>2 DEF NoGapAboveBase, Handled
<1>4. lastIndexedLt' <= head
  BY DEF EndIteration, BehindHead, Cursor
<1>5. \A u \in stored : u <= lastIndexedLt'
  <2>1. CASE lt # 0
    BY <2>1 DEF EndIteration, Cursor
  <2>2. CASE lt = 0
    <3>1. lastIndexedLt' = lastIndexedLt
      BY <2>2 DEF EndIteration, Cursor
    <3>2. head \notin Remaining
      BY DEF EndIteration
    <3>3. lastIndexedLt = head
      BY <2>2, <3>2 DEF Remaining, BehindHead
    <3> QED
      BY <3>1, <3>3 DEF BehindHead
  <2> QED
    BY <2>1, <2>2
<1>6. NoHoles'
  BY <1>1, <1>3, <1>5 DEF NoHoles, NoGapAboveBase, Handled
<1> QED
  BY <1>1, <1>3, <1>4, <1>6
     DEF BehindHead, Cursor, SweptToCursor, InHandStored

\* A step of onTransactions either goes on with the swap in hand or is done
\* with it, and then the swap is recorded or was dropped.
LEMMA HandlingInv ==
  ASSUME IInv, TypeOK', Handling, InHandStored', NEW t \in Swaps, Newest(t, batch),
         UNCHANGED <<head, lastIndexedLt, trail, base>>,
         stored \subseteq stored', stored' \subseteq stored \cup {t}, dropped \subseteq dropped',
         \/ UNCHANGED iterVars /\ Handling'
         \/ Done(t) /\ t \in Handled'
  PROVE  IInv'
<1> USE TonAssumption DEF TonAssumption, Lts, TypeOK, IInv, iterVars, Handling, Done
<1>1. /\ t \in batch /\ lt # 0 /\ lt' = lt /\ iterationStartLt' = iterationStartLt
      /\ batch' \subseteq batch
      /\ pc' \in {"fetch", "create", "sync", "notify", "mail"}
      /\ (pc' = "fetch" => batch' = {})
  BY DEF Newest, Cursor
<1>2. BehindHead'
  BY <1>1 DEF BehindHead, Cursor
<1>3. Cursor'
  BY <1>1 DEF Cursor
<1>4. \A u \in Handled \cup batch : u \in Handled' \cup batch'
  BY DEF Handled
<1>5. SweptToCursor'
  BY <1>1, <1>4 DEF SweptToCursor
<1>6. NoHoles'
  BY <1>1 DEF NoHoles
<1>7. NoGapAboveBase'
  BY DEF NoGapAboveBase, Handled
<1> QED
  BY <1>2, <1>3, <1>5, <1>6, <1>7

LEMMA NextInv == IInv /\ [Next]_vars => IInv'
<1> SUFFICES ASSUME IInv, [Next]_vars PROVE IInv'
  OBVIOUS
<1> USE DEF mongoVars, iterVars, ghostVars
<1>0. TypeOK /\ TypeOK'
  BY NextType DEF IInv
<1>1. CASE Arrive
  <2> USE <1>1 DEF Arrive
  <2>1. BehindHead' /\ Cursor'
    BY <1>0, TonAssumption DEF IInv, BehindHead, Cursor, TypeOK, TonAssumption, Lts
  <2>2. SweptToCursor' /\ InHandStored' /\ NoHoles' /\ NoGapAboveBase'
    BY DEF IInv, SweptToCursor, InHandStored, NoHoles, NoGapAboveBase, Handled, Newest
  <2> QED
    BY <1>0, <2>1, <2>2 DEF IInv
<1>2. CASE OnModuleInit \/ OnModuleInitFails
  <2>1. PICK l : (l = 0 \/ l \in stored) /\ Begin(l)
    BY <1>2 DEF OnModuleInit, OnModuleInitFails, IsLastTransaction
  <2> QED
    BY <1>0, <2>1, BeginInv
<1>3. CASE Crash
  <2> USE <1>3 DEF Crash
  <2>1. BehindHead' /\ Cursor' /\ SweptToCursor' /\ InHandStored'
    BY <1>0 DEF IInv, BehindHead, Cursor, SweptToCursor, InHandStored, TypeOK
  <2>2. NoHoles'
    BY DEF IInv, NoHoles, Handled
  <2>3. NoGapAboveBase'
    BY <1>0, TonAssumption DEF NoGapAboveBase, TypeOK, TonAssumption, Lts
  <2> QED
    BY <1>0, <2>1, <2>2, <2>3 DEF IInv
<1>4. CASE Tick
  BY <1>0, <1>4 DEF Tick, IInv, BehindHead, Cursor, SweptToCursor, InHandStored,
                    NoHoles, NoGapAboveBase, Handled
<1>5. CASE FetchBatch
  BY <1>0, <1>5, FetchInv
<1>6. CASE EndIteration
  BY <1>0, <1>6, EndInv
<1>7. ASSUME NEW t \in Swaps, CreateTransaction(t) PROVE IInv'
  <2> USE <1>7 DEF CreateTransaction
  <2>1. CASE t \notin stored /\ stored' = stored \cup {t} /\ pc' = "sync"
             /\ UNCHANGED <<iterVars, dropped, faults>>
    <3>1. InHandStored'
      BY <1>0, <2>1, OneNewest DEF InHandStored, Newest, TypeOK
    <3> QED
      BY <1>0, <2>1, <3>1, HandlingInv DEF Handling
  <2>2. CASE UNCHANGED stored /\ Done(t) /\ t \in Handled' /\ dropped \subseteq dropped'
    <3>1. InHandStored'
      BY <2>2 DEF InHandStored, Done
    <3> QED
      BY <1>0, <2>2, <3>1, HandlingInv DEF Handling
  <2> QED
    BY <2>1, <2>2 DEF Handled
<1>8. ASSUME NEW t \in Swaps, SyncBalances(t) PROVE IInv'
  <2> USE <1>8 DEF SyncBalances
  <2>1. InHandStored'
    BY DEF IInv, InHandStored, Newest
  <2> QED
    BY <1>0, <2>1, HandlingInv DEF Handling
<1>9. ASSUME NEW t \in Swaps, Notify(t) \/ Mail(t) PROVE IInv'
  <2> USE <1>9 DEF Notify, Mail
  <2>1. t \in stored /\ Newest(t, batch) /\ Handling /\ UNCHANGED <<stored, dropped>>
    BY DEF IInv, InHandStored, Handling
  <2>2. CASE pc' = "mail" /\ UNCHANGED iterVars
    <3>1. InHandStored'
      BY <2>1, <2>2 DEF IInv, InHandStored, Newest
    <3> QED
      BY <1>0, <2>1, <2>2, <3>1, HandlingInv DEF Handling
  <2>3. CASE Done(t)
    <3>1. InHandStored'
      BY <2>3 DEF InHandStored, Done
    <3> QED
      BY <1>0, <2>1, <2>3, <3>1, HandlingInv DEF Handled
  <2> QED
    BY <2>2, <2>3
<1>10. CASE UNCHANGED vars
  BY <1>10, <1>0 DEF vars, IInv, BehindHead, Cursor, SweptToCursor, InHandStored,
                    NoHoles, NoGapAboveBase, Handled, Newest
<1> QED
  BY <1>1, <1>2, <1>3, <1>4, <1>5, <1>6, <1>7, <1>8, <1>9, <1>10 DEF Next, Poll

\* Whatever the history of the account, the page sizes, the timestamps and
\* the crashes: every swap between the base and lastIndexedLt is recorded,
\* or its createTransaction failed.
THEOREM NothingLeftBehind == Spec => []NoGapAboveBase
<1>1. IInv => NoGapAboveBase
  BY DEF IInv
<1> QED
  BY <1>1, InitInv, NextInv, PTL DEF Spec

-------------------------------------------------------------------------------
(* What is recorded.  parseTransaction finds in a transaction the deal it   *)
(* shows, unless it cannot read it, and none where there is none.           *)

Candidates(tx, op) == {i \in DOMAIN tx.outs : tx.outs[i] = <<>> \/ tx.outs[i][1] = op}

\* Of some positions, one is the first.
LEMMA FirstIndex ==
  ASSUME NEW n \in Nat, NEW S \in SUBSET (1..n), S # {}
  PROVE  \E i \in S : \A j \in S : i <= j
<1> DEFINE Down == {1..i : i \in S}
<1>1. IsWellFoundedOn(StrictSubsetOrdering(1..n), SUBSET (1..n))
  <2>1. IsFiniteSet(1..n)
    BY FS_Interval
  <2> QED
    BY <2>1, FS_FiniteSubsetsOfFinite, FS_StrictSubsetOrderingWellFounded
<1>2. Down \subseteq SUBSET (1..n) /\ Down # {}
  <2>1. \A i \in 1..n : 1..i \subseteq 1..n
    OBVIOUS
  <2> QED
    BY <2>1
<1>3. PICK d \in Down : \A e \in Down : <<e, d>> \notin StrictSubsetOrdering(1..n)
  <2> HIDE DEF Down
  <2> QED
    BY <1>1, <1>2, WFMin
<1>4. PICK i \in S : d = 1..i
  OBVIOUS
<1>5. ASSUME NEW j \in S, j < i PROVE FALSE
  <2>1. i \in 1..i /\ i \notin 1..j /\ 1..j \subseteq 1..i
    BY <1>5
  <2>2. 1..j \in Down /\ 1..j \in SUBSET (1..n) /\ 1..i \in SUBSET (1..n)
    OBVIOUS
  <2>3. <<1..j, 1..i>> \notin StrictSubsetOrdering(1..n)
    BY <1>3, <1>4, <2>2
  <2> QED
    BY <2>1, <2>2, <2>3 DEF StrictSubsetOrdering
<1>6. \A j \in S : i <= j
  <2> SUFFICES ASSUME NEW j \in S PROVE i <= j
    OBVIOUS
  <2>1. i \in Nat /\ j \in Nat /\ ~(j < i)
    BY <1>5
  <2> QED
    BY <2>1
<1> QED
  BY <1>6

\* The search ends at the first message that has the op, or has none.
LEMMA FirstFound ==
  ASSUME NEW tx, Len(tx.outs) \in Nat, DOMAIN tx.outs = 1..Len(tx.outs), NEW op
  PROVE  \/ Candidates(tx, op) = {} /\ FirstOut(tx, op) = <<>>
         \/ \E i \in Candidates(tx, op) :
               /\ FirstOut(tx, op) = tx.outs[i]
               /\ \A j \in Candidates(tx, op) : i <= j
<1> DEFINE first == CHOOSE i \in Candidates(tx, op) : \A j \in Candidates(tx, op) : i <= j
<1>1. FirstOut(tx, op) = IF Candidates(tx, op) = {} THEN <<>> ELSE tx.outs[first]
  BY DEF FirstOut, Candidates
<1>2. Candidates(tx, op) \in SUBSET (1..Len(tx.outs))
  BY DEF Candidates
<1>3. Candidates(tx, op) # {} =>
        first \in Candidates(tx, op) /\ \A j \in Candidates(tx, op) : first <= j
  BY <1>2, FirstIndex
<1> QED
  BY <1>1, <1>3

\* What is found is the one message that pays out, or has no op.
LEMMA FoundPaysOut ==
  ASSUME NEW tx, Len(tx.outs) \in Nat, DOMAIN tx.outs = 1..Len(tx.outs),
         NEW op, NEW out, out = FirstOut(tx, PayOut[op])
  PROVE  /\ out = <<>> \/ \E i \in PayOuts(tx, op) : out = tx.outs[i]
         /\ \A i \in DOMAIN tx.outs :
               PayOuts(tx, op) = {i} /\ ~Unread(tx, op) => out = tx.outs[i]
<1>1. ASSUME NEW i \in Candidates(tx, PayOut[op]), tx.outs[i] # <<>> PROVE i \in PayOuts(tx, op)
  BY <1>1 DEF Candidates, PayOuts
<1>2. out = <<>> \/ \E i \in PayOuts(tx, op) : out = tx.outs[i]
  BY <1>1, FirstFound
<1>3. ASSUME NEW i \in DOMAIN tx.outs, PayOuts(tx, op) = {i}, ~Unread(tx, op)
      PROVE  out = tx.outs[i]
  <2>1. i \in Candidates(tx, PayOut[op]) /\ i \in Int
    BY <1>3 DEF Candidates, PayOuts
  <2>2. PICK k \in Candidates(tx, PayOut[op]) :
             out = tx.outs[k] /\ \A j \in Candidates(tx, PayOut[op]) : k <= j
    BY <2>1, FirstFound
  <2>3. k \in DOMAIN tx.outs /\ k \in Int /\ k <= i
    BY <2>1, <2>2 DEF Candidates
  <2>4. k = i \/ k < i
    BY <2>1, <2>3
  <2>5. CASE tx.outs[k] # <<>>
    BY <1>1, <1>3, <2>2, <2>5
  <2>6. CASE tx.outs[k] = <<>>
    <3>1. ~(k < i)
      BY <1>3, <2>3, <2>6 DEF Unread
    <3> QED
      BY <2>2, <2>4, <3>1
  <2> QED
    BY <2>5, <2>6
<1> QED
  BY <1>2, <1>3

\* parseTransaction makes a document only of a deal, and tells it as it was;
\* and it makes one of each deal it can read.
LEMMA ParsesDeals ==
  ASSUME NEW tx, Len(tx.outs) \in Nat, DOMAIN tx.outs = 1..Len(tx.outs),
         NEW deal, ShowsDeal(tx, deal)
  PROVE  /\ Parse(tx) # None => Tells(Parse(tx), deal)
         /\ ~Unread(tx, deal.type) => Parse(tx) # None
<1>1. /\ IsNotify(tx) /\ tx.body[4] = deal.type /\ deal.type \in VnstOps
      /\ tx.body[3] = deal.inAmount /\ tx.body[5] = deal.fromAddress
      /\ tx.createdAt = deal.timestamp
      /\ deal.inAmount # deal.outAmount /\ deal.fromAddress # NoAddress
  BY DEF ShowsDeal, IsNotify
<1>2. PICK i \in DOMAIN tx.outs :
          /\ PayOuts(tx, deal.type) = {i}
          /\ Len(tx.outs[i]) = 5 /\ tx.outs[i][3] = deal.outAmount
  BY DEF ShowsDeal
<1> DEFINE out == FirstOut(tx, PayOut[deal.type])
           doc == [type |-> deal.type, inAmount |-> tx.body[3], outAmount |-> out[3],
                   fromAddress |-> tx.body[5], toAddress |-> out[5],
                   timestamp |-> tx.createdAt]
<1>3. Parse(tx) = IF Len(out) < 5 \/ NoAddress \in {tx.body[5], out[4], out[5]}
                     \/ out[3] = tx.body[3]
                  THEN None ELSE doc
  BY <1>1 DEF Parse
<1>4. ASSUME Parse(tx) # None PROVE Tells(Parse(tx), deal)
  <2>1. Parse(tx) = doc /\ ~(Len(out) < 5)
    BY <1>3, <1>4
  <2>2. out # <<>>
    BY <2>1
  <2>3. out[3] = deal.outAmount
    BY <1>2, <2>2, FoundPaysOut
  <2> QED
    BY <1>1, <2>1, <2>3 DEF Tells
<1>5. ASSUME ~Unread(tx, deal.type) PROVE Parse(tx) # None
  <2>1. out = tx.outs[i]
    BY <1>2, <1>5, FoundPaysOut
  <2>2. NoAddress \notin {out[4], out[5]}
    BY <1>2, <1>5, <2>1 DEF Unread
  <2>3. Parse(tx) = doc
    BY <1>1, <1>2, <1>3, <2>1, <2>2
  <2>4. doc.type # None.type
    BY <1>1 DEF VnstOps, None
  <2> QED
    BY <2>3, <2>4
<1> QED
  BY <1>4, <1>5

\* It makes none where there is none.
LEMMA ParsesNothingElse ==
  ASSUME NEW tx, Len(tx.outs) \in Nat, DOMAIN tx.outs = 1..Len(tx.outs), NoDeal(tx)
  PROVE  Parse(tx) = None
<1> SUFFICES ASSUME IsNotify(tx), tx.body[4] \in VnstOps PROVE Parse(tx) = None
  BY DEF Parse
<1> DEFINE out == FirstOut(tx, PayOut[tx.body[4]])
<1>1. CASE out = <<>>
  <2>1. Len(out) < 5
    BY <1>1
  <2> QED
    BY <2>1 DEF Parse
<1>2. CASE out # <<>>
  <2>1. out[3] = tx.body[3]
    BY <1>2, FoundPaysOut DEF NoDeal
  <2> QED
    BY <2>1 DEF Parse
<1> QED
  BY <1>1, <1>2

\* The swaps of the poller are the deals it can read.
LEMMA SwapsAreDeals ==
  /\ \A t \in Swaps : t \in DOMAIN Deals /\ Tells(Parse(History[t]), Deals[t])
  /\ \A t \in DOMAIN Deals : ~Unread(History[t], Deals[t].type) => t \in Swaps
<1>1. ASSUME NEW t \in Lts
      PROVE  IF t \in DOMAIN Deals
             THEN /\ Parse(History[t]) # None => Tells(Parse(History[t]), Deals[t])
                  /\ ~Unread(History[t], Deals[t].type) => Parse(History[t]) # None
             ELSE Parse(History[t]) = None
  <2>1. /\ Len(History[t].outs) \in Nat
        /\ DOMAIN History[t].outs = 1..Len(History[t].outs)
        /\ IF t \in DOMAIN Deals THEN ShowsDeal(History[t], Deals[t]) ELSE NoDeal(History[t])
    BY TonDealsAssumption DEF TonDealsAssumption
  <2> QED
    BY <2>1, ParsesDeals, ParsesNothingElse
<1>2. DOMAIN Deals \subseteq Lts /\ Swaps = {t \in Lts : Parse(History[t]) # None}
  BY TonDealsAssumption DEF TonDealsAssumption
<1> QED
  BY <1>1, <1>2

\* The collection tells the deals that happened on chain, with their amounts,
\* their sender and their time, and all of them up to lastIndexedLt but for those
\* dropped with an error, those below the point where a cut iteration was taken
\* up, and those with a message the parser stumbles over.
THEOREM DealsRecorded == Spec => []RecordsDeals
<1>1. TypeOK /\ NoGapAboveBase => RecordsDeals
  BY SwapsAreDeals DEF TypeOK, NoGapAboveBase, RecordsDeals
<1> QED
  BY <1>1, TypeCorrect, NothingLeftBehind, PTL

-------------------------------------------------------------------------------
(* The refinement: every step of the poller is a step of ChainIndex.        *)

LEMMA NextPosition ==
  ASSUME NEW a \in Int, NEW b \in Int
  PROVE  (a + 1 <= b => a < b) /\ (a < b + 1 => a <= b)
  OBVIOUS

LEMMA NextImplements ==
  ASSUME IInv, IInv', [Next]_vars
  PROVE  Index!Next \/ UNCHANGED Index!vars
<1> USE TonAssumption DEF TonAssumption, Lts, TypeOK, mongoVars, iterVars, ghostVars
<1>0. TypeOK /\ TypeOK'
  BY DEF IInv
<1>1. CASE Arrive
  <2>1. lastIndexedLt <= head
    BY DEF IInv, BehindHead
  <2>2. \A t \in Swaps : Position[t] < lastIndexedLt + 1 => (t \in Arrived' <=> t \in Arrived)
    BY <1>0, <1>1, <2>1 DEF Arrive, Position, Arrived
  <2>3. Arrived' \in SUBSET Swaps
    BY DEF Arrived
  <2>4. UNCHANGED <<stored \cup dropped, lastIndexedLt + 1, base + 1>>
    BY <1>1 DEF Arrive
  <2>5. Index!Grow
    BY <2>2, <2>3, <2>4 DEF Index!Grow
  <2> QED
    BY <2>5 DEF Index!Next
<1>2. ASSUME UNCHANGED <<head, stored, dropped>>, base <= base' PROVE Index!Next
  <2>1. NoGapAboveBase'
    BY DEF IInv
  <2>2. ASSUME NEW t \in Swaps, base' + 1 <= t, t < lastIndexedLt' + 1
        PROVE  t \in (stored \cup dropped)'
    <3>1. t \in Int /\ lastIndexedLt' \in Int /\ base' \in Int
      BY <1>0
    <3>2. base' < t /\ t <= lastIndexedLt'
      BY <2>2, <3>1, NextPosition
    <3> QED
      BY <2>1, <3>2 DEF NoGapAboveBase
  <2>3. Index!Complete'
    <3>1. \A t \in Swaps : Position[t] = t
      BY DEF Position
    <3> QED
      BY <2>2, <3>1 DEF Index!Complete, Arrived
  <2>4. Arrived' = Arrived
    BY <1>2 DEF Arrived
  <2>5. lastIndexedLt' + 1 \in Int /\ base' + 1 \in Int /\ base + 1 <= base' + 1
    <3>1. {lastIndexedLt', base, base'} \subseteq Int
      BY <1>0
    <3> QED
      BY <1>2, <3>1
  <2>6. Index!Move
    BY <1>2, <2>3, <2>4, <2>5 DEF Index!Move
  <2> QED
    BY <2>6 DEF Index!Next
<1>3. CASE OnModuleInit \/ OnModuleInitFails
  <2>1. PICK l : (l = 0 \/ l \in stored) /\ Begin(l)
    BY <1>3 DEF OnModuleInit, OnModuleInitFails, IsLastTransaction
  <2>2. base <= base'
    BY <1>0, <2>1 DEF Begin, MaxOf
  <2> QED
    BY <1>2, <2>1, <2>2 DEF Begin
<1>4. CASE Crash \/ Tick \/ EndIteration \/ FetchBatch
  BY <1>0, <1>2, <1>4 DEF Crash, Tick, EndIteration, FetchBatch, HandlePage
<1>5. ASSUME NEW t \in Swaps, CreateTransaction(t) PROVE Index!Next
  <2>1. stored \subseteq stored' /\ dropped \subseteq dropped' /\ UNCHANGED <<head, lastIndexedLt, base>>
    BY <1>5 DEF CreateTransaction
  <2>2. Arrived' = Arrived
    BY <2>1 DEF Arrived
  <2>3. Index!Take
    BY <1>0, <2>1, <2>2 DEF Index!Take
  <2> QED
    BY <2>3 DEF Index!Next
<1>6. ASSUME UNCHANGED <<head, stored, dropped, lastIndexedLt, base>>
      PROVE  UNCHANGED Index!vars
  <2>1. Arrived' = Arrived
    BY <1>6 DEF Arrived
  <2> QED
    BY <1>6, <2>1 DEF Index!vars
<1>7. ASSUME NEW t \in Swaps, SyncBalances(t) \/ Notify(t) \/ Mail(t)
      PROVE  UNCHANGED Index!vars
  BY <1>6, <1>7 DEF SyncBalances, Notify, Mail
<1>8. CASE UNCHANGED vars
  BY <1>6, <1>8 DEF vars
<1> QED
  BY <1>1, <1>3, <1>4, <1>5, <1>7, <1>8 DEF Next, Poll

\* The poller implements the abstract indexer, whatever the history of the
\* account and however often the process dies.
THEOREM PollerImplementsChainIndex == Spec => ImplementsChainIndex
<1>1. Init => Index!Init
  <2> SUFFICES ASSUME Init PROVE Index!Init
    OBVIOUS
  <2>1. ASSUME NEW t \in Swaps PROVE ~(t <= 0)
    BY TonAssumption DEF TonAssumption, Lts
  <2>2. Arrived = {}
    BY <2>1 DEF Init, Arrived
  <2> QED
    BY <2>2 DEF Init, Index!Init
<1>2. IInv /\ IInv' /\ [Next]_vars => [Index!Next]_Index!vars
  BY NextImplements
<1> QED
  BY <1>1, <1>2, InitInv, NextInv, PTL DEF Spec, ImplementsChainIndex, Index!Spec
===============================================================================

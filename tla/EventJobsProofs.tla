---------------------------- MODULE EventJobsProofs ----------------------------
(***************************************************************************)
(* Proofs about EventJobs, for any jobs, events, owners, number of slots,  *)
(* errors and crashes: types and the width of the queue; that a swap is    *)
(* announced once at most, and how often it can go without; that refreshes *)
(* leave a balance no older than asked for; that a new owner is heard of.  *)
(***************************************************************************)
EXTENDS EventJobs, FiniteSetTheorems, TLAPS

-------------------------------------------------------------------------------
(* Types.  What is queued waits, once, so that a job a slot takes was not   *)
(* running already; each kind of job keeps to its own steps.                *)

Queued ==
    /\ \A i \in DOMAIN waiting : step[waiting[i]] = "wait"
    /\ \A i, k \in DOMAIN waiting : waiting[i] = waiting[k] => i = k

OwnSteps ==
    /\ \A j \in InsertJobs : step[j] \notin BalanceSteps
    /\ \A j \in BalanceJobs : step[j] \notin InsertSteps
    /\ \A j \in BalanceJobs : step[j] \in BalanceSteps => AddrOf[j] # ZeroAddress
    /\ \A j \in InsertJobs : step[j] \in {"find", "notify", "mail"} => EventOf[j] \in Swaps

\* A job that was found stalled twice has failed.
StalledOnce == \A j \in Jobs : step[j] # "failed" => stalls[j] <= 1

Steps ==
    InsertSteps \cup BalanceSteps \cup {"absent", "wait", "finish", "stalled", "completed", "failed"}

StepInv == step \in [Jobs -> Steps] /\ Queued /\ OwnSteps /\ StalledOnce

\* The types of the other variables.
Typed ==
    /\ balance \in [Addrs -> 0..MaxBalance]
    /\ waiting \in Seq(Jobs)
    /\ stalls \in [Jobs -> 0..2]
    /\ read \in [BalanceJobs -> 0..MaxBalance]
    /\ stored \in SUBSET Events
    /\ wallet \in [Addrs -> {NoWallet} \cup 0..MaxBalance]
    /\ notices \in [Swaps -> Nat]
    /\ mails \in [Swaps -> Nat]
    /\ asked \in [Addrs -> {NoWallet} \cup 0..MaxBalance]
    /\ overlapped \in SUBSET Addrs
    /\ late \in SUBSET Swaps
    /\ faults \in 0..MaxFaults
    /\ crashes \in 0..MaxCrashes

Width == IsFiniteSet(Running) /\ Cardinality(Running) <= Slots

Inv == Typed /\ StepInv

LEMMA InvType == Inv /\ Width => TypeOK
  BY DEF Inv, Typed, StepInv, Steps, OwnSteps, Width, TypeOK

LEMMA InitInv == Init => Inv
  BY JobsAssumption DEF Init, Inv, Typed, StepInv, Steps, Queued, OwnSteps, StalledOnce,
     JobsAssumption, NoWallet, InsertSteps, BalanceSteps, Jobs

\* A handler's step moves its job from a running step to another, or ends it.
LEMMA MovesOn ==
  ASSUME Inv, NEW j \in Jobs, step[j] \notin {"wait", "failed"},
         NEW s \in InsertSteps \cup BalanceSteps \cup {"finish", "completed", "failed"},
         j \in InsertJobs => s \notin BalanceSteps,
         j \in BalanceJobs => s \notin InsertSteps,
         j \in BalanceJobs /\ s \in BalanceSteps => AddrOf[j] # ZeroAddress,
         j \in InsertJobs /\ s \in {"find", "notify", "mail"} => EventOf[j] \in Swaps,
         Goto(j, s), UNCHANGED queueVars
  PROVE  StepInv'
<1> USE DEF Inv, Goto, queueVars, StepInv
<1>1. step' \in [Jobs -> Steps]
  BY DEF Steps
<1>2. Queued'
  BY DEF Queued, InsertSteps, BalanceSteps, Typed
<1>3. OwnSteps'
  BY DEF OwnSteps, Jobs
<1>4. StalledOnce'
  BY DEF StalledOnce
<1> QED
  BY <1>1, <1>2, <1>3, <1>4

\* A step that leaves the queue alone.
LEMMA StandsStill == StepInv /\ UNCHANGED <<step, queueVars>> => StepInv'
  BY DEF StepInv, Queued, OwnSteps, StalledOnce, queueVars

LEMMA NextInv == Inv /\ [Next]_vars => Inv'
<1> SUFFICES ASSUME Inv, [Next]_vars PROVE Inv'
  OBVIOUS
<1> USE JobsAssumption DEF JobsAssumption, bounds, ghostVars
<1>1. ASSUME NEW a \in Addrs, Transfer(a) PROVE Inv'
  <2>1. StepInv'
    BY <1>1, StandsStill DEF Transfer, Inv
  <2>2. Typed'
    BY <1>1 DEF Transfer, Inv, Typed, queueVars, mongoVars
  <2> QED
    BY <2>1, <2>2 DEF Inv
<1>2. ASSUME NEW a \in Addrs, SignUp(a) PROVE Inv'
  <2>1. StepInv'
    BY <1>2, StandsStill DEF SignUp, Inv
  <2>2. Typed'
    BY <1>2 DEF SignUp, Inv, Typed, queueVars, NoWallet
  <2> QED
    BY <2>1, <2>2 DEF Inv
<1>3. ASSUME NEW j \in Jobs, Add(j) PROVE Inv'
  <2>1. Typed'
    BY <1>3 DEF Add, Inv, Typed, mongoVars
  <2>2. /\ DOMAIN waiting' = 1..(Len(waiting) + 1) /\ DOMAIN waiting = 1..Len(waiting)
        /\ Len(waiting) \in Nat
        /\ \A i \in DOMAIN waiting : waiting'[i] = waiting[i]
        /\ waiting'[Len(waiting) + 1] = j
    BY <1>3 DEF Add, Inv, Typed
  <2>3. Queued'
    BY <1>3, <2>2 DEF Add, Goto, Inv, StepInv, Queued
  <2>4. OwnSteps'
    BY <1>3 DEF Add, Goto, Inv, StepInv, OwnSteps, Jobs, InsertSteps, BalanceSteps
  <2>5. StalledOnce'
    BY <1>3 DEF Add, Goto, Inv, StepInv, StalledOnce
  <2>6. step' \in [Jobs -> Steps]
    BY <1>3 DEF Add, Goto, Inv, StepInv, Steps
  <2> QED
    BY <2>1, <2>3, <2>4, <2>5, <2>6 DEF Inv, StepInv
<1>4. ASSUME NEW j \in InsertJobs, Upsert(j) PROVE Inv'
  <2>1. j \in Jobs /\ EventOf[j] \in Events
    BY DEF Events, Jobs
  <2>2. PICK s \in {"find", "finish", "failed"} : Goto(j, s) /\ (s = "find" => EventOf[j] \in Swaps)
    BY <1>4 DEF Upsert
  <2>3. StepInv'
    BY <1>4, <2>1, <2>2, MovesOn DEF Upsert, InsertSteps, BalanceSteps
  <2>4. Typed'
    BY <1>4, <2>1 DEF Upsert, Inv, Typed, queueVars, Fault
  <2> QED
    BY <2>3, <2>4 DEF Inv
<1>5. ASSUME NEW j \in InsertJobs, FindWallet(j) PROVE Inv'
  <2>1. j \in Jobs /\ EventOf[j] \in Swaps
    BY <1>5 DEF FindWallet, Inv, StepInv, OwnSteps, Jobs
  <2>2. PICK s \in {"notify", "finish"} : Goto(j, s)
    BY <1>5 DEF FindWallet
  <2>3. StepInv'
    BY <1>5, <2>1, <2>2, MovesOn DEF FindWallet, InsertSteps, BalanceSteps
  <2>4. faults' \in 0..MaxFaults /\ crashes' = crashes
    BY <1>5 DEF FindWallet, Inv, Typed, Fault
  <2>5. late' \in SUBSET Swaps /\ UNCHANGED <<notices, mails>>
    BY <1>5, <2>1 DEF FindWallet, Inv, Typed, mongoVars
  <2>6. Typed'
    BY <1>5, <2>4, <2>5 DEF FindWallet, Inv, Typed, queueVars, mongoVars
  <2> QED
    BY <2>3, <2>6 DEF Inv
<1>6. ASSUME NEW j \in InsertJobs, CreateNotification(j) PROVE Inv'
  <2>1. j \in Jobs /\ EventOf[j] \in Swaps
    BY <1>6 DEF CreateNotification, Inv, StepInv, OwnSteps, Jobs
  <2>2. PICK s \in {"mail", "finish"} : Goto(j, s)
    BY <1>6 DEF CreateNotification
  <2>3. StepInv'
    BY <1>6, <2>1, <2>2, MovesOn DEF CreateNotification, InsertSteps, BalanceSteps
  <2>4. faults' \in 0..MaxFaults /\ crashes' = crashes
    BY <1>6 DEF CreateNotification, Inv, Typed, Fault
  <2>5. notices' \in [Swaps -> Nat] /\ UNCHANGED <<late, mails>>
    <3>1. notices \in [Swaps -> Nat]
      BY DEF Inv, Typed
    <3>2. notices' = [notices EXCEPT ![EventOf[j]] = @ + 1] \/ notices' = notices
      BY <1>6 DEF CreateNotification
    <3> QED
      BY <1>6, <2>1, <3>1, <3>2 DEF CreateNotification, mongoVars
  <2>6. Typed'
    BY <1>6, <2>4, <2>5 DEF CreateNotification, Inv, Typed, queueVars, mongoVars
  <2> QED
    BY <2>3, <2>6 DEF Inv
<1>7. ASSUME NEW j \in InsertJobs, SendEmail(j) PROVE Inv'
  <2>1. j \in Jobs /\ EventOf[j] \in Swaps
    BY <1>7 DEF SendEmail, Inv, StepInv, OwnSteps, Jobs
  <2>2. PICK s \in {"finish"} : Goto(j, s)
    BY <1>7 DEF SendEmail
  <2>3. StepInv'
    BY <1>7, <2>1, <2>2, MovesOn DEF SendEmail, InsertSteps, BalanceSteps
  <2>4. faults' \in 0..MaxFaults /\ crashes' = crashes
    BY <1>7 DEF SendEmail, Inv, Typed, Fault
  <2>5. mails' \in [Swaps -> Nat] /\ UNCHANGED <<late, notices>>
    <3>1. mails \in [Swaps -> Nat]
      BY DEF Inv, Typed
    <3>2. mails' = [mails EXCEPT ![EventOf[j]] = @ + 1] \/ mails' = mails
      BY <1>7 DEF SendEmail
    <3> QED
      BY <1>7, <2>1, <3>1, <3>2 DEF SendEmail, mongoVars
  <2>6. Typed'
    BY <1>7, <2>4, <2>5 DEF SendEmail, Inv, Typed, queueVars, mongoVars
  <2> QED
    BY <2>3, <2>6 DEF Inv
<1>8. ASSUME NEW j \in BalanceJobs, GetBalance(j) PROVE Inv'
  <2>1. j \in Jobs /\ AddrOf[j] # ZeroAddress
    BY <1>8 DEF GetBalance, Inv, StepInv, OwnSteps, Jobs, BalanceSteps
  <2>2. PICK s \in {"lookup"} : Goto(j, s)
    BY <1>8 DEF GetBalance
  <2>3. StepInv'
    BY <1>8, <2>1, <2>2, MovesOn DEF GetBalance, InsertSteps, BalanceSteps
  <2>4. Typed'
    BY <1>8, <2>1 DEF GetBalance, Inv, Typed, queueVars, mongoVars
  <2> QED
    BY <2>3, <2>4 DEF Inv
<1>9. ASSUME NEW j \in BalanceJobs, FindHolder(j) PROVE Inv'
  <2>1. j \in Jobs /\ AddrOf[j] # ZeroAddress
    BY <1>9 DEF FindHolder, Inv, StepInv, OwnSteps, Jobs, BalanceSteps
  <2>2. PICK s \in {"create", "finish", "save"} : Goto(j, s)
    BY <1>9 DEF FindHolder
  <2>3. StepInv'
    BY <1>9, <2>1, <2>2, MovesOn DEF FindHolder, InsertSteps, BalanceSteps
  <2>4. Typed'
    BY <1>9, <2>1 DEF FindHolder, Inv, Typed, queueVars, mongoVars
  <2> QED
    BY <2>3, <2>4 DEF Inv
<1>10. ASSUME NEW j \in BalanceJobs, SaveBalance(j) PROVE Inv'
  <2>1. j \in Jobs /\ AddrOf[j] # ZeroAddress
    BY <1>10 DEF SaveBalance, Inv, StepInv, OwnSteps, Jobs, BalanceSteps
  <2>2. PICK s \in {"finish"} : Goto(j, s)
    BY <1>10 DEF SaveBalance
  <2>3. StepInv'
    BY <1>10, <2>1, <2>2, MovesOn DEF SaveBalance, InsertSteps, BalanceSteps
  <2>4. Typed'
    BY <1>10, <2>1 DEF SaveBalance, Inv, Typed, queueVars, mongoVars
  <2> QED
    BY <2>3, <2>4 DEF Inv
<1>11. ASSUME NEW j \in BalanceJobs, CreateWallet(j) PROVE Inv'
  <2>1. j \in Jobs /\ AddrOf[j] # ZeroAddress
    BY <1>11 DEF CreateWallet, Inv, StepInv, OwnSteps, Jobs, BalanceSteps
  <2>2. PICK s \in {"finish"} : Goto(j, s)
    BY <1>11 DEF CreateWallet
  <2>3. StepInv'
    BY <1>11, <2>1, <2>2, MovesOn DEF CreateWallet, InsertSteps, BalanceSteps
  <2>4. Typed'
    BY <1>11, <2>1 DEF CreateWallet, Inv, Typed, queueVars, mongoVars
  <2> QED
    BY <2>3, <2>4 DEF Inv
<1>12. ASSUME NEW j \in Jobs, Complete(j) PROVE Inv'
  <2>1. StepInv'
    BY <1>12, MovesOn DEF Complete, InsertSteps, BalanceSteps
  <2>2. Typed'
    BY <1>12 DEF Complete, Inv, Typed, queueVars, mongoVars
  <2> QED
    BY <2>1, <2>2 DEF Inv
<1>13. ASSUME NEW j \in Jobs, Recover(j) PROVE Inv'
  <2> stalls[j] \in 0..2 /\ step[j] = "stalled"
    BY <1>13 DEF Recover, Inv, Typed
  <2>1. CASE stalls[j] < 1
    <3>1. waiting' = <<j>> \o waiting /\ Goto(j, "wait")
      BY <1>13, <2>1 DEF Recover
    <3>2. /\ DOMAIN waiting' = 1..(Len(waiting) + 1) /\ DOMAIN waiting = 1..Len(waiting)
          /\ Len(waiting) \in Nat
          /\ waiting'[1] = j
          /\ \A i \in DOMAIN waiting' : i # 1 => i - 1 \in DOMAIN waiting /\ waiting'[i] = waiting[i - 1]
          /\ waiting' \in Seq(Jobs)
      BY <3>1 DEF Inv, Typed
    <3>3. Typed'
      <4>1. stalls' \in [Jobs -> 0..2]
        BY <1>13, <2>1 DEF Recover, Inv, Typed
      <4> QED
        BY <1>13, <3>2, <4>1 DEF Recover, Inv, Typed, mongoVars
    <3>4. \A i \in DOMAIN waiting : waiting[i] # j
      BY <1>13 DEF Recover, Inv, StepInv, Queued
    <3>5. Queued'
      BY <3>1, <3>2, <3>4 DEF Goto, Inv, StepInv, Queued
    <3>6. OwnSteps'
      BY <3>1 DEF Goto, Inv, StepInv, OwnSteps, Jobs, InsertSteps, BalanceSteps
    <3>7. StalledOnce'
      BY <1>13, <2>1, <3>1 DEF Recover, Goto, Inv, Typed, StepInv, StalledOnce
    <3>8. step' \in [Jobs -> Steps]
      BY <3>1 DEF Goto, Inv, StepInv, Steps
    <3> QED
      BY <3>3, <3>5, <3>6, <3>7, <3>8 DEF Inv, StepInv
  <2>2. CASE stalls[j] >= 1
    <3>1. Goto(j, "failed") /\ stalls' = [stalls EXCEPT ![j] = @ + 1] /\ UNCHANGED waiting
      BY <1>13, <2>2 DEF Recover
    <3>2. stalls[j] = 1
      BY <2>2 DEF Inv, StepInv, StalledOnce
    <3>3. Typed'
      BY <1>13, <3>1, <3>2 DEF Recover, Inv, Typed, mongoVars
    <3>4. Queued'
      BY <1>13, <3>1 DEF Recover, Goto, Inv, StepInv, Queued
    <3>5. OwnSteps'
      BY <3>1 DEF Goto, Inv, StepInv, OwnSteps, Jobs, InsertSteps, BalanceSteps
    <3>6. StalledOnce'
      BY <3>1 DEF Goto, Inv, Typed, StepInv, StalledOnce
    <3>7. step' \in [Jobs -> Steps]
      BY <3>1 DEF Goto, Inv, StepInv, Steps
    <3> QED
      BY <3>3, <3>4, <3>5, <3>6, <3>7 DEF Inv, StepInv
  <2> QED
    BY <2>1, <2>2
<1>14. ASSUME NEW j \in BalanceJobs, UpdateFails(j) PROVE Inv'
  <2>1. j \in Jobs /\ Goto(j, "finish")
    BY <1>14 DEF UpdateFails, Jobs
  <2>2. StepInv'
    BY <1>14, <2>1, MovesOn DEF UpdateFails, InsertSteps, BalanceSteps
  <2>3. Typed'
    BY <1>14 DEF UpdateFails, Fault, Inv, Typed, queueVars, mongoVars
  <2> QED
    BY <2>2, <2>3 DEF Inv
<1>15. CASE Take
  <2> DEFINE j == Head(waiting)
  <2>1. /\ j \in Jobs /\ j = waiting[1] /\ 1 \in DOMAIN waiting
        /\ waiting' = Tail(waiting) /\ waiting' \in Seq(Jobs)
        /\ DOMAIN waiting' = 1..(Len(waiting) - 1) /\ DOMAIN waiting = 1..Len(waiting)
        /\ Len(waiting) \in Nat
        /\ \A i \in DOMAIN waiting' : i + 1 \in DOMAIN waiting /\ waiting'[i] = waiting[i + 1]
    BY <1>15 DEF Take, Inv, Typed
  <2>2. PICK s \in {"upsert", "finish", "balance"} :
           /\ Goto(j, s)
           /\ s = "upsert" => j \in InsertJobs
           /\ s = "balance" => j \in BalanceJobs /\ AddrOf[j] # ZeroAddress
    BY <1>15, <2>1 DEF Take, Jobs
  <2>3. Typed'
    BY <1>15, <2>1, <2>2 DEF Take, Inv, Typed, mongoVars, Jobs
  <2>4. \A i \in DOMAIN waiting' : waiting'[i] # j
    BY <2>1 DEF Inv, StepInv, Queued
  <2>5. Queued'
    BY <2>1, <2>2, <2>4 DEF Goto, Inv, StepInv, Queued
  <2>6. OwnSteps'
    BY <2>1, <2>2 DEF Goto, Inv, StepInv, OwnSteps, Jobs, InsertSteps, BalanceSteps
  <2>7. StalledOnce'
    BY <1>15, <2>1, <2>2 DEF Take, Goto, Inv, StepInv, Queued, StalledOnce
  <2>8. step' \in [Jobs -> Steps]
    BY <2>1, <2>2 DEF Goto, Inv, StepInv, Steps, InsertSteps, BalanceSteps
  <2> QED
    BY <2>3, <2>5, <2>6, <2>7, <2>8 DEF Inv, StepInv
<1>16. CASE Crash
  <2>1. Typed'
    BY <1>16 DEF Crash, Inv, Typed, queueVars, mongoVars
  <2>2. step' \in [Jobs -> Steps]
    BY <1>16 DEF Crash, Inv, StepInv, Steps
  <2>3. Queued'
    BY <1>16 DEF Crash, Inv, Typed, StepInv, Queued, queueVars, Running, InsertSteps, BalanceSteps
  <2>4. OwnSteps'
    BY <1>16 DEF Crash, Inv, StepInv, OwnSteps, InsertSteps, BalanceSteps, Jobs
  <2>5. StalledOnce'
    BY <1>16 DEF Crash, Inv, StepInv, StalledOnce, queueVars, Running, InsertSteps, BalanceSteps
  <2> QED
    BY <2>1, <2>2, <2>3, <2>4, <2>5 DEF Inv, StepInv
<1>17. CASE UNCHANGED vars
  BY <1>17, StandsStill DEF vars, Inv, Typed, queueVars, mongoVars
<1> QED
  BY <1>1, <1>2, <1>3, <1>4, <1>5, <1>6, <1>7, <1>8, <1>9, <1>10, <1>11, <1>12, <1>13, <1>14,
     <1>15, <1>16, <1>17 DEF Next, Handle, Jobs

-------------------------------------------------------------------------------
(* The width: only Take makes a job run that did not.                       *)

LEMMA InitWidth == Init => Width
<1> SUFFICES ASSUME Init PROVE Width
  OBVIOUS
<1>1. Running = {}
  BY DEF Init, Running, InsertSteps, BalanceSteps
<1> QED
  BY <1>1, FS_EmptySet, JobsAssumption DEF Width, JobsAssumption

LEMMA NoWider ==
  ASSUME Width, Running' \subseteq Running
  PROVE  Width'
<1>1. IsFiniteSet(Running') /\ Cardinality(Running') <= Cardinality(Running)
  BY FS_Subset DEF Width
<1>2. Cardinality(Running) \in Nat /\ Cardinality(Running') \in Nat /\ Slots \in Nat
  BY <1>1, FS_CardinalityType, JobsAssumption DEF Width, JobsAssumption
<1> QED
  BY <1>1, <1>2 DEF Width

\* A job that runs and goes on, or ends.
LEMMA KeepsSlot ==
  ASSUME Inv, Width, NEW j \in Running, NEW s, Goto(j, s)
  PROVE  Width'
<1>1. Running' \subseteq Running
  BY DEF Inv, StepInv, Goto, Running, InsertSteps, BalanceSteps
<1> QED
  BY <1>1, NoWider

LEMMA NextWidth == Inv /\ Width /\ [Next]_vars => Width'
<1> SUFFICES ASSUME Inv, Width, [Next]_vars PROVE Width'
  OBVIOUS
<1>1. CASE UNCHANGED step
  BY <1>1, NoWider DEF Running
<1>2. ASSUME NEW j \in Jobs, Add(j) PROVE Width'
  BY <1>2, NoWider DEF Add, Goto, Inv, StepInv, Running, InsertSteps, BalanceSteps
<1>3. ASSUME NEW j \in Jobs, Handle(j) PROVE Width'
  <2>1. j \in Running
    BY <1>3 DEF Handle, Running, InsertSteps, BalanceSteps, Upsert, FindWallet, CreateNotification,
       SendEmail, GetBalance, FindHolder, SaveBalance, CreateWallet, Complete
  <2>2. PICK s : Goto(j, s)
    BY <1>3 DEF Handle, Upsert, FindWallet, CreateNotification, SendEmail, GetBalance,
       FindHolder, SaveBalance, CreateWallet, Complete
  <2> QED
    BY <2>1, <2>2, KeepsSlot
<1>4. ASSUME NEW j \in Jobs, Recover(j) PROVE Width'
  <2>1. PICK s \in {"wait", "failed"} : Goto(j, s)
    BY <1>4 DEF Recover
  <2> QED
    BY <2>1, NoWider DEF Goto, Inv, StepInv, Running, InsertSteps, BalanceSteps
<1>5. ASSUME NEW j \in BalanceJobs, UpdateFails(j) PROVE Width'
  BY <1>5, KeepsSlot DEF UpdateFails, Running, Jobs
<1>6. CASE Take
  <2>1. PICK s : Goto(Head(waiting), s)
    BY <1>6 DEF Take
  <2>2. Running' \subseteq Running \cup {Head(waiting)}
    BY <2>1 DEF Goto, Inv, StepInv, Running, InsertSteps, BalanceSteps
  <2>3. /\ IsFiniteSet(Running \cup {Head(waiting)})
        /\ Cardinality(Running \cup {Head(waiting)}) <= Cardinality(Running) + 1
    <3>1. IsFiniteSet(Running) /\ Cardinality(Running) \in Nat
      BY FS_CardinalityType DEF Width
    <3>2. /\ IsFiniteSet(Running \cup {Head(waiting)})
          /\ Cardinality(Running \cup {Head(waiting)}) =
               IF Head(waiting) \in Running THEN Cardinality(Running) ELSE Cardinality(Running) + 1
      BY <3>1, FS_AddElement
    <3> QED
      BY <3>1, <3>2
  <2>4. /\ IsFiniteSet(Running')
        /\ Cardinality(Running') <= Cardinality(Running \cup {Head(waiting)})
    BY <2>2, <2>3, FS_Subset
  <2>5. /\ Cardinality(Running) \in Nat /\ Cardinality(Running') \in Nat
        /\ Cardinality(Running \cup {Head(waiting)}) \in Nat /\ Slots \in Nat
    BY <2>3, <2>4, FS_CardinalityType, JobsAssumption DEF Width, JobsAssumption
  <2>6. Cardinality(Running) < Slots
    BY <1>6 DEF Take
  <2> QED
    BY <2>3, <2>4, <2>5, <2>6 DEF Width
<1>7. CASE Crash
  <2>1. Running' \subseteq Running
    BY <1>7 DEF Crash, Inv, StepInv, Running, InsertSteps, BalanceSteps
  <2> QED
    BY <2>1, NoWider
<1> QED
  BY <1>1, <1>2, <1>3, <1>4, <1>5, <1>6, <1>7 DEF Next, Transfer, SignUp, vars

\* Every variable keeps its type, and the queue never runs more jobs than it
\* has slots.
THEOREM TypeCorrect == Spec => []TypeOK
<1>1. Init => Inv /\ Width
  BY InitInv, InitWidth
<1>2. Inv /\ Width /\ [Next]_vars => Inv' /\ Width'
  BY NextInv, NextWidth
<1> QED
  BY <1>1, <1>2, InvType, PTL DEF Spec

-------------------------------------------------------------------------------
(* Announced once.  The upsert lets one job of a swap through, ever: until  *)
(* it has notified nobody has, and before it mails nobody has mailed.       *)

Announcing == {"find", "notify", "mail"}

Announced ==
    /\ \A e \in Swaps : e \notin stored => notices[e] = 0 /\ mails[e] = 0
    /\ \A j \in InsertJobs : step[j] \in Announcing => EventOf[j] \in stored
    /\ \A j, k \in InsertJobs :
          EventOf[j] = EventOf[k] /\ step[j] \in Announcing /\ step[k] \in Announcing => j = k
    /\ \A j \in InsertJobs :
          /\ step[j] \in {"find", "notify"} => notices[EventOf[j]] = 0 /\ mails[EventOf[j]] = 0
          /\ step[j] = "mail" => notices[EventOf[j]] = 1 /\ mails[EventOf[j]] = 0

AnnInv == Announced /\ AnnouncedOnce

LEMMA InitAnn == Init => AnnInv
  BY JobsAssumption DEF Init, AnnInv, Announced, AnnouncedOnce, JobsAssumption, Jobs, Announcing

\* A step that records and announces nothing, and lets no job through.
LEMMA NotAnnouncing ==
  ASSUME AnnInv, UNCHANGED <<stored, notices, mails>>,
         \A j \in InsertJobs :
            /\ step'[j] \in {"find", "notify"} => step[j] \in {"find", "notify"}
            /\ step'[j] = "mail" => step[j] = "mail"
  PROVE  AnnInv'
  BY DEF AnnInv, Announced, AnnouncedOnce, Announcing

LEMMA NextAnn == Inv /\ AnnInv /\ [Next]_vars => AnnInv'
<1> SUFFICES ASSUME Inv, AnnInv, [Next]_vars PROVE AnnInv'
  OBVIOUS
<1> step \in [Jobs -> Steps] /\ InsertJobs \subseteq Jobs /\ BalanceJobs \subseteq Jobs
  BY DEF Inv, StepInv, Jobs
<1> notices \in [Swaps -> Nat] /\ mails \in [Swaps -> Nat]
  BY DEF Inv, Typed
<1> USE DEF mongoVars
<1>1. CASE UNCHANGED <<step, stored, notices, mails>>
  BY <1>1, NotAnnouncing
<1>2. ASSUME NEW j \in Jobs, Add(j) PROVE AnnInv'
  BY <1>2, NotAnnouncing DEF Add, Goto
<1>3. ASSUME NEW j \in InsertJobs, Upsert(j) PROVE AnnInv'
  <2>1. CASE step' = [step EXCEPT ![j] = "failed"] /\ UNCHANGED stored
    BY <1>3, <2>1, NotAnnouncing DEF Upsert
  <2>2. CASE /\ step' = [step EXCEPT ![j] = "finish"]
             /\ EventOf[j] \notin Swaps \/ EventOf[j] \in stored
             /\ stored' = stored \cup {EventOf[j]}
    BY <1>3, <2>2 DEF Upsert, AnnInv, Announced, AnnouncedOnce, Announcing
  <2>3. CASE /\ step' = [step EXCEPT ![j] = "find"]
             /\ EventOf[j] \in Swaps \ stored
             /\ stored' = stored \cup {EventOf[j]}
    <3>1. Announced'
      BY <1>3, <2>3 DEF Upsert, AnnInv, Announced, Announcing
    <3>2. AnnouncedOnce'
      BY <1>3, <2>3 DEF Upsert, AnnInv, AnnouncedOnce
    <3> QED
      BY <3>1, <3>2 DEF AnnInv
  <2> QED
    BY <1>3, <2>1, <2>2, <2>3 DEF Upsert, Goto
<1>4. ASSUME NEW j \in InsertJobs, FindWallet(j) PROVE AnnInv'
  <2>1. PICK s \in {"notify", "finish"} : Goto(j, s)
    BY <1>4 DEF FindWallet
  <2> QED
    BY <1>4, <2>1, NotAnnouncing DEF FindWallet, Goto
<1>5. ASSUME NEW j \in InsertJobs, CreateNotification(j) PROVE AnnInv'
  <2>1. CASE Goto(j, "finish") /\ UNCHANGED notices
    BY <1>5, <2>1, NotAnnouncing DEF CreateNotification, Goto
  <2>2. CASE /\ notices' = [notices EXCEPT ![EventOf[j]] = @ + 1]
             /\ \E s \in {"mail", "finish"} : Goto(j, s)
    <3>1. PICK s \in {"mail", "finish"} : step' = [step EXCEPT ![j] = s]
      BY <2>2 DEF Goto
    <3>2. /\ EventOf[j] \in Swaps \cap stored
          /\ notices[EventOf[j]] = 0 /\ mails[EventOf[j]] = 0
          /\ \A k \in InsertJobs \ {j} : EventOf[k] = EventOf[j] => step[k] \notin Announcing
      BY <1>5 DEF CreateNotification, AnnInv, Announced, Announcing, Inv, StepInv, OwnSteps
    <3>3. /\ notices'[EventOf[j]] = 1
          /\ \A e \in Swaps \ {EventOf[j]} : notices'[e] = notices[e]
      BY <2>2, <3>2
    <3>4. UNCHANGED <<stored, mails>>
      BY <1>5 DEF CreateNotification
    <3>5. Announced'
      <4>1. \A e \in Swaps : e \notin stored' => notices'[e] = 0 /\ mails'[e] = 0
        BY <3>2, <3>3, <3>4 DEF AnnInv, Announced
      <4>2. \A k \in InsertJobs : step'[k] \in Announcing =>
               step[k] \in Announcing /\ (k # j => EventOf[k] # EventOf[j] /\ step'[k] = step[k])
        BY <1>5, <3>1, <3>2 DEF CreateNotification, Announcing
      <4>3. \A k \in InsertJobs : step[k] \in Announcing => EventOf[k] \in Swaps
        BY DEF Inv, StepInv, OwnSteps, Announcing
      <4>4. step'[j] \in {"mail", "finish"}
        BY <3>1
      <4> QED
        BY <3>2, <3>3, <3>4, <4>1, <4>2, <4>3, <4>4 DEF AnnInv, Announced, Announcing
    <3>6. AnnouncedOnce'
      BY <3>2, <3>3, <3>4 DEF AnnInv, AnnouncedOnce
    <3> QED
      BY <3>5, <3>6 DEF AnnInv
  <2> QED
    BY <1>5, <2>1, <2>2 DEF CreateNotification
<1>6. ASSUME NEW j \in InsertJobs, SendEmail(j) PROVE AnnInv'
  <2>1. step' = [step EXCEPT ![j] = "finish"] /\ UNCHANGED <<stored, notices>>
    BY <1>6 DEF SendEmail, Goto
  <2>2. CASE UNCHANGED mails
    BY <2>1, <2>2, NotAnnouncing
  <2>3. CASE mails' = [mails EXCEPT ![EventOf[j]] = @ + 1]
    <3>1. /\ EventOf[j] \in Swaps \cap stored
          /\ notices[EventOf[j]] = 1 /\ mails[EventOf[j]] = 0
          /\ \A k \in InsertJobs \ {j} : EventOf[k] = EventOf[j] => step[k] \notin Announcing
      BY <1>6 DEF SendEmail, AnnInv, Announced, Announcing, Inv, StepInv, OwnSteps
    <3>2. /\ mails'[EventOf[j]] = 1
          /\ \A e \in Swaps \ {EventOf[j]} : mails'[e] = mails[e]
      BY <2>3, <3>1
    <3>3. Announced'
      <4>1. \A k \in InsertJobs : step'[k] \in Announcing =>
               k # j /\ step[k] = step'[k] /\ EventOf[k] # EventOf[j]
        BY <2>1, <3>1 DEF Announcing
      <4>2. \A k \in InsertJobs : step[k] \in Announcing => EventOf[k] \in Swaps
        BY DEF Inv, StepInv, OwnSteps, Announcing
      <4> QED
        BY <2>1, <3>1, <3>2, <4>1, <4>2 DEF AnnInv, Announced, Announcing
    <3>4. AnnouncedOnce'
      BY <2>1, <3>1, <3>2 DEF AnnInv, AnnouncedOnce
    <3> QED
      BY <3>3, <3>4 DEF AnnInv
  <2> QED
    BY <1>6, <2>2, <2>3 DEF SendEmail
<1>7. ASSUME NEW j \in BalanceJobs,
             GetBalance(j) \/ FindHolder(j) \/ SaveBalance(j) \/ CreateWallet(j) \/ UpdateFails(j)
      PROVE  AnnInv'
  <2>1. PICK s \in {"lookup", "create", "save", "finish"} : Goto(j, s)
    BY <1>7 DEF GetBalance, FindHolder, SaveBalance, CreateWallet, UpdateFails
  <2>2. UNCHANGED <<stored, notices, mails>>
    BY <1>7 DEF GetBalance, FindHolder, SaveBalance, CreateWallet, UpdateFails
  <2> QED
    BY <2>1, <2>2, NotAnnouncing DEF Goto
<1>8. ASSUME NEW j \in Jobs, Complete(j) PROVE AnnInv'
  BY <1>8, NotAnnouncing DEF Complete, Goto
<1>9. ASSUME NEW j \in Jobs, Recover(j) PROVE AnnInv'
  <2>1. PICK s \in {"wait", "failed"} : Goto(j, s)
    BY <1>9 DEF Recover
  <2> QED
    BY <1>9, <2>1, NotAnnouncing DEF Recover, Goto
<1>10. CASE Take
  <2>1. PICK s \in {"upsert", "finish", "balance"} : Goto(Head(waiting), s)
    BY <1>10 DEF Take
  <2> QED
    BY <1>10, <2>1, NotAnnouncing DEF Take, Goto
<1>11. CASE Crash
  BY <1>11, NotAnnouncing DEF Crash
<1> QED
  BY <1>1, <1>2, <1>3, <1>4, <1>5, <1>6, <1>7, <1>8, <1>9, <1>10, <1>11
     DEF Next, Handle, Transfer, SignUp, vars, Jobs

\* A swap is announced once at most, whatever jobs carry it, overlap or are
\* run again after a crash.
THEOREM SwapAnnouncedOnce == Spec => []AnnouncedOnce
<1>1. Init => Inv /\ AnnInv
  BY InitInv, InitAnn
<1>2. Inv /\ AnnInv /\ [Next]_vars => Inv' /\ AnnInv'
  BY NextInv, NextAnn
<1>3. AnnInv => AnnouncedOnce
  BY DEF AnnInv
<1> QED
  BY <1>1, <1>2, <1>3, PTL DEF Spec

-------------------------------------------------------------------------------
(* Fresh balances.  An address that no two refreshes worked on at a time is *)
(* served by one running job at most.  Unless an error hit, either a        *)
(* refresh has yet to read the balance, or whatever one has read is at      *)
(* least as new as the last asking, and so is the wallet if none is left    *)
(* to write it.                                                             *)

Working == {"lookup", "save", "create"}

ToRead(a) ==
    \E j \in BalanceJobs : AddrOf[j] = a /\ step[j] \in {"wait", "balance", "stalled", "failed"}

AtWork(a) == \E j \in BalanceJobs : AddrOf[j] = a /\ step[j] \in Working

ReadNew(a) ==
    \A j \in BalanceJobs : AddrOf[j] = a /\ step[j] \in Working => read[j] >= asked[a]

Promised(a) == ToRead(a) \/ (ReadNew(a) /\ (AtWork(a) \/ wallet[a] >= asked[a]))

OneAtATime(a) ==
    \A j, k \in BalanceJobs :
        /\ AddrOf[j] = a /\ step[j] \in BalanceSteps \cup {"finish"}
        /\ AddrOf[k] = a /\ step[k] \in BalanceSteps \cup {"finish"}
        => j = k

StillUnknown(a) ==
    \A j \in BalanceJobs : AddrOf[j] = a /\ step[j] = "create" => wallet[a] = NoWallet

Fresh(a) ==
    /\ asked[a] <= balance[a]
    /\ a \notin overlapped =>
         OneAtATime(a) /\ StillUnknown(a) /\ (faults = 0 => Promised(a))

FreshInv == \A a \in Addrs \ {ZeroAddress} : Fresh(a)

LEMMA InitFresh == Init => FreshInv
  BY JobsAssumption DEF Init, FreshInv, Fresh, OneAtATime, StillUnknown, Promised, ReadNew, JobsAssumption,
     NoWallet, BalanceSteps, Working, Jobs

\* The promise means what it says once every refresh is through.
LEMMA PromiseKept == Inv /\ FreshInv => FreshUnlessOverlap
<1> SUFFICES ASSUME Inv, FreshInv, NEW a \in Addrs \ {ZeroAddress},
                    Settled(a), faults = 0, a \notin overlapped
             PROVE  wallet[a] >= asked[a]
  BY DEF FreshUnlessOverlap
<1>1. Promised(a)
  BY DEF FreshInv, Fresh
<1> QED
  BY <1>1 DEF Promised, ToRead, AtWork, Working, Settled

\* A step that is not about an address changes nothing for it.
LEMMA OtherAddress ==
  ASSUME FreshInv, NEW a \in Addrs \ {ZeroAddress}, overlapped \subseteq overlapped',
         balance'[a] = balance[a], wallet'[a] = wallet[a], asked'[a] = asked[a],
         faults' = 0 => faults = 0,
         \A j \in BalanceJobs : AddrOf[j] = a => step'[j] = step[j] /\ read'[j] = read[j]
  PROVE  Fresh(a)'
<1>1. OneAtATime(a) => OneAtATime(a)'
  BY DEF OneAtATime
<1>2. StillUnknown(a) => StillUnknown(a)'
  BY DEF StillUnknown
<1>3. Promised(a) => Promised(a)'
  BY DEF Promised, ToRead, ReadNew, AtWork
<1> QED
  BY <1>1, <1>2, <1>3 DEF FreshInv, Fresh

\* The steps of a refresh for its own address.
LEMMA RefreshKeepsFresh ==
  ASSUME Inv, FreshInv, NEW j \in BalanceJobs, NEW a, a = AddrOf[j], a # ZeroAddress,
         GetBalance(j) \/ FindHolder(j) \/ SaveBalance(j) \/ CreateWallet(j) \/ UpdateFails(j)
  PROVE  Fresh(a)'
<1> a \in Addrs \ {ZeroAddress} /\ Fresh(a)
  BY JobsAssumption DEF JobsAssumption, FreshInv
<1> step \in [Jobs -> Steps] /\ j \in Jobs /\ BalanceJobs \subseteq Jobs
  BY DEF Inv, StepInv, Jobs
<1> /\ read \in [BalanceJobs -> 0..MaxBalance] /\ balance \in [Addrs -> 0..MaxBalance]
    /\ wallet \in [Addrs -> {NoWallet} \cup 0..MaxBalance]
    /\ asked \in [Addrs -> {NoWallet} \cup 0..MaxBalance]
  BY DEF Inv, Typed
<1>1. /\ step[j] \in BalanceSteps
      /\ \E s \in {"lookup", "create", "save", "finish"} : step' = [step EXCEPT ![j] = s]
      /\ UNCHANGED <<balance, asked, overlapped>>
  BY DEF GetBalance, FindHolder, SaveBalance, CreateWallet, UpdateFails, Goto, BalanceSteps, ghostVars
<1>2. /\ \A k \in BalanceJobs \ {j} : step'[k] = step[k]
      /\ step'[j] \in {"lookup", "create", "save", "finish"}
  BY <1>1
<1> SUFFICES ASSUME a \notin overlapped
             PROVE  OneAtATime(a)' /\ StillUnknown(a)' /\ (faults' = 0 => Promised(a)')
  BY <1>1 DEF Fresh
<1>3. OneAtATime(a) /\ StillUnknown(a) /\ (faults = 0 => Promised(a))
  BY DEF Fresh
<1>4. OneAtATime(a)'
  BY <1>1, <1>2, <1>3 DEF OneAtATime, BalanceSteps
<1>5. \A k \in BalanceJobs \ {j} : AddrOf[k] = a => step'[k] \notin BalanceSteps
  BY <1>1, <1>2, <1>3 DEF OneAtATime
<1>6. ToRead(a) /\ step[j] # "balance" => ToRead(a)'
  BY <1>1, <1>2 DEF ToRead, BalanceSteps
<1>7. CASE GetBalance(j)
  <2>1. read'[j] = balance[a] /\ step'[j] = "lookup"
    BY <1>7 DEF GetBalance, Goto
  <2>2. StillUnknown(a)'
    BY <1>5, <2>1 DEF StillUnknown, BalanceSteps
  <2>3. ReadNew(a)' /\ AtWork(a)'
    BY <1>1, <1>5, <2>1 DEF ReadNew, AtWork, Working, BalanceSteps, Fresh
  <2> QED
    BY <1>4, <2>2, <2>3 DEF Promised
<1>8. CASE FindHolder(j)
  <2>1. step[j] = "lookup" /\ UNCHANGED <<read, wallet, faults>>
    BY <1>8 DEF FindHolder, mongoVars, bounds
  <2>2. \/ step'[j] = "create" /\ wallet[a] = NoWallet
        \/ step'[j] = "finish" /\ wallet[a] = read[j]
        \/ step'[j] = "save"
    BY <1>8 DEF FindHolder, Goto
  <2>3. StillUnknown(a)'
    BY <1>5, <2>1, <2>2 DEF StillUnknown, BalanceSteps
  <2>4. ASSUME ReadNew(a) PROVE ReadNew(a)' /\ (AtWork(a)' \/ wallet'[a] >= asked'[a])
    <3>1. read[j] >= asked[a]
      BY <2>1, <2>4 DEF ReadNew, Working
    <3> QED
      BY <1>1, <1>5, <2>1, <2>2, <3>1 DEF ReadNew, AtWork, Working, BalanceSteps
  <2> QED
    BY <1>3, <1>4, <1>6, <2>1, <2>3, <2>4 DEF Promised
<1>9. CASE SaveBalance(j) \/ CreateWallet(j)
  <2>1. step'[j] = "finish" /\ step[j] \in Working \ {"lookup"} /\ UNCHANGED <<read, faults>>
    BY <1>9 DEF SaveBalance, CreateWallet, Goto, bounds, Working
  <2>2. wallet'[a] = read[j]
    BY <1>3, <1>9 DEF SaveBalance, CreateWallet, StillUnknown
  <2>3. StillUnknown(a)'
    BY <1>5, <2>1 DEF StillUnknown, BalanceSteps
  <2>4. ReadNew(a) => ReadNew(a)' /\ wallet'[a] >= asked'[a]
    BY <1>1, <1>2, <2>1, <2>2 DEF ReadNew, Working
  <2> QED
    BY <1>3, <1>4, <1>6, <2>1, <2>3, <2>4 DEF Promised, Working
<1>10. CASE UpdateFails(j)
  <2>1. faults' # 0 /\ step'[j] = "finish"
    BY <1>10 DEF UpdateFails, Fault, Goto, Inv, Typed
  <2>2. StillUnknown(a)'
    BY <1>5, <2>1 DEF StillUnknown, BalanceSteps
  <2> QED
    BY <1>4, <2>1, <2>2
<1> QED
  BY <1>7, <1>8, <1>9, <1>10

LEMMA NextFresh == Inv /\ FreshInv /\ [Next]_vars => FreshInv'
<1> SUFFICES ASSUME Inv, FreshInv, [Next]_vars, NEW a \in Addrs \ {ZeroAddress}
             PROVE  Fresh(a)'
  BY DEF FreshInv
<1> step \in [Jobs -> Steps] /\ InsertJobs \subseteq Jobs /\ BalanceJobs \subseteq Jobs
  BY DEF Inv, StepInv, Jobs
<1> InsertJobs \cap BalanceJobs = {} /\ AddrOf \in [BalanceJobs -> Addrs]
  BY JobsAssumption DEF JobsAssumption
<1> /\ read \in [BalanceJobs -> 0..MaxBalance] /\ balance \in [Addrs -> 0..MaxBalance]
    /\ wallet \in [Addrs -> {NoWallet} \cup 0..MaxBalance]
    /\ asked \in [Addrs -> {NoWallet} \cup 0..MaxBalance] /\ faults \in Nat
  BY JobsAssumption DEF Inv, Typed, JobsAssumption
<1> Fresh(a)
  BY DEF FreshInv
<1> USE DEF mongoVars, ghostVars, bounds, queueVars
<1>1. ASSUME NEW b \in Addrs, Transfer(b) PROVE Fresh(a)'
  <2>1. balance'[a] >= balance[a] /\ balance'[a] \in Nat /\ balance[a] \in Nat
    BY <1>1 DEF Transfer
  <2>2. UNCHANGED <<step, read, wallet, asked, overlapped, faults>>
    BY <1>1 DEF Transfer
  <2> QED
    BY <2>1, <2>2 DEF Fresh, OneAtATime, StillUnknown, Promised, ToRead, ReadNew, AtWork, NoWallet
<1>2. ASSUME NEW b \in Addrs, SignUp(b) PROVE Fresh(a)'
  <2>1. UNCHANGED <<step, read, balance, asked, faults>> /\ overlapped \subseteq overlapped'
    BY <1>2 DEF SignUp
  <2>2. CASE b # a
    <3>1. wallet'[a] = wallet[a]
      BY <1>2, <2>2 DEF SignUp
    <3> QED
      BY <2>1, <3>1, OtherAddress
  <2>3. CASE b = a
    <3>1. wallet[a] = NoWallet /\ wallet'[a] = 0
      BY <1>2, <2>3 DEF SignUp
    <3>2. a \notin overlapped' => \A j \in BalanceJobs : AddrOf[j] = a => step[j] # "create"
      BY <1>2, <2>3 DEF SignUp
    <3> QED
      BY <2>1, <3>1, <3>2
         DEF Fresh, OneAtATime, StillUnknown, Promised, ToRead, ReadNew, AtWork, NoWallet
  <2> QED
    BY <2>2, <2>3
<1>3. ASSUME NEW j \in Jobs, Add(j) PROVE Fresh(a)'
  <2>1. /\ UNCHANGED <<read, balance, wallet, overlapped, faults>>
        /\ step' = [step EXCEPT ![j] = "wait"]
    BY <1>3 DEF Add, Goto
  <2>2. CASE j \in BalanceJobs /\ AddrOf[j] = a
    <3>1. asked'[a] = balance[a]
      BY <1>3, <2>2 DEF Add
    <3>2. ToRead(a)'
      BY <2>1, <2>2 DEF ToRead
    <3>3. OneAtATime(a) => OneAtATime(a)'
      BY <2>1 DEF OneAtATime, BalanceSteps
    <3>4. StillUnknown(a) => StillUnknown(a)'
      BY <2>1 DEF StillUnknown
    <3> QED
      BY <2>1, <3>1, <3>2, <3>3, <3>4 DEF Fresh, Promised
  <2>3. CASE ~(j \in BalanceJobs /\ AddrOf[j] = a)
    <3>1. asked'[a] = asked[a]
      BY <1>3, <2>3 DEF Add
    <3> QED
      BY <2>1, <2>3, <3>1, OtherAddress
  <2> QED
    BY <2>2, <2>3
<1>4. ASSUME NEW j \in InsertJobs,
             Upsert(j) \/ FindWallet(j) \/ CreateNotification(j) \/ SendEmail(j)
      PROVE  Fresh(a)'
  <2>1. /\ UNCHANGED <<read, balance, wallet, asked, overlapped>>
        /\ \E s : step' = [step EXCEPT ![j] = s]
        /\ faults' = faults \/ faults' = faults + 1
    BY <1>4 DEF Upsert, FindWallet, CreateNotification, SendEmail, Goto, Fault
  <2> QED
    BY <2>1, OtherAddress
<1>5. ASSUME NEW j \in BalanceJobs,
             GetBalance(j) \/ FindHolder(j) \/ SaveBalance(j) \/ CreateWallet(j) \/ UpdateFails(j)
      PROVE  Fresh(a)'
  <2>1. CASE AddrOf[j] = a
    BY <1>5, <2>1, RefreshKeepsFresh
  <2>2. CASE AddrOf[j] # a
    <3>1. /\ UNCHANGED <<balance, asked, overlapped>> /\ wallet'[a] = wallet[a]
          /\ \E s : step' = [step EXCEPT ![j] = s]
          /\ faults' = faults \/ faults' = faults + 1
          /\ \A k \in BalanceJobs \ {j} : read'[k] = read[k]
      BY <1>5, <2>2 DEF GetBalance, FindHolder, SaveBalance, CreateWallet, UpdateFails, Goto, Fault
    <3> QED
      BY <2>2, <3>1, OtherAddress
  <2> QED
    BY <2>1, <2>2
<1>6. ASSUME NEW j \in Jobs, Complete(j) \/ Recover(j) PROVE Fresh(a)'
  <2>1. UNCHANGED <<read, balance, wallet, asked, overlapped, faults>>
    BY <1>6 DEF Complete, Recover
  <2>2. \/ step[j] = "finish" /\ step' = [step EXCEPT ![j] = "completed"]
        \/ step[j] = "stalled" /\ \E s \in {"wait", "failed"} : step' = [step EXCEPT ![j] = s]
    BY <1>6 DEF Complete, Recover, Goto
  <2>3. OneAtATime(a) => OneAtATime(a)'
    BY <2>2 DEF OneAtATime, BalanceSteps
  <2>4. StillUnknown(a) => StillUnknown(a)'
    BY <2>1, <2>2 DEF StillUnknown
  <2>5. /\ ToRead(a) => ToRead(a)'
        /\ AtWork(a) => AtWork(a)'
        /\ ReadNew(a) => ReadNew(a)'
    BY <2>1, <2>2 DEF ToRead, AtWork, ReadNew, Working
  <2> QED
    BY <2>1, <2>3, <2>4, <2>5 DEF Fresh, Promised
<1>7. CASE Take
  <2> DEFINE j == Head(waiting)
  <2>1. UNCHANGED <<read, balance, wallet, asked, faults>> /\ overlapped \subseteq overlapped'
    BY <1>7 DEF Take
  <2>2. \E s : step' = [step EXCEPT ![j] = s]
    BY <1>7 DEF Take, Goto
  <2>3. CASE j \in BalanceJobs /\ AddrOf[j] = a
    <3>1. j \notin InsertJobs
      BY <2>3
    <3>2. /\ step' = [step EXCEPT ![j] = "balance"]
          /\ a \notin overlapped' => Refreshing(a) = {}
      BY <1>7, <2>3, <3>1 DEF Take, Goto
    <3>3. ToRead(a)'
      BY <2>3, <3>2 DEF ToRead
    <3>4. a \notin overlapped' => OneAtATime(a)'
      BY <3>2 DEF OneAtATime, Refreshing, Running, BalanceSteps
    <3>5. StillUnknown(a) => StillUnknown(a)'
      BY <2>1, <3>2 DEF StillUnknown
    <3> QED
      BY <2>1, <3>3, <3>4, <3>5 DEF Fresh, Promised
  <2>4. CASE ~(j \in BalanceJobs /\ AddrOf[j] = a)
    BY <2>1, <2>2, <2>4, OtherAddress
  <2> QED
    BY <2>3, <2>4
<1>8. CASE Crash
  <2>1. UNCHANGED <<read, balance, wallet, asked, overlapped, faults>>
    BY <1>8 DEF Crash
  <2>2. \A j \in BalanceJobs : step'[j] = IF j \in Running THEN "stalled" ELSE step[j]
    BY <1>8 DEF Crash
  <2>3. \A j \in BalanceJobs : step[j] \in BalanceSteps \cup {"finish"} => j \in Running
    BY DEF Running
  <2>4. OneAtATime(a)' /\ StillUnknown(a)'
    BY <2>2, <2>3 DEF OneAtATime, StillUnknown, BalanceSteps
  <2>5. ToRead(a) => ToRead(a)'
    BY <2>2 DEF ToRead
  <2>6. AtWork(a) => ToRead(a)'
    BY <2>2, <2>3 DEF AtWork, ToRead, Working, BalanceSteps
  <2>7. ReadNew(a)'
    BY <2>2, <2>3 DEF ReadNew, Working, BalanceSteps
  <2> QED
    BY <2>1, <2>4, <2>5, <2>6, <2>7 DEF Fresh, Promised
<1>9. CASE UNCHANGED vars
  BY <1>9, OtherAddress DEF vars
<1> QED
  BY <1>1, <1>2, <1>3, <1>4, <1>5, <1>6, <1>7, <1>8, <1>9 DEF Next, Handle

\* Once every refresh of an address is through, its wallet is at least as new
\* as the last asking, but for errors and overlapping refreshes; the queue may
\* hold them up, run them in any slot, and run them again after crashes.
THEOREM WalletFresh == Spec => []FreshUnlessOverlap
<1>1. Init => Inv /\ FreshInv
  BY InitInv, InitFresh
<1>2. Inv /\ FreshInv /\ [Next]_vars => Inv' /\ FreshInv'
  BY NextInv, NextFresh
<1> QED
  BY <1>1, <1>2, PromiseKept, PTL DEF Spec

-------------------------------------------------------------------------------
(* Wallets are there to stay; without errors a refresh that is through has  *)
(* left one behind.                                                         *)

Found ==
    /\ \A a \in Registered : wallet[a] # NoWallet
    /\ faults = 0 =>
         \A j \in BalanceJobs : AddrOf[j] # ZeroAddress /\ step[j] \in {"finish", "completed"} =>
             wallet[AddrOf[j]] # NoWallet

LEMMA InitFound == Init => Found
  BY JobsAssumption DEF Init, Found, JobsAssumption, NoWallet, Jobs

LEMMA NextFound == Inv /\ Found /\ [Next]_vars => Found'
<1> SUFFICES ASSUME Inv, Found, [Next]_vars PROVE Found'
  OBVIOUS
<1> step \in [Jobs -> Steps] /\ InsertJobs \subseteq Jobs /\ BalanceJobs \subseteq Jobs
  BY DEF Inv, StepInv, Jobs
<1> /\ InsertJobs \cap BalanceJobs = {} /\ AddrOf \in [BalanceJobs -> Addrs]
    /\ Registered \subseteq Addrs
  BY JobsAssumption DEF JobsAssumption
<1> /\ read \in [BalanceJobs -> 0..MaxBalance] /\ MaxBalance \in Nat
    /\ wallet \in [Addrs -> {NoWallet} \cup 0..MaxBalance] /\ faults \in Nat
  BY JobsAssumption DEF Inv, Typed, JobsAssumption
<1> USE DEF mongoVars, bounds
<1>1. \A a \in Addrs : wallet[a] # NoWallet => wallet'[a] # NoWallet
  <2>1. ASSUME NEW j \in BalanceJobs, SaveBalance(j) \/ CreateWallet(j)
        PROVE  \A a \in Addrs : wallet[a] # NoWallet => wallet'[a] # NoWallet
    BY <2>1 DEF SaveBalance, CreateWallet, NoWallet
  <2>2. ASSUME NEW a \in Addrs, SignUp(a)
        PROVE  \A b \in Addrs : wallet[b] # NoWallet => wallet'[b] # NoWallet
    BY <2>2 DEF SignUp, NoWallet
  <2>3. \/ UNCHANGED wallet
        \/ \E j \in BalanceJobs : SaveBalance(j) \/ CreateWallet(j)
        \/ \E a \in Addrs : SignUp(a)
    BY DEF Next, Handle, vars, Transfer, Add, Upsert, FindWallet, CreateNotification, SendEmail,
       GetBalance, FindHolder, Complete, Recover, UpdateFails, Take, Crash
  <2> QED
    BY <2>1, <2>2, <2>3
<1>2. faults' = 0 => faults = 0
  <2>1. UNCHANGED faults \/ faults' = faults + 1
    BY DEF Next, Handle, vars, Transfer, SignUp, Add, Upsert, FindWallet, CreateNotification,
       SendEmail, GetBalance, FindHolder, SaveBalance, CreateWallet, Complete, Recover, UpdateFails,
       Take, Crash, Fault
  <2> QED
    BY <2>1
<1> SUFFICES ASSUME faults' = 0, NEW k \in BalanceJobs, AddrOf[k] # ZeroAddress,
                    step'[k] \in {"finish", "completed"}
             PROVE  wallet'[AddrOf[k]] # NoWallet
  BY <1>1 DEF Found
<1>3. CASE step[k] \in {"finish", "completed"}
  BY <1>1, <1>2, <1>3 DEF Found
<1>4. CASE step[k] \notin {"finish", "completed"}
  <2>1. CASE FindHolder(k) \/ SaveBalance(k) \/ CreateWallet(k)
    BY <2>1 DEF FindHolder, SaveBalance, CreateWallet, Goto, NoWallet
  <2>2. ~UpdateFails(k)
    BY DEF UpdateFails, Fault
  <2>3. ASSUME NEW j \in Jobs,
               \/ Add(j) \/ Upsert(j) \/ FindWallet(j) \/ CreateNotification(j) \/ SendEmail(j)
               \/ GetBalance(j) \/ FindHolder(j) \/ SaveBalance(j) \/ CreateWallet(j)
               \/ Complete(j) \/ Recover(j) \/ UpdateFails(j)
        PROVE  j = k
    <3>1. \E t : step' = [step EXCEPT ![j] = t]
      BY <2>3 DEF Add, Upsert, FindWallet, CreateNotification, SendEmail, GetBalance, FindHolder,
         SaveBalance, CreateWallet, Complete, Recover, UpdateFails, Goto
    <3> QED
      BY <1>4, <3>1
  <2>4. ~(Add(k) \/ GetBalance(k) \/ Complete(k) \/ Recover(k))
    BY <1>4 DEF Add, GetBalance, Complete, Recover, Goto
  <2>5. ~Take
    <3> SUFFICES ASSUME Take PROVE FALSE
      OBVIOUS
    <3>1. PICK t \in {"upsert", "finish", "balance"} : step' = [step EXCEPT ![Head(waiting)] = t]
      BY DEF Take, Goto
    <3>2. Head(waiting) = k
      BY <1>4, <3>1
    <3> QED
      BY <1>4, <3>1, <3>2 DEF Take, Goto
  <2>6. ~Crash
    BY <1>4 DEF Crash
  <2>7. ~UNCHANGED step
    BY <1>4
  <2> QED
    BY <2>1, <2>2, <2>3, <2>4, <2>5, <2>6, <2>7 DEF Next, Handle, Transfer, SignUp, vars
<1> QED
  BY <1>3, <1>4

-------------------------------------------------------------------------------
(* New owners.  As long as no error or crash gets in the way, a recorded    *)
(* swap is announced, about to be, or was looked at too early.              *)

HeardOf ==
    faults = 0 /\ crashes = 0 =>
        \A e \in (Swaps \cap stored) \ late :
            \/ notices[e] = 1
            \/ \E j \in InsertJobs : EventOf[j] = e /\ step[j] \in {"find", "notify"}

LEMMA InitHeard == Init => HeardOf
  BY DEF Init, HeardOf

LEMMA HeardMeans == HeardOf => NewOwnerHeard
  BY DEF HeardOf, NewOwnerHeard

\* A step that records nothing and that no job of a swap to announce takes.
LEMMA KeepsHearing ==
  ASSUME HeardOf, UNCHANGED <<stored, notices>>, late \subseteq late',
         faults' = 0 /\ crashes' = 0 => faults = 0 /\ crashes = 0,
         faults' = 0 /\ crashes' = 0 =>
            \A j \in InsertJobs : step[j] \in {"find", "notify"} =>
                step'[j] \in {"find", "notify"} \/ EventOf[j] \in late'
  PROVE  HeardOf'
  BY DEF HeardOf

LEMMA NextHeard == Inv /\ AnnInv /\ Found /\ HeardOf /\ [Next]_vars => HeardOf'
<1> SUFFICES ASSUME Inv, AnnInv, Found, HeardOf, [Next]_vars PROVE HeardOf'
  OBVIOUS
<1> step \in [Jobs -> Steps] /\ InsertJobs \subseteq Jobs /\ BalanceJobs \subseteq Jobs
  BY DEF Inv, StepInv, Jobs
<1> faults \in Nat /\ crashes \in Nat /\ notices \in [Swaps -> Nat]
  BY JobsAssumption DEF Inv, Typed, JobsAssumption
<1> USE DEF mongoVars, bounds, ghostVars
<1>1. ASSUME NEW j \in InsertJobs, Upsert(j) PROVE HeardOf'
  <2>1. CASE faults' = faults + 1
    BY <2>1 DEF HeardOf
  <2>2. CASE stored' = stored \cup {EventOf[j]} /\ faults' = faults
    <3>1. step' = [step EXCEPT ![j] = IF EventOf[j] \in Swaps \ stored THEN "find" ELSE "finish"]
      BY <1>1, <2>2 DEF Upsert, Goto, Fault
    <3>2. UNCHANGED <<notices, late, crashes>> /\ step[j] = "upsert"
      BY <1>1, <2>2 DEF Upsert, Fault
    <3> QED
      BY <2>2, <3>1, <3>2 DEF HeardOf
  <2> QED
    BY <1>1, <2>1, <2>2 DEF Upsert, Fault
<1>2. ASSUME NEW j \in InsertJobs, FindWallet(j) PROVE HeardOf'
  <2>1. CASE faults' = faults + 1
    BY <2>1 DEF HeardOf
  <2>2. CASE faults' = faults
    <3> DEFINE owner == OwnerOf[EventOf[j]]
    <3>1. /\ Goto(j, IF wallet[owner] # NoWallet THEN "notify" ELSE "finish")
          /\ late' = IF wallet[owner] = NoWallet /\ ~RefreshCompleted(owner)
                       THEN late \cup {EventOf[j]} ELSE late
          /\ UNCHANGED <<stored, notices, faults, crashes>>
      BY <1>2, <2>2 DEF FindWallet, Fault
    <3>2. EventOf[j] \in Swaps
      BY <1>2 DEF FindWallet, Inv, StepInv, OwnSteps
    <3>3. owner # ZeroAddress
      BY <3>2, JobsAssumption DEF JobsAssumption
    <3>4. faults = 0 /\ RefreshCompleted(owner) => wallet[owner] # NoWallet
      BY <3>3 DEF Found, RefreshCompleted
    <3>5. faults = 0 => step'[j] = "notify" \/ EventOf[j] \in late'
      BY <3>1, <3>4 DEF Goto
    <3>6. \A k \in InsertJobs \ {j} : step'[k] = step[k]
      BY <3>1 DEF Goto
    <3> QED
      BY <3>1, <3>5, <3>6, KeepsHearing
  <2> QED
    BY <1>2, <2>1, <2>2 DEF FindWallet, Fault
<1>3. ASSUME NEW j \in InsertJobs, CreateNotification(j) PROVE HeardOf'
  <2>1. CASE faults' = faults + 1
    BY <2>1 DEF HeardOf
  <2>2. CASE notices' = [notices EXCEPT ![EventOf[j]] = @ + 1] /\ faults' = faults
    <3>1. notices[EventOf[j]] = 0 /\ EventOf[j] \in Swaps
      BY <1>3 DEF CreateNotification, AnnInv, Announced, Inv, StepInv, OwnSteps
    <3>2. UNCHANGED <<stored, late, crashes>>
      BY <1>3, <2>2 DEF CreateNotification, Fault
    <3>3. \A k \in InsertJobs \ {j} : step'[k] = step[k]
      BY <1>3 DEF CreateNotification, Goto
    <3> QED
      BY <2>2, <3>1, <3>2, <3>3 DEF HeardOf
  <2> QED
    BY <1>3, <2>1, <2>2 DEF CreateNotification, Fault
<1>4. ASSUME NEW j \in InsertJobs, SendEmail(j) PROVE HeardOf'
  <2>1. step[j] = "mail" /\ step' = [step EXCEPT ![j] = "finish"] /\ UNCHANGED <<stored, notices, late>>
    BY <1>4 DEF SendEmail, Goto
  <2>2. faults' = 0 /\ crashes' = 0 => faults = 0 /\ crashes = 0
    BY <1>4 DEF SendEmail, Fault
  <2> QED
    BY <2>1, <2>2, KeepsHearing
<1>5. ASSUME NEW j \in BalanceJobs,
             GetBalance(j) \/ FindHolder(j) \/ SaveBalance(j) \/ CreateWallet(j) \/ UpdateFails(j)
      PROVE  HeardOf'
  <2>1. UNCHANGED <<stored, notices, late>> /\ (faults' = 0 /\ crashes' = 0 => faults = 0 /\ crashes = 0)
    BY <1>5 DEF GetBalance, FindHolder, SaveBalance, CreateWallet, UpdateFails, Fault
  <2>2. \A k \in InsertJobs : step'[k] = step[k]
    BY <1>5, JobsAssumption DEF GetBalance, FindHolder, SaveBalance, CreateWallet, UpdateFails, Goto,
       JobsAssumption
  <2> QED
    BY <2>1, <2>2, KeepsHearing
<1>6. ASSUME NEW j \in Jobs, Add(j) \/ Complete(j) \/ Recover(j) PROVE HeardOf'
  <2>1. UNCHANGED <<stored, notices, late, faults, crashes>>
    BY <1>6 DEF Add, Complete, Recover
  <2>2. step[j] \notin {"find", "notify"} /\ \E s : step' = [step EXCEPT ![j] = s]
    BY <1>6 DEF Add, Complete, Recover, Goto
  <2> QED
    BY <2>1, <2>2, KeepsHearing
<1>7. CASE Take
  <2>1. UNCHANGED <<stored, notices, late, faults, crashes>>
    BY <1>7 DEF Take
  <2>2. PICK s : step' = [step EXCEPT ![Head(waiting)] = s]
    BY <1>7 DEF Take, Goto
  <2>3. step[Head(waiting)] = "wait"
    BY <1>7 DEF Take, Inv, Typed, StepInv, Queued
  <2> QED
    BY <2>1, <2>2, <2>3, KeepsHearing
<1>8. CASE Crash
  BY <1>8 DEF Crash, HeardOf
<1>9. CASE UNCHANGED <<step, stored, notices, late, bounds>>
  BY <1>9, KeepsHearing
<1> QED
  BY <1>1, <1>2, <1>3, <1>4, <1>5, <1>6, <1>7, <1>8, <1>9 DEF Next, Handle, Transfer, SignUp, vars

\* Without errors and crashes a swap is announced to an owner who is new to
\* the backend as well, unless its job ran before any refresh was through.
THEOREM OwnerHeard == Spec => []NewOwnerHeard
<1>1. Init => Inv /\ AnnInv /\ Found /\ HeardOf
  BY InitInv, InitAnn, InitFound, InitHeard
<1>2. Inv /\ AnnInv /\ Found /\ HeardOf /\ [Next]_vars => Inv' /\ AnnInv' /\ Found' /\ HeardOf'
  BY NextInv, NextAnn, NextFound, NextHeard
<1> QED
  BY <1>1, <1>2, HeardMeans, PTL DEF Spec

-------------------------------------------------------------------------------
(* Losses.  An error makes one swap go without its notification at most, a  *)
(* crash one for each slot.                                                 *)

LossInv == IsFiniteSet(Unannounced) /\ LossIsBounded

LEMMA InitLoss == Init => LossInv
<1> SUFFICES ASSUME Init PROVE LossInv
  OBVIOUS
<1>1. Unannounced = {}
  BY DEF Init, Unannounced
<1> QED
  BY <1>1, FS_EmptySet, JobsAssumption DEF Init, LossInv, LossIsBounded, JobsAssumption

\* A step after which no more swaps lack theirs.
LEMMA NoLoss ==
  ASSUME Inv, LossInv, Unannounced' \subseteq Unannounced, faults' \in {faults, faults + 1},
         crashes' = crashes
  PROVE  LossInv'
<1>1. IsFiniteSet(Unannounced') /\ Cardinality(Unannounced') <= Cardinality(Unannounced)
  BY FS_Subset DEF LossInv
<1>2. Cardinality(Unannounced) \in Nat /\ Cardinality(Unannounced') \in Nat
  BY <1>1, FS_CardinalityType DEF LossInv
<1>3. faults \in Nat /\ Slots * crashes \in Nat
  BY JobsAssumption DEF Inv, Typed, JobsAssumption
<1> QED
  BY <1>1, <1>2, <1>3 DEF LossInv, LossIsBounded

\* An error that costs a swap its notification.
LEMMA OneLoss ==
  ASSUME Inv, LossInv, NEW e, Unannounced' \subseteq Unannounced \cup {e}, faults' = faults + 1,
         crashes' = crashes
  PROVE  LossInv'
<1>1. IsFiniteSet(Unannounced) /\ Cardinality(Unannounced) \in Nat
  BY FS_CardinalityType DEF LossInv
<1>2. /\ IsFiniteSet(Unannounced \cup {e})
      /\ Cardinality(Unannounced \cup {e}) =
           IF e \in Unannounced THEN Cardinality(Unannounced) ELSE Cardinality(Unannounced) + 1
  BY <1>1, FS_AddElement
<1>3. /\ IsFiniteSet(Unannounced')
      /\ Cardinality(Unannounced') <= Cardinality(Unannounced \cup {e})
  BY <1>2, FS_Subset
<1>4. Cardinality(Unannounced') \in Nat /\ Cardinality(Unannounced \cup {e}) \in Nat
  BY <1>2, <1>3, FS_CardinalityType
<1>5. faults \in Nat /\ Slots * crashes \in Nat
  BY JobsAssumption DEF Inv, Typed, JobsAssumption
<1> QED
  BY <1>1, <1>2, <1>3, <1>4, <1>5 DEF LossInv, LossIsBounded

\* A crash costs no more swaps theirs than jobs were running.
LEMMA CrashLoss == Inv /\ Width /\ LossInv /\ Crash => LossInv'
<1> SUFFICES ASSUME Inv, Width, LossInv, Crash PROVE LossInv'
  OBVIOUS
<1> DEFINE hit  == Running \cap InsertJobs
           lost == {EventOf[j] : j \in hit}
<1>1. IsFiniteSet(hit) /\ Cardinality(hit) <= Cardinality(Running)
  BY FS_Subset DEF Width
<1>2. IsFiniteSet(lost) /\ Cardinality(lost) <= Cardinality(hit)
  <2>1. [j \in hit |-> EventOf[j]] \in Surjection(hit, lost)
    BY DEF Surjection
  <2> QED
    BY <1>1, <2>1, FS_Surjection
<1>3. Unannounced' \subseteq Unannounced \cup lost
  <2> SUFFICES ASSUME NEW e \in Unannounced', e \notin lost PROVE e \in Unannounced
    OBVIOUS
  <2>1. UNCHANGED <<stored, notices>>
    BY DEF Crash, mongoVars
  <2>2. \A j \in InsertJobs : EventOf[j] = e => step[j] \notin {"find", "notify"}
    BY DEF Running, InsertSteps, Jobs
  <2> QED
    BY <2>1, <2>2 DEF Unannounced
<1>4. IsFiniteSet(Unannounced) /\ Cardinality(Unannounced) <= faults + Slots * crashes
  BY DEF LossInv, LossIsBounded
<1>5. /\ IsFiniteSet(Unannounced \cup lost)
      /\ Cardinality(Unannounced \cup lost) =
           Cardinality(Unannounced) + Cardinality(lost) - Cardinality(Unannounced \cap lost)
  BY <1>2, <1>4, FS_Union
<1>6. IsFiniteSet(Unannounced') /\ Cardinality(Unannounced') <= Cardinality(Unannounced \cup lost)
  BY <1>3, <1>5, FS_Subset
<1>7. IsFiniteSet(Unannounced \cap lost)
  BY <1>2, FS_Subset
<1>8. /\ Cardinality(Unannounced) \in Nat /\ Cardinality(lost) \in Nat /\ Cardinality(hit) \in Nat
      /\ Cardinality(Running) \in Nat /\ Cardinality(Unannounced \cap lost) \in Nat
      /\ Cardinality(Unannounced') \in Nat /\ Cardinality(Unannounced \cup lost) \in Nat
  BY <1>1, <1>2, <1>4, <1>5, <1>6, <1>7, FS_CardinalityType DEF Width
<1>9. Cardinality(Running) <= Slots /\ Slots \in Nat /\ faults \in Nat /\ crashes \in Nat
  BY JobsAssumption DEF Width, Inv, Typed, JobsAssumption
<1>10. Cardinality(Unannounced') <= faults + Slots * crashes + Slots
  BY <1>1, <1>2, <1>4, <1>5, <1>6, <1>8, <1>9
<1>11. Slots * (crashes + 1) = Slots * crashes + Slots
  BY <1>9
<1>12. faults' = faults /\ crashes' = crashes + 1
  BY DEF Crash
<1> QED
  BY <1>6, <1>10, <1>11, <1>12, <1>9 DEF LossInv, LossIsBounded

LEMMA NextLoss == Inv /\ Width /\ Found /\ LossInv /\ [Next]_vars => LossInv'
<1> SUFFICES ASSUME Inv, Width, Found, LossInv, [Next]_vars PROVE LossInv'
  OBVIOUS
<1> step \in [Jobs -> Steps] /\ InsertJobs \subseteq Jobs /\ BalanceJobs \subseteq Jobs
  BY DEF Inv, StepInv, Jobs
<1> faults \in Nat /\ crashes \in Nat /\ notices \in [Swaps -> Nat]
  BY JobsAssumption DEF Inv, Typed, JobsAssumption
<1> USE DEF mongoVars, bounds, ghostVars
<1>1. ASSUME NEW j \in InsertJobs, Upsert(j) PROVE LossInv'
  <2>1. UNCHANGED <<notices, crashes>> /\ faults' \in {faults, faults + 1} /\ step[j] = "upsert"
    BY <1>1 DEF Upsert, Fault
  <2>2. \A k \in InsertJobs \ {j} : step'[k] = step[k]
    BY <1>1 DEF Upsert, Goto
  <2>3. \/ UNCHANGED stored
        \/ /\ stored' = stored \cup {EventOf[j]}
           /\ EventOf[j] \in Swaps \ stored => step'[j] = "find"
    BY <1>1 DEF Upsert, Goto
  <2>4. Unannounced' \subseteq Unannounced
    BY <2>1, <2>2, <2>3 DEF Unannounced
  <2> QED
    BY <2>1, <2>4, NoLoss
<1>2. ASSUME NEW j \in InsertJobs, FindWallet(j) PROVE LossInv'
  <2>1. UNCHANGED <<stored, notices, crashes>>
    BY <1>2 DEF FindWallet, Fault
  <2>2. \A k \in InsertJobs \ {j} : step'[k] = step[k]
    BY <1>2 DEF FindWallet, Goto
  <2>3. CASE faults' = faults + 1
    <3>1. Unannounced' \subseteq Unannounced \cup {EventOf[j]}
      BY <2>1, <2>2 DEF Unannounced
    <3> QED
      BY <2>1, <2>3, <3>1, OneLoss
  <2>4. CASE faults' = faults
    <3>1. OwnerOf[EventOf[j]] \in Registered => step'[j] = "notify"
      BY <1>2, <2>4 DEF FindWallet, Fault, Goto, Found
    <3>2. Unannounced' \subseteq Unannounced
      BY <2>1, <2>2, <3>1 DEF Unannounced
    <3> QED
      BY <2>1, <2>4, <3>2, NoLoss
  <2> QED
    BY <1>2, <2>3, <2>4 DEF FindWallet, Fault
<1>3. ASSUME NEW j \in InsertJobs, CreateNotification(j) PROVE LossInv'
  <2>1. UNCHANGED <<stored, crashes>>
    BY <1>3 DEF CreateNotification, Fault
  <2>2. \A k \in InsertJobs \ {j} : step'[k] = step[k]
    BY <1>3 DEF CreateNotification, Goto
  <2>3. CASE faults' = faults + 1 /\ UNCHANGED notices
    <3>1. Unannounced' \subseteq Unannounced \cup {EventOf[j]}
      BY <2>1, <2>2, <2>3 DEF Unannounced
    <3> QED
      BY <2>1, <2>3, <3>1, OneLoss
  <2>4. CASE faults' = faults /\ notices' = [notices EXCEPT ![EventOf[j]] = @ + 1]
    <3>1. EventOf[j] \in Swaps
      BY <1>3 DEF CreateNotification, Inv, StepInv, OwnSteps
    <3>2. notices'[EventOf[j]] # 0 /\ \A e \in Swaps \ {EventOf[j]} : notices'[e] = notices[e]
      BY <2>4, <3>1
    <3>3. Unannounced' \subseteq Unannounced
      BY <2>1, <2>2, <3>2 DEF Unannounced
    <3> QED
      BY <2>1, <2>4, <3>3, NoLoss
  <2> QED
    BY <1>3, <2>3, <2>4 DEF CreateNotification, Fault
<1>4. ASSUME NEW j \in InsertJobs, SendEmail(j) PROVE LossInv'
  <2>1. /\ step[j] = "mail" /\ step' = [step EXCEPT ![j] = "finish"]
        /\ UNCHANGED <<stored, notices, crashes>> /\ faults' \in {faults, faults + 1}
    BY <1>4 DEF SendEmail, Goto, Fault
  <2>2. Unannounced' \subseteq Unannounced
    BY <2>1 DEF Unannounced
  <2> QED
    BY <2>1, <2>2, NoLoss
<1>5. ASSUME NEW j \in BalanceJobs,
             GetBalance(j) \/ FindHolder(j) \/ SaveBalance(j) \/ CreateWallet(j) \/ UpdateFails(j)
      PROVE  LossInv'
  <2>1. UNCHANGED <<stored, notices, crashes>> /\ faults' \in {faults, faults + 1}
    BY <1>5 DEF GetBalance, FindHolder, SaveBalance, CreateWallet, UpdateFails, Fault
  <2>2. \A k \in InsertJobs : step'[k] = step[k]
    BY <1>5, JobsAssumption DEF GetBalance, FindHolder, SaveBalance, CreateWallet, UpdateFails, Goto,
       JobsAssumption
  <2>3. Unannounced' \subseteq Unannounced
    BY <2>1, <2>2 DEF Unannounced
  <2> QED
    BY <2>1, <2>3, NoLoss
<1>6. ASSUME NEW j \in Jobs, Add(j) \/ Complete(j) \/ Recover(j) PROVE LossInv'
  <2>1. UNCHANGED <<stored, notices, faults, crashes>>
    BY <1>6 DEF Add, Complete, Recover
  <2>2. step[j] \notin {"find", "notify"} /\ \E s : step' = [step EXCEPT ![j] = s]
    BY <1>6 DEF Add, Complete, Recover, Goto
  <2>3. Unannounced' \subseteq Unannounced
    BY <2>1, <2>2 DEF Unannounced
  <2> QED
    BY <2>1, <2>3, NoLoss
<1>7. CASE Take
  <2>1. UNCHANGED <<stored, notices, faults, crashes>>
    BY <1>7 DEF Take
  <2>2. PICK s : step' = [step EXCEPT ![Head(waiting)] = s]
    BY <1>7 DEF Take, Goto
  <2>3. step[Head(waiting)] = "wait"
    BY <1>7 DEF Take, Inv, Typed, StepInv, Queued
  <2>4. Unannounced' \subseteq Unannounced
    BY <2>1, <2>2, <2>3 DEF Unannounced
  <2> QED
    BY <2>1, <2>4, NoLoss
<1>8. CASE Crash
  BY <1>8, CrashLoss
<1>9. CASE UNCHANGED <<step, stored, notices, bounds>>
  <2>1. Unannounced' \subseteq Unannounced
    BY <1>9 DEF Unannounced
  <2> QED
    BY <1>9, <2>1, NoLoss
<1> QED
  BY <1>1, <1>2, <1>3, <1>4, <1>5, <1>6, <1>7, <1>8, <1>9 DEF Next, Handle, Transfer, SignUp, vars

\* Recorded swaps of known owners that go without their notification are no
\* more than errors and, for each crash, slots.
THEOREM LossBounded == Spec => []LossIsBounded
<1>1. Init => Inv /\ Width /\ Found /\ LossInv
  BY InitInv, InitWidth, InitFound, InitLoss
<1>2. Inv /\ Width /\ Found /\ LossInv /\ [Next]_vars => Inv' /\ Width' /\ Found' /\ LossInv'
  BY NextInv, NextWidth, NextFound, NextLoss
<1>3. LossInv => LossIsBounded
  BY DEF LossInv
<1> QED
  BY <1>1, <1>2, <1>3, PTL DEF Spec
===============================================================================

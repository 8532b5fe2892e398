-------------------------- MODULE TaskQueueProofs --------------------------
(***************************************************************************)
(* What TaskQueue keeps whatever the numbers of tasks, places, retries and *)
(* faults are: type correctness, no message given back while its task      *)
(* runs, nothing vanishes, the promise of AtLeastOnce, and a dead letter   *)
(* for every failure to review.                                            *)
(***************************************************************************)
EXTENDS TaskQueue, TLAPS

-----------------------------------------------------------------------------
(* The bag of queued messages.                                             *)

(* Adding a message keeps a bag a bag and what is in it. *)
LEMMA AddToBag ==
    ASSUME NEW q, IsABag(q), NEW m
    PROVE  /\ IsABag(q (+) SetToBag({m}))
           /\ BagToSet(q (+) SetToBag({m})) = BagToSet(q) \cup {m}
BY DEF IsABag, BagToSet, SetToBag, (+)

(* Removing one copy of a message may leave others of it. *)
LEMMA RemoveFromBag ==
    ASSUME NEW q, IsABag(q), NEW m
    PROVE  /\ IsABag(q (-) SetToBag({m}))
           /\ BagToSet(q) \ {m} \subseteq BagToSet(q (-) SetToBag({m}))
           /\ BagToSet(q (-) SetToBag({m})) \subseteq BagToSet(q)
BY DEF IsABag, BagToSet, SetToBag, (-)

(* The next attempt is a message too, as long as retries are left. *)
LEMMA MessageTypes ==
    ASSUME NEW i \in Ids, NEW r \in 0..MaxRetries
    PROVE  Msg(i, r) \in Messages /\ Msg(i, r).id = i
BY DEF Msg, Messages

(* The parts of a delivery. *)
LEMMA DeliveryTypes ==
    ASSUME TypeOK, NEW s \in Slots, Busy(s)
    PROVE  /\ slot[s] \in Delivery /\ slot[s].msg \in Messages
           /\ IdOf(s) \in Ids /\ slot[s].msg.retry \in 0..MaxRetries
           /\ slot[s].time \in Nat /\ slot[s].age \in Nat /\ slot[s].held \in BOOLEAN
BY DEF TypeOK, Busy, Free, Delivery, IdOf, Messages

(* A delivery in which a part has changed is a delivery. *)
LEMMA PhaseUpdate ==
    ASSUME NEW d \in Delivery, NEW p \in {"wait", "run", "ack"}
    PROVE  [d EXCEPT !.phase = p] \in Delivery
BY DEF Delivery

LEMMA TimeUpdate ==
    ASSUME NEW d \in Delivery, NEW t \in Nat
    PROVE  [d EXCEPT !.time = t] \in Delivery
BY DEF Delivery

LEMMA AgeUpdate ==
    ASSUME NEW d \in Delivery, NEW a \in Nat
    PROVE  [d EXCEPT !.age = a] \in Delivery
BY DEF Delivery

LEMMA HeldUpdate ==
    ASSUME NEW d \in Delivery, NEW h \in BOOLEAN
    PROVE  [d EXCEPT !.held = h] \in Delivery
BY DEF Delivery

LEMMA OlderIsNat ==
    ASSUME QueueAssumption, NEW a \in Nat
    PROVE  Older(a) \in Nat /\ Older(a) <= a + 1 /\ a <= Older(a)
BY DEF QueueAssumption, Older

-----------------------------------------------------------------------------
(* Type correctness.                                                       *)

(* The types of the broker's side and of the table, apart. *)
LEMMA EnqueueType ==
    ASSUME TypeOK, NEW m \in Messages, Enqueue(m)
    PROVE  IsABag(queued') /\ BagToSet(queued') \subseteq Messages
<1>1. IsABag(queued) /\ BagToSet(queued) \subseteq Messages
  BY DEF TypeOK
<1>2. queued' = queued (+) SetToBag({m})
  BY DEF Enqueue
<1>3. /\ IsABag(queued (+) SetToBag({m}))
      /\ BagToSet(queued (+) SetToBag({m})) = BagToSet(queued) \cup {m}
  BY <1>1, AddToBag
<1>4. QED
  BY <1>1, <1>2, <1>3

(* Rows of the dead-letter table that are there. *)
LEMMA DlqTypes ==
    ASSUME TypeOK, NEW i \in Ids
    PROVE  /\ dlq[i].present => dlq[i] \in DlqRows
           /\ \A row \in DlqRows : /\ [row EXCEPT !.requeued = TRUE] \in DlqRows
                                  /\ [row EXCEPT !.resolved = TRUE] \in DlqRows
           /\ DlqRow(FALSE, FALSE) \in DlqRows
<1>1. dlq[i] \in {NoRow} \cup DlqRows
  BY DEF TypeOK
<1>2. dlq[i].present => dlq[i] \in DlqRows
  BY <1>1 DEF NoRow
<1>3. QED
  BY <1>2 DEF DlqRows, DlqRow

LEMMA EnterType ==
    ASSUME TypeOK, NEW s \in Slots, Busy(s), NEW p \in {"wait", "run", "ack"}, Enter(s, p)
    PROVE  slot' \in [Slots -> {Free} \cup Delivery]
<1>1. [[slot[s] EXCEPT !.phase = p] EXCEPT !.time = 0] \in Delivery
  BY DeliveryTypes, PhaseUpdate, TimeUpdate
<1>2. slot' = [slot EXCEPT ![s] = [[slot[s] EXCEPT !.phase = p] EXCEPT !.time = 0]]
  BY DEF Enter
<1>3. QED
  BY <1>1, <1>2 DEF TypeOK

LEMMA TypeInit == ASSUME QueueAssumption, Init PROVE TypeOK
BY DEF QueueAssumption, Init, TypeOK, EmptyBag, IsABag, BagToSet, SetToBag, Messages

LEMMA TypeStep == ASSUME QueueAssumption, TypeOK, [Next]_vars PROVE TypeOK'
<1> USE QueueAssumption DEF QueueAssumption
<1>1. ASSUME NEW i \in Ids, Submit(i) PROVE TypeOK'
  <2>1. Msg(i, 0) \in Messages BY MessageTypes
  <2>2. IsABag(queued') /\ BagToSet(queued') \subseteq Messages
    BY <1>1, <2>1, EnqueueType DEF Submit, Publish
  <2>3. QED BY <1>1, <2>2 DEF TypeOK, Submit, Publish, lossVars
<1>2. ASSUME NEW s \in Slots, NEW m \in BagToSet(queued), Deliver(s, m) PROVE TypeOK'
  <2>1. Delivered(m) \in Delivery
    BY DEF TypeOK, Delivered, Delivery
  <2>2. slot' \in [Slots -> {Free} \cup Delivery]
    BY <1>2, <2>1 DEF TypeOK, Deliver
  <2>3. IsABag(queued') /\ BagToSet(queued') \subseteq Messages
    BY <1>2, RemoveFromBag DEF TypeOK, Deliver
  <2>4. QED
    BY <1>2, <2>2, <2>3 DEF TypeOK, Deliver, taskVars, lossVars
<1>3. ASSUME NEW s \in Slots, Start(s) PROVE TypeOK'
  <2>1. Busy(s) BY <1>3 DEF Start, Busy
  <2>2. QED BY <1>3, <2>1, EnterType DEF TypeOK, Start, taskVars, lossVars
<1>4. ASSUME NEW s \in Slots, Expire(s) PROVE TypeOK'
  <2>1. Busy(s) /\ IdOf(s) \in Ids BY <1>4, DeliveryTypes DEF Expire, Busy
  <2>2. slot' \in [Slots -> {Free} \cup Delivery] BY <1>4, <2>1, EnterType DEF Expire
  <2>3. fate' \in [Ids -> {"unused", "pending", "failed", "killed", "over"}]
    BY <1>4, <2>1 DEF TypeOK, Expire, Settle
  <2>4. QED BY <1>4, <2>2, <2>3 DEF TypeOK, Expire, taskVars, lossVars
<1>5. ASSUME NEW s \in Slots, Outcome(s) PROVE TypeOK'
  <2>1. Running(s) BY <1>5 DEF Outcome, Succeed, Retry, Fail, FailUnrecorded, HardKill
  <2>2. Busy(s) /\ IdOf(s) \in Ids BY <2>1, DeliveryTypes DEF Running, Busy
  <2>3. slot' \in [Slots -> {Free} \cup Delivery]
    BY <1>5, <2>2, EnterType DEF Outcome, Succeed, Retry, Fail, FailUnrecorded, HardKill
  <2>4. CASE Succeed(s) \/ HardKill(s)
    BY <2>2, <2>3, <2>4 DEF TypeOK, Succeed, HardKill, Settle, lossVars
  <2>5. CASE Retry(s)
    <3>1. Msg(IdOf(s), slot[s].msg.retry + 1) \in Messages
      BY <2>2, <2>5, DeliveryTypes, MessageTypes DEF Retry
    <3>2. QED BY <2>3, <2>5, <3>1, EnqueueType DEF TypeOK, Retry, taskVars, lossVars
  <2>6. CASE Fail(s)
    <3>1. dlq' \in [Ids -> {NoRow} \cup DlqRows]
      BY <2>2, <2>6, DlqTypes DEF TypeOK, Fail, DeadLetter
    <3>2. QED BY <2>2, <2>3, <2>6, <3>1 DEF TypeOK, Fail, Settle, lossVars
  <2>7. CASE FailUnrecorded(s)
    BY <2>2, <2>3, <2>7 DEF TypeOK, FailUnrecorded, FaultLeft, Settle, lossVars
  <2>8. QED BY <1>5, <2>4, <2>5, <2>6, <2>7 DEF Outcome
<1>6. ASSUME NEW s \in Slots, Ack(s) PROVE TypeOK'
  BY <1>6 DEF TypeOK, Ack, taskVars, lossVars
<1>7. ASSUME NEW s \in Slots, Crash(s) \/ ProcessLost(s) PROVE TypeOK'
  <2>1. Busy(s) /\ FaultLeft /\ Lose(s) BY <1>7 DEF Crash, ProcessLost, Lose
  <2>2. slot' \in [Slots -> {Free} \cup Delivery] BY <2>1 DEF TypeOK, Lose
  <2>3. /\ crashes \in 0..MaxFaults
        /\ crashes' \in Nat /\ restores' \in Nat /\ dlqErrors' \in Nat
        /\ crashes' + restores' + dlqErrors' <= MaxFaults
    BY <2>1 DEF TypeOK, Lose, FaultLeft, taskVars
  <2>4. CASE Crash(s)
    <3>1. [msg |-> slot[s].msg, age |-> slot[s].age, nr |-> crashes]
             \in [msg: Messages, age: Nat, nr: 0..MaxFaults]
      BY <2>1, <2>3, DeliveryTypes
    <3>2. QED BY <2>2, <2>3, <2>4, <3>1 DEF TypeOK, Crash, Lose, taskVars
  <2>5. CASE ProcessLost(s)
    <3>1. IsABag(queued') /\ BagToSet(queued') \subseteq Messages
      BY <2>1, <2>5, DeliveryTypes, EnqueueType DEF TypeOK, ProcessLost
    <3>2. QED BY <2>2, <2>3, <2>5, <3>1 DEF TypeOK, ProcessLost, Lose, taskVars
  <2>6. QED BY <1>7, <2>4, <2>5
<1>8. ASSUME NEW s \in Slots, RestoreHeld(s) PROVE TypeOK'
  <2>1. Busy(s) /\ FaultLeft BY <1>8 DEF RestoreHeld
  <2>2. IsABag(queued') /\ BagToSet(queued') \subseteq Messages
    BY <1>8, <2>1, DeliveryTypes, EnqueueType DEF RestoreHeld
  <2>3. slot' \in [Slots -> {Free} \cup Delivery]
    <3>1. [slot[s] EXCEPT !.held = FALSE] \in Delivery
      BY <2>1, DeliveryTypes, HeldUpdate
    <3>2. slot' = [slot EXCEPT ![s] = [slot[s] EXCEPT !.held = FALSE]]
      BY <1>8 DEF RestoreHeld
    <3>3. QED BY <3>1, <3>2 DEF TypeOK
  <2>4. QED BY <1>8, <2>1, <2>2, <2>3 DEF TypeOK, RestoreHeld, FaultLeft, taskVars
<1>9. ASSUME NEW o \in orphans, RestoreOrphan(o) PROVE TypeOK'
  <2>1. o.msg \in Messages BY DEF TypeOK
  <2>2. QED BY <1>9, <2>1, EnqueueType DEF TypeOK, RestoreOrphan, taskVars, lossVars
<1>10. CASE Tick
  <2>1. ASSUME NEW s \in Slots, Busy(s)
        PROVE  [[slot[s] EXCEPT !.time = slot[s].time + 1] EXCEPT !.age = Older(slot[s].age)] \in Delivery
    <3>1. [slot[s] EXCEPT !.time = slot[s].time + 1] \in Delivery
      <4>1. slot[s] \in Delivery /\ slot[s].time + 1 \in Nat BY <2>1, DeliveryTypes
      <4>2. QED BY <4>1, TimeUpdate
    <3>2. Older(slot[s].age) \in Nat
      BY <2>1, DeliveryTypes, OlderIsNat
    <3>3. QED
      BY <3>1, <3>2, AgeUpdate
  <2>2. slot' \in [Slots -> {Free} \cup Delivery]
    <3>1. slot' = [s \in Slots |->
                     IF Busy(s)
                     THEN [[slot[s] EXCEPT !.time = slot[s].time + 1] EXCEPT !.age = Older(slot[s].age)]
                     ELSE slot[s]]
      BY <1>10 DEF Tick, Delivery, TypeOK
    <3>2. \A s \in Slots : slot[s] \in {Free} \cup Delivery
      BY DEF TypeOK
    <3>3. QED BY <2>1, <3>1, <3>2
  <2>3. ASSUME NEW o \in orphans
        PROVE  [o EXCEPT !.age = Older(@)] \in [msg: Messages, age: Nat, nr: 0..MaxFaults]
    <3>1. o \in [msg: Messages, age: Nat, nr: 0..MaxFaults] BY DEF TypeOK
    <3>2. Older(o.age) \in Nat BY <3>1, OlderIsNat
    <3>3. QED BY <3>1, <3>2
  <2>4. QED BY <1>10, <2>2, <2>3 DEF TypeOK, Tick, taskVars, lossVars
<1>11. ASSUME NEW i \in Ids, NEW j \in Ids, SendRequeue(i, j) PROVE TypeOK'
  <2>1. Msg(j, 0) \in Messages BY MessageTypes
  <2>2. IsABag(queued') /\ BagToSet(queued') \subseteq Messages
    BY <1>11, <2>1, EnqueueType DEF SendRequeue, Publish
  <2>3. QED BY <1>11, <2>2 DEF TypeOK, SendRequeue, Publish, lossVars
<1>12. ASSUME NEW i \in Ids, MarkRequeued(i) PROVE TypeOK'
  <2>1. dlq' \in [Ids -> {NoRow} \cup DlqRows]
    <3>1. CASE dlq[i].present
      <4>1. dlq[i] \in DlqRows
        BY <3>1, DlqTypes
      <4>2. [dlq[i] EXCEPT !.requeued = TRUE] \in DlqRows
        BY <4>1, DlqTypes
      <4>3. dlq' = [dlq EXCEPT ![i] = [dlq[i] EXCEPT !.requeued = TRUE]]
        BY <1>12, <3>1 DEF MarkRequeued
      <4>4. QED BY <4>2, <4>3 DEF TypeOK
    <3>2. CASE ~dlq[i].present
      BY <1>12, <3>2 DEF TypeOK, MarkRequeued
    <3>3. QED BY <3>1, <3>2
  <2>2. QED BY <1>12, <2>1 DEF TypeOK, MarkRequeued, lossVars
<1>13. ASSUME NEW i \in Ids, MarkResolved(i) \/ Delete(i) PROVE TypeOK'
  <2>1. dlq[i] \in DlqRows
    BY <1>13, DlqTypes DEF MarkResolved, Delete, Review
  <2>2. PICK row \in {NoRow} \cup DlqRows : Review(i, row)
    <3>1. [dlq[i] EXCEPT !.resolved = TRUE] \in DlqRows
      BY <2>1, DlqTypes
    <3>2. QED BY <1>13, <3>1 DEF MarkResolved, Delete
  <2>3. fate' \in [Ids -> {"unused", "pending", "failed", "killed", "over"}]
    BY <2>2 DEF TypeOK, Review, Settle
  <2>4. QED BY <2>2, <2>3 DEF TypeOK, Review, lossVars
<1>14. CASE Purge
  BY <1>14 DEF TypeOK, Purge, lossVars
<1>15. CASE UNCHANGED vars
  BY <1>15 DEF TypeOK, vars, taskVars, lossVars
<1>16. QED
  BY <1>1, <1>2, <1>3, <1>4, <1>5, <1>6, <1>7, <1>8, <1>9, <1>10, <1>11, <1>12,
     <1>13, <1>14, <1>15 DEF Next, WorkerStep, RestoreStep, OperatorStep

-----------------------------------------------------------------------------
(* How old a delivery can be: below the visibility timeout until the body  *)
(* has ended, so that it is still held.                                    *)

Timing(s) ==
    /\ slot[s].phase = "wait" =>
          /\ slot[s].held
          /\ slot[s].age <= slot[s].time /\ slot[s].time <= MaxWait
    /\ slot[s].phase = "run" =>
          /\ slot[s].held
          /\ slot[s].age <= MaxWait + slot[s].time /\ slot[s].time <= HardLimit
          /\ IdOf(s) \in Swallowing \/ slot[s].time <= SoftLimit

AllTimed == \A s \in Slots : Timing(s)

(* A place that is left alone keeps its timing. *)
LEMMA TimingOfOthers ==
    ASSUME AllTimed, NEW t \in Slots, slot'[t] = slot[t]
    PROVE  Timing(t)'
BY DEF AllTimed, Timing, IdOf

(* A place whose delivery enters "run" from "wait", or "ack". *)
LEMMA TimingOfEntered ==
    ASSUME QueueAssumption, TypeOK, AllTimed, NEW s \in Slots, Busy(s),
           NEW p \in {"run", "ack"}, Enter(s, p),
           p = "run" => slot[s].phase = "wait"
    PROVE  AllTimed'
<1>1. slot'[s] = [[slot[s] EXCEPT !.phase = p] EXCEPT !.time = 0]
  BY DEF TypeOK, Enter
<1>2. \A t \in Slots \ {s} : slot'[t] = slot[t]
  BY DEF TypeOK, Enter
<1>3. /\ slot[s] \in Delivery
      /\ [slot[s] EXCEPT !.phase = p] \in Delivery
  BY DeliveryTypes, PhaseUpdate
<1>4. /\ slot'[s].phase = p /\ slot'[s].time = 0
      /\ slot'[s].age = slot[s].age /\ slot'[s].held = slot[s].held
  BY <1>1, <1>3 DEF Delivery
<1>5. Timing(s)'
  <2>1. CASE p = "ack" BY <2>1, <1>4 DEF Timing
  <2>2. CASE p = "run"
    <3>1. slot[s].held /\ slot[s].age <= MaxWait
      BY <2>2, DeliveryTypes DEF AllTimed, Timing, QueueAssumption
    <3>2. QED BY <2>2, <1>4, <3>1, DeliveryTypes DEF Timing, QueueAssumption
  <2>3. QED BY <2>1, <2>2
<1>6. QED
  BY <1>2, <1>5, TimingOfOthers DEF AllTimed

LEMMA TimingInit == ASSUME Init PROVE AllTimed
BY DEF Init, AllTimed, Timing, Free

LEMMA TimingStep ==
    ASSUME QueueAssumption, TypeOK, AllTimed, [Next]_vars
    PROVE  AllTimed'
<1>1. CASE slot' = slot
  BY <1>1 DEF AllTimed, Timing, IdOf
<1>2. ASSUME NEW s \in Slots, NEW m \in BagToSet(queued), Deliver(s, m) PROVE AllTimed'
  <2>1. slot'[s] = Delivered(m) /\ \A t \in Slots \ {s} : slot'[t] = slot[t]
    BY <1>2 DEF TypeOK, Deliver
  <2>2. Timing(s)'
    BY <2>1 DEF Timing, Delivered, QueueAssumption
  <2>3. QED BY <2>1, <2>2, TimingOfOthers DEF AllTimed
<1>3. ASSUME NEW s \in Slots, Start(s) PROVE AllTimed'
  BY <1>3, TimingOfEntered DEF Start, Busy
<1>4. ASSUME NEW s \in Slots, Expire(s) PROVE AllTimed'
  BY <1>4, TimingOfEntered DEF Expire, Busy
<1>5. ASSUME NEW s \in Slots, Outcome(s) PROVE AllTimed'
  BY <1>5, TimingOfEntered DEF Outcome, Succeed, Retry, Fail, FailUnrecorded, HardKill, Running, Busy
<1>6. ASSUME NEW s \in Slots, Ack(s) \/ Crash(s) \/ ProcessLost(s) PROVE AllTimed'
  <2>1. slot' = [slot EXCEPT ![s] = Free]
    BY <1>6 DEF Ack, Crash, ProcessLost, Lose
  <2>2. slot'[s] = Free /\ \A t \in Slots \ {s} : slot'[t] = slot[t]
    BY <2>1 DEF TypeOK
  <2>3. Timing(s)'
    BY <2>2 DEF Timing, Free
  <2>4. QED BY <2>2, <2>3, TimingOfOthers DEF AllTimed
<1>7. ASSUME NEW s \in Slots, RestoreHeld(s) PROVE AllTimed'
  <2>1. Busy(s) /\ slot[s].age >= Visibility
    BY <1>7 DEF RestoreHeld
  <2>2. slot[s].phase = "ack"
    BY <2>1, DeliveryTypes DEF AllTimed, Timing, QueueAssumption, Delivery
  <2>3. slot' = [slot EXCEPT ![s] = [slot[s] EXCEPT !.held = FALSE]]
    BY <1>7 DEF RestoreHeld
  <2>4. slot'[s] = [slot[s] EXCEPT !.held = FALSE] /\ \A t \in Slots \ {s} : slot'[t] = slot[t]
    BY <2>3 DEF TypeOK
  <2>5. slot'[s].phase = "ack"
    BY <2>1, <2>2, <2>4, DeliveryTypes DEF Delivery
  <2>6. QED BY <2>4, <2>5, TimingOfOthers DEF AllTimed, Timing
<1>8. CASE Tick
  <2>1. SUFFICES ASSUME NEW s \in Slots PROVE Timing(s)'
    BY DEF AllTimed
  <2>2. CASE ~Busy(s)
    <3>1. slot'[s] = slot[s] BY <1>8, <2>2 DEF Tick
    <3>2. QED BY <3>1, TimingOfOthers
  <2>3. CASE Busy(s)
    <3>1. slot'[s] = [[slot[s] EXCEPT !.time = slot[s].time + 1] EXCEPT !.age = Older(slot[s].age)]
      BY <1>8, <2>3 DEF Tick
    <3>2. slot[s] \in Delivery /\ slot[s].time + 1 \in Nat /\ Older(slot[s].age) <= slot[s].age + 1
      BY <2>3, DeliveryTypes, OlderIsNat
    <3>3. [slot[s] EXCEPT !.time = slot[s].time + 1] \in Delivery
      BY <3>2, TimeUpdate
    <3>4. /\ slot'[s].phase = slot[s].phase /\ slot'[s].held = slot[s].held
          /\ slot'[s].time = slot[s].time + 1 /\ slot'[s].age = Older(slot[s].age)
          /\ IdOf(s)' = IdOf(s)
      BY <3>1, <3>2, <3>3 DEF Delivery, IdOf
    <3>5. slot[s].time < LimitOf(s)
      BY <1>8, <2>3 DEF Tick
    <3>6. Older(slot[s].age) \in Nat /\ slot[s].age \in Nat /\ slot[s].time \in Nat
      BY <2>3, DeliveryTypes, OlderIsNat
    <3>7. CASE slot[s].phase = "wait"
      <4>1. slot[s].time < MaxWait
        BY <3>5, <3>7 DEF LimitOf
      <4>2. QED
        BY <3>2, <3>4, <3>6, <3>7, <4>1 DEF AllTimed, Timing, QueueAssumption
    <3>8. CASE slot[s].phase = "run"
      <4>1. slot[s].time < HardLimit /\ (IdOf(s) \in Swallowing \/ slot[s].time < SoftLimit)
        BY <3>5, <3>6, <3>8 DEF LimitOf, QueueAssumption
      <4>2. QED
        BY <3>2, <3>4, <3>6, <3>8, <4>1 DEF AllTimed, Timing, QueueAssumption
    <3>9. CASE slot[s].phase = "ack"
      BY <3>4, <3>9 DEF Timing
    <3>10. QED
      BY <3>2, <3>7, <3>8, <3>9 DEF Delivery
  <2>4. QED BY <2>2, <2>3
<1>9. QED
  BY <1>1, <1>2, <1>3, <1>4, <1>5, <1>6, <1>7, <1>8
  DEF Next, vars, WorkerStep, RestoreStep, OperatorStep, Submit, RestoreOrphan,
      SendRequeue, MarkRequeued, MarkResolved, Delete, Review, Purge

-----------------------------------------------------------------------------
(* Where the copies of a task are, as sets of ids.                         *)

Queued == {m.id : m \in BagToSet(queued)}
Lost == {o.msg.id : o \in orphans}
Working == {IdOf(s) : s \in {t \in Slots : Unfinished(t)}}
Placed == {IdOf(s) : s \in {t \in Slots : Busy(t)}}

Copies == Queued \cup Lost \cup Working

(* What the places other than s have. *)
WorkingElsewhere(s) == {IdOf(t) : t \in {u \in Slots \ {s} : Unfinished(u)}}
PlacedElsewhere(s) == {IdOf(t) : t \in {u \in Slots \ {s} : Busy(u)}}

(* No copy of a task that was not submitted. *)
Known == \A i \in Queued \cup Lost \cup Placed : fate[i] # "unused"

Lives == [i \in Ids |-> LifeOf(i)]

QueueInv == TypeOK /\ AllTimed /\ Known /\ NothingVanishes

(* HasCopy, StillHeld and Copies say the same. *)
CopiesAgree ==
    /\ Copies \subseteq Ids
    /\ \A i \in Ids : StillHeld(i) <=> i \in Copies
    /\ {i \in Ids : HasCopy(i)} = Copies

LEMMA CopiesAreHeld == TypeOK /\ AllTimed => CopiesAgree
<1> SUFFICES ASSUME TypeOK, AllTimed PROVE CopiesAgree
  OBVIOUS
<1>1. Copies \subseteq Ids
  <2>1. Queued \subseteq Ids BY DEF TypeOK, Queued, Messages
  <2>2. Lost \subseteq Ids BY DEF TypeOK, Lost, Messages
  <2>3. Working \subseteq Ids BY DeliveryTypes DEF Working, Unfinished, Busy
  <2>4. QED BY <2>1, <2>2, <2>3 DEF Copies
<1>2. \A s \in Slots : Unfinished(s) => slot[s].held
  BY DEF AllTimed, Timing, Unfinished
<1>3. \A i \in Ids : StillHeld(i) <=> i \in Copies
  BY <1>2 DEF StillHeld, Copies, Queued, Lost, Working
<1>4. \A i \in Ids : HasCopy(i) <=> i \in Copies
  BY <1>2, <1>3 DEF HasCopy, StillHeld
<1>5. QED
  BY <1>1, <1>3, <1>4 DEF CopiesAgree

(* Publishing a message adds its task. *)
LEMMA EnqueueCopies ==
    ASSUME TypeOK, NEW m \in Messages, Enqueue(m)
    PROVE  Queued' = Queued \cup {m.id}
<1>1. BagToSet(queued') = BagToSet(queued) \cup {m}
  <2>1. IsABag(queued) BY DEF TypeOK
  <2>2. BagToSet(queued (+) SetToBag({m})) = BagToSet(queued) \cup {m} BY <2>1, AddToBag
  <2>3. queued' = queued (+) SetToBag({m}) BY DEF Enqueue
  <2>4. QED BY <2>2, <2>3
<1>2. QED
  BY <1>1 DEF Queued

(* One place changes. *)
LEMMA PlaceChanges ==
    ASSUME TypeOK, NEW s \in Slots, NEW d, slot' = [slot EXCEPT ![s] = d]
    PROVE  /\ slot'[s] = d
           /\ WorkingElsewhere(s)' = WorkingElsewhere(s)
           /\ PlacedElsewhere(s)' = PlacedElsewhere(s)
<1>1. slot'[s] = d /\ \A t \in Slots \ {s} : slot'[t] = slot[t]
  BY DEF TypeOK
<1>2. WorkingElsewhere(s)' = WorkingElsewhere(s)
  <2>1. \A i : i \in WorkingElsewhere(s)
                <=> \E t \in Slots \ {s} : slot[t].phase \in {"wait", "run"} /\ i = slot[t].msg.id
    BY DEF WorkingElsewhere, Unfinished, IdOf
  <2>2. \A i : i \in WorkingElsewhere(s)'
                <=> \E t \in Slots \ {s} : slot'[t].phase \in {"wait", "run"} /\ i = slot'[t].msg.id
    BY DEF WorkingElsewhere, Unfinished, IdOf
  <2>3. \A i : i \in WorkingElsewhere(s)' <=> i \in WorkingElsewhere(s)
    BY <1>1, <2>1, <2>2
  <2>4. QED BY <2>3, SetExtensionality
<1>3. PlacedElsewhere(s)' = PlacedElsewhere(s)
  <2>1. \A i : i \in PlacedElsewhere(s)
                <=> \E t \in Slots \ {s} : slot[t].phase # "free" /\ i = slot[t].msg.id
    BY DEF PlacedElsewhere, Busy, IdOf
  <2>2. \A i : i \in PlacedElsewhere(s)'
                <=> \E t \in Slots \ {s} : slot'[t].phase # "free" /\ i = slot'[t].msg.id
    BY DEF PlacedElsewhere, Busy, IdOf
  <2>3. \A i : i \in PlacedElsewhere(s)' <=> i \in PlacedElsewhere(s)
    BY <1>1, <2>1, <2>2
  <2>4. QED BY <2>3, SetExtensionality
<1>4. QED
  BY <1>1, <1>2, <1>3

(* A place's share of what is worked on and placed. *)
LEMMA PlaceShare ==
    ASSUME NEW s \in Slots
    PROVE  /\ Unfinished(s) => Working = WorkingElsewhere(s) \cup {IdOf(s)}
           /\ ~Unfinished(s) => Working = WorkingElsewhere(s)
           /\ Busy(s) => Placed = PlacedElsewhere(s) \cup {IdOf(s)}
           /\ ~Busy(s) => Placed = PlacedElsewhere(s)
BY DEF Working, Placed, WorkingElsewhere, PlacedElsewhere

LEMMA PlaceShareNext ==
    ASSUME NEW s \in Slots
    PROVE  /\ Unfinished(s)' => Working' = WorkingElsewhere(s)' \cup {IdOf(s)'}
           /\ ~Unfinished(s)' => Working' = WorkingElsewhere(s)'
           /\ Busy(s)' => Placed' = PlacedElsewhere(s)' \cup {IdOf(s)'}
           /\ ~Busy(s)' => Placed' = PlacedElsewhere(s)'
BY DEF Working, Placed, WorkingElsewhere, PlacedElsewhere

(* A place whose delivery enters a phase keeps its message. *)
LEMMA EnterCopies ==
    ASSUME TypeOK, NEW s \in Slots, Busy(s), NEW p \in {"run", "ack"}, Enter(s, p)
    PROVE  /\ Placed' = Placed
           /\ p = "run" => Working' = WorkingElsewhere(s) \cup {IdOf(s)}
           /\ p = "ack" => Working' = WorkingElsewhere(s)
<1>1. slot' = [slot EXCEPT ![s] = [[slot[s] EXCEPT !.phase = p] EXCEPT !.time = 0]]
  BY DEF Enter
<1>2. slot[s] \in Delivery /\ [slot[s] EXCEPT !.phase = p] \in Delivery
  BY DeliveryTypes, PhaseUpdate
<1>3. slot'[s].phase = p /\ slot'[s].msg = slot[s].msg
  <2>1. slot'[s] = [[slot[s] EXCEPT !.phase = p] EXCEPT !.time = 0]
    BY <1>1, PlaceChanges
  <2>2. QED BY <1>2, <2>1 DEF Delivery
<1>4. Busy(s)' /\ IdOf(s)' = IdOf(s) /\ (Unfinished(s)' <=> p = "run")
  BY <1>3 DEF Busy, IdOf, Unfinished
<1>5. /\ WorkingElsewhere(s)' = WorkingElsewhere(s)
      /\ PlacedElsewhere(s)' = PlacedElsewhere(s)
  BY <1>1, PlaceChanges
<1>6. QED
  BY <1>4, <1>5, PlaceShare, PlaceShareNext

(* A place that is vacated. *)
LEMMA VacateCopies ==
    ASSUME TypeOK, NEW s \in Slots, slot' = [slot EXCEPT ![s] = Free]
    PROVE  Working' = WorkingElsewhere(s) /\ Placed' \subseteq Placed
<1>1. slot'[s] = Free
  BY PlaceChanges
<1>2. ~Busy(s)' /\ ~Unfinished(s)'
  BY <1>1 DEF Busy, Unfinished, Free
<1>3. /\ WorkingElsewhere(s)' = WorkingElsewhere(s)
      /\ PlacedElsewhere(s)' = PlacedElsewhere(s)
  BY PlaceChanges
<1>4. QED
  BY <1>2, <1>3, PlaceShare, PlaceShareNext

-----------------------------------------------------------------------------
(* What a step can do to lives and copies: nothing, a submission, an end,  *)
(* or another copy of a task that has ended.                               *)

Still == Lives' = Lives /\ Copies' = Copies

Begins(i) ==
    /\ LifeOf(i) = "unused" /\ Lives' = [Lives EXCEPT ![i] = "pending"]
    /\ Copies' = Copies \cup {i}

Ends(i) ==
    /\ i \in Copies /\ Lives' = [Lives EXCEPT ![i] = "ended"]
    /\ Copies' \in {Copies, Copies \ {i}}

Reappears(i) ==
    /\ LifeOf(i) = "ended" /\ Lives' = Lives
    /\ Copies' = Copies \cup {i}

Moves == Still \/ \E i \in Ids : Begins(i) \/ Ends(i) \/ Reappears(i)

(* A task in some place, ended or not, may turn up once more. *)
LEMMA ComesBack ==
    ASSUME QueueInv, NEW s \in Slots, Busy(s), fate' = fate,
           Copies' = Copies \/ Copies' = Copies \cup {IdOf(s)}
    PROVE  Moves
<1>1. Lives' = Lives
  BY DEF Lives, LifeOf
<1>2. IdOf(s) \in Ids /\ fate[IdOf(s)] # "unused"
  <2>1. IdOf(s) \in Placed BY DEF Placed
  <2>2. QED BY <2>1, DeliveryTypes DEF QueueInv, Known
<1>3. CASE fate[IdOf(s)] = "pending"
  <2>1. IdOf(s) \in Copies
    BY <1>2, <1>3, CopiesAreHeld DEF CopiesAgree, QueueInv, NothingVanishes
  <2>2. QED BY <1>1, <2>1 DEF Moves, Still
<1>4. CASE fate[IdOf(s)] # "pending"
  BY <1>1, <1>2, <1>4 DEF Moves, Still, Reappears, LifeOf
<1>5. QED
  BY <1>3, <1>4

LEMMA Submission ==
    ASSUME QueueAssumption, TypeOK, NEW i \in Ids, Publish(i), UNCHANGED <<slot, orphans>>
    PROVE  Begins(i) /\ Placed' = Placed
<1>1. Msg(i, 0) \in Messages /\ Msg(i, 0).id = i
  BY MessageTypes DEF QueueAssumption
<1>2. Queued' = Queued \cup {i}
  BY <1>1, EnqueueCopies DEF Publish
<1>3. Lost' = Lost /\ Working' = Working /\ Placed' = Placed
  BY DEF Lost, Working, Placed, Unfinished, Busy, IdOf
<1>4. LifeOf(i) = "unused"
  BY DEF Publish, LifeOf
<1>5. Lives' = [Lives EXCEPT ![i] = "pending"]
  BY DEF Publish, Lives, LifeOf, TypeOK
<1>6. QED
  BY <1>2, <1>3, <1>4, <1>5 DEF Begins, Copies

(* The body or its message comes to an end in place s. *)
LEMMA Completion ==
    ASSUME TypeOK, NEW s \in Slots, Unfinished(s), Enter(s, "ack"),
           NEW f \in {"failed", "killed", "over"}, Settle(IdOf(s), f),
           UNCHANGED <<queued, orphans>>
    PROVE  Ends(IdOf(s)) /\ IdOf(s) \in Ids /\ Placed' = Placed
<1>1. Busy(s)
  BY DEF Unfinished, Busy
<1>2. IdOf(s) \in Ids
  BY <1>1, DeliveryTypes
<1>3. Placed' = Placed /\ Working' = WorkingElsewhere(s) /\ Working = WorkingElsewhere(s) \cup {IdOf(s)}
  BY <1>1, EnterCopies, PlaceShare
<1>4. Lost' = Lost /\ Queued' = Queued
  BY DEF Lost, Queued
<1>5. Lives' = [Lives EXCEPT ![IdOf(s)] = "ended"]
  BY <1>2 DEF Settle, Lives, LifeOf, TypeOK
<1>6. Copies' \in {Copies, Copies \ {IdOf(s)}} /\ IdOf(s) \in Copies
  BY <1>3, <1>4 DEF Copies
<1>7. QED
  BY <1>2, <1>3, <1>5, <1>6 DEF Ends

(* Every step is one of the four, and places receive known tasks only.     *)
LEMMA StepMoves ==
    ASSUME QueueAssumption, QueueInv, [Next]_vars
    PROVE  Moves /\ Placed' \subseteq Placed \cup Copies
<1> USE DEF QueueInv
<1>1. ASSUME NEW i \in Ids, Submit(i) PROVE Moves /\ Placed' \subseteq Placed \cup Copies
  BY <1>1, Submission DEF Submit, Moves
<1>2. ASSUME NEW i \in Ids, NEW j \in Ids, SendRequeue(i, j)
      PROVE  Moves /\ Placed' \subseteq Placed \cup Copies
  BY <1>2, Submission DEF SendRequeue, Moves
<1>3. ASSUME NEW s \in Slots, NEW m \in BagToSet(queued), Deliver(s, m)
      PROVE  Moves /\ Placed' \subseteq Placed \cup Copies
  <2>1. slot' = [slot EXCEPT ![s] = Delivered(m)] /\ ~Busy(s)
    BY <1>3 DEF Deliver
  <2>2. slot'[s] = Delivered(m)
    BY <2>1, PlaceChanges
  <2>3. Busy(s)' /\ Unfinished(s)' /\ IdOf(s)' = m.id /\ ~Unfinished(s)
    BY <2>1, <2>2 DEF Busy, Unfinished, IdOf, Delivered
  <2>4. Working' = Working \cup {m.id} /\ Placed' = Placed \cup {m.id}
    BY <2>1, <2>3, PlaceChanges, PlaceShare, PlaceShareNext
  <2>5. m.id \in Queued /\ Queued' \subseteq Queued /\ Queued \subseteq Queued' \cup {m.id}
    <3>1. IsABag(queued) /\ queued' = queued (-) SetToBag({m})
      BY <1>3 DEF TypeOK, Deliver
    <3>2. BagToSet(queued') \subseteq BagToSet(queued) /\ BagToSet(queued) \ {m} \subseteq BagToSet(queued')
      BY <3>1, RemoveFromBag
    <3>3. QED BY <3>2 DEF Queued
  <2>6. Lost' = Lost /\ Lives' = Lives
    BY <1>3 DEF Deliver, taskVars, Lost, Lives, LifeOf
  <2>7. QED BY <2>4, <2>5, <2>6 DEF Copies, Moves, Still
<1>4. ASSUME NEW s \in Slots, Start(s) PROVE Moves /\ Placed' \subseteq Placed \cup Copies
  <2>1. Busy(s) /\ Unfinished(s) BY <1>4 DEF Start, Busy, Unfinished
  <2>2. Working' = Working /\ Placed' = Placed
    BY <1>4, <2>1, EnterCopies, PlaceShare DEF Start
  <2>3. Lost' = Lost /\ Queued' = Queued /\ Lives' = Lives
    BY <1>4 DEF Start, taskVars, Lost, Queued, Lives, LifeOf
  <2>4. QED BY <2>2, <2>3 DEF Copies, Moves, Still
<1>5. ASSUME NEW s \in Slots, Expire(s) PROVE Moves /\ Placed' \subseteq Placed \cup Copies
  <2>1. Busy(s) /\ Unfinished(s) BY <1>5 DEF Expire, Busy, Unfinished
  <2>2. CASE fate[IdOf(s)] = "pending"
    BY <1>5, <2>1, <2>2, Completion DEF Expire, Moves
  <2>3. CASE fate[IdOf(s)] # "pending"
    <3>1. Working' = WorkingElsewhere(s) /\ Placed' = Placed
      BY <1>5, <2>1, EnterCopies DEF Expire
    <3>2. IdOf(s) \in Ids /\ fate[IdOf(s)] # "unused"
      <4>1. IdOf(s) \in Placed BY <2>1 DEF Placed
      <4>2. QED BY <2>1, <4>1, DeliveryTypes DEF Known
    <3>3. Working = WorkingElsewhere(s) \cup {IdOf(s)}
      BY <2>1, PlaceShare
    <3>4. Lost' = Lost /\ Queued' = Queued /\ Lives' = Lives
      BY <1>5, <2>3 DEF Expire, Lost, Queued, Lives, LifeOf
    <3>5. LifeOf(IdOf(s)) = "ended"
      BY <2>3, <3>2 DEF LifeOf
    <3>6. Lives' = [Lives EXCEPT ![IdOf(s)] = "ended"]
      BY <3>2, <3>4, <3>5 DEF Lives
    <3>7. Ends(IdOf(s))
      BY <3>1, <3>3, <3>4, <3>6 DEF Ends, Copies
    <3>8. QED BY <3>1, <3>2, <3>7 DEF Moves
  <2>4. QED BY <2>2, <2>3
<1>6. ASSUME NEW s \in Slots, Outcome(s) PROVE Moves /\ Placed' \subseteq Placed \cup Copies
  <2>1. Running(s) /\ Unfinished(s) /\ Busy(s)
    BY <1>6 DEF Outcome, Succeed, Retry, Fail, FailUnrecorded, HardKill, Running, Unfinished, Busy
  <2>2. CASE Succeed(s) \/ HardKill(s) \/ FailUnrecorded(s)
    BY <2>1, <2>2, Completion DEF Succeed, HardKill, FailUnrecorded, Moves
  <2>3. CASE Fail(s)
    BY <2>1, <2>3, Completion DEF Fail, Moves
  <2>4. CASE Retry(s)
    <3>1. IdOf(s) \in Ids /\ slot[s].msg.retry + 1 \in 0..MaxRetries
      BY <2>1, <2>4, DeliveryTypes DEF Retry, QueueAssumption
    <3>2. Queued' = Queued \cup {IdOf(s)}
      BY <2>4, <3>1, MessageTypes, EnqueueCopies DEF Retry
    <3>3. Working' = WorkingElsewhere(s) /\ Placed' = Placed /\ Working = WorkingElsewhere(s) \cup {IdOf(s)}
      BY <2>1, <2>4, EnterCopies, PlaceShare DEF Retry
    <3>4. Lost' = Lost /\ Lives' = Lives
      BY <2>4 DEF Retry, taskVars, Lost, Lives, LifeOf
    <3>5. QED BY <3>2, <3>3, <3>4 DEF Copies, Moves, Still
  <2>5. QED BY <1>6, <2>2, <2>3, <2>4 DEF Outcome
<1>7. ASSUME NEW s \in Slots, Ack(s) PROVE Moves /\ Placed' \subseteq Placed \cup Copies
  <2>1. ~Unfinished(s) BY <1>7 DEF Ack, Unfinished
  <2>2. Working' = Working /\ Placed' \subseteq Placed
    BY <1>7, <2>1, VacateCopies, PlaceShare DEF Ack
  <2>3. Lost' = Lost /\ Queued' = Queued /\ Lives' = Lives
    BY <1>7 DEF Ack, taskVars, Lost, Queued, Lives, LifeOf
  <2>4. QED BY <2>2, <2>3 DEF Copies, Moves, Still
<1>8. ASSUME NEW s \in Slots, Crash(s) PROVE Moves /\ Placed' \subseteq Placed \cup Copies
  <2>1. Busy(s) /\ slot' = [slot EXCEPT ![s] = Free] /\ fate' = fate /\ Queued' = Queued
    BY <1>8 DEF Crash, Lose, taskVars, Queued
  <2>2. Working' = WorkingElsewhere(s) /\ Placed' \subseteq Placed
    BY <2>1, VacateCopies
  <2>3. Lost' = IF slot[s].held THEN Lost \cup {IdOf(s)} ELSE Lost
    <3>1. CASE slot[s].held
      <4>1. orphans' = orphans \cup {[msg |-> slot[s].msg, age |-> slot[s].age, nr |-> crashes]}
        BY <1>8, <3>1 DEF Crash
      <4>2. [msg |-> slot[s].msg, age |-> slot[s].age, nr |-> crashes].msg.id = IdOf(s)
        BY DEF IdOf
      <4>3. (\A i : i \in Lost' <=> \E o \in orphans' : i = o.msg.id)
            /\ \A i : i \in Lost <=> \E o \in orphans : i = o.msg.id
        BY DEF Lost
      <4>4. \A i : i \in Lost' <=> i \in Lost \cup {IdOf(s)}
        BY <4>1, <4>2, <4>3
      <4>5. QED BY <3>1, <4>4, SetExtensionality
    <3>2. CASE ~slot[s].held
      BY <1>8, <3>2 DEF Crash, Lost
    <3>3. QED BY <3>1, <3>2
  <2>4. Copies' = Copies \/ Copies' = Copies \cup {IdOf(s)}
    <3>1. CASE Unfinished(s)
      <4>1. slot[s].held BY <3>1 DEF AllTimed, Timing, Unfinished
      <4>2. QED BY <2>1, <2>2, <2>3, <3>1, <4>1, PlaceShare DEF Copies
    <3>2. CASE ~Unfinished(s)
      BY <2>1, <2>2, <2>3, <3>2, PlaceShare DEF Copies
    <3>3. QED BY <3>1, <3>2
  <2>5. QED BY <2>1, <2>2, <2>4, ComesBack
<1>9. ASSUME NEW s \in Slots, ProcessLost(s) PROVE Moves /\ Placed' \subseteq Placed \cup Copies
  <2>1. Busy(s) /\ Unfinished(s) /\ slot' = [slot EXCEPT ![s] = Free] /\ fate' = fate /\ Lost' = Lost
    BY <1>9 DEF ProcessLost, Lose, Running, Unfinished, taskVars, Lost
  <2>2. Working' = WorkingElsewhere(s) /\ Placed' \subseteq Placed /\ Working = WorkingElsewhere(s) \cup {IdOf(s)}
    BY <2>1, VacateCopies, PlaceShare
  <2>3. slot[s].held BY <2>1 DEF AllTimed, Timing, Unfinished
  <2>4. Queued' = Queued \cup {IdOf(s)}
    BY <1>9, <2>1, <2>3, DeliveryTypes, EnqueueCopies DEF ProcessLost, IdOf
  <2>5. Copies' = Copies BY <2>1, <2>2, <2>4 DEF Copies
  <2>6. QED BY <2>1, <2>2, <2>5, ComesBack
<1>10. ASSUME NEW s \in Slots, RestoreHeld(s) PROVE Moves /\ Placed' \subseteq Placed \cup Copies
  <2>1. Busy(s) /\ slot[s].age >= Visibility /\ fate' = fate /\ Lost' = Lost
    BY <1>10 DEF RestoreHeld, taskVars, Lost
  <2>2. Queued' = Queued \cup {IdOf(s)}
    BY <1>10, <2>1, DeliveryTypes, EnqueueCopies DEF RestoreHeld, IdOf
  <2>3. slot' = [slot EXCEPT ![s] = [slot[s] EXCEPT !.held = FALSE]] /\ slot[s] \in Delivery
    BY <1>10, <2>1, DeliveryTypes DEF RestoreHeld
  <2>4. slot'[s] = [slot[s] EXCEPT !.held = FALSE]
    BY <2>3, PlaceChanges
  <2>5. slot'[s].phase = slot[s].phase /\ slot'[s].msg = slot[s].msg
    BY <2>3, <2>4 DEF Delivery
  <2>6. (Busy(s)' <=> Busy(s)) /\ (Unfinished(s)' <=> Unfinished(s)) /\ IdOf(s)' = IdOf(s)
    BY <2>5 DEF Busy, Unfinished, IdOf
  <2>7. Working' = Working /\ Placed' = Placed
    BY <2>1, <2>3, <2>6, PlaceChanges, PlaceShare, PlaceShareNext
  <2>8. Copies' = Copies \cup {IdOf(s)}
    BY <2>1, <2>2, <2>7 DEF Copies
  <2>9. QED BY <2>1, <2>7, <2>8, ComesBack
<1>11. ASSUME NEW o \in orphans, RestoreOrphan(o) PROVE Moves /\ Placed' \subseteq Placed \cup Copies
  <2>1. o.msg \in Messages BY DEF TypeOK
  <2>2. Queued' = Queued \cup {o.msg.id} BY <1>11, <2>1, EnqueueCopies DEF RestoreOrphan
  <2>3. o.msg.id \in Lost /\ Lost' \subseteq Lost /\ Lost \subseteq Lost' \cup {o.msg.id}
    BY <1>11 DEF RestoreOrphan, Lost
  <2>4. Working' = Working /\ Placed' = Placed /\ Lives' = Lives
    BY <1>11 DEF RestoreOrphan, taskVars, Working, Placed, Unfinished, Busy, IdOf, Lives, LifeOf
  <2>5. QED BY <2>2, <2>3, <2>4 DEF Copies, Moves, Still
<1>12. CASE Tick
  <2>1. ASSUME NEW s \in Slots
        PROVE  /\ Unfinished(s)' <=> Unfinished(s)
               /\ Busy(s)' <=> Busy(s)
               /\ Busy(s) => IdOf(s)' = IdOf(s)
    <3>1. CASE ~Busy(s)
      <4>1. slot'[s] = slot[s] BY <1>12, <3>1 DEF Tick
      <4>2. QED BY <3>1, <4>1 DEF Unfinished, Busy
    <3>2. CASE Busy(s)
      <4>1. slot'[s] = [[slot[s] EXCEPT !.time = slot[s].time + 1] EXCEPT !.age = Older(slot[s].age)]
        BY <1>12, <3>2 DEF Tick
      <4>2. slot[s] \in Delivery /\ slot[s].time + 1 \in Nat BY <3>2, DeliveryTypes
      <4>3. [slot[s] EXCEPT !.time = slot[s].time + 1] \in Delivery BY <4>2, TimeUpdate
      <4>4. slot'[s].phase = slot[s].phase /\ slot'[s].msg = slot[s].msg
        BY <4>1, <4>2, <4>3 DEF Delivery
      <4>5. QED BY <4>4 DEF Unfinished, Busy, IdOf
    <3>3. QED BY <3>1, <3>2
  <2>2. Working' = Working
    <3>1. \A i : i \in Working' <=> \E s \in Slots : Unfinished(s)' /\ i = IdOf(s)'
      BY DEF Working
    <3>2. \A i : i \in Working <=> \E s \in Slots : Unfinished(s) /\ i = IdOf(s)
      BY DEF Working
    <3>3. \A s \in Slots : Unfinished(s) => Busy(s)
      BY DEF Unfinished, Busy
    <3>4. \A i : i \in Working' <=> i \in Working
      BY <2>1, <3>1, <3>2, <3>3
    <3>5. QED BY <3>4, SetExtensionality
  <2>3. Placed' = Placed
    <3>1. \A i : i \in Placed' <=> \E s \in Slots : Busy(s)' /\ i = IdOf(s)'
      BY DEF Placed
    <3>2. \A i : i \in Placed <=> \E s \in Slots : Busy(s) /\ i = IdOf(s)
      BY DEF Placed
    <3>3. \A i : i \in Placed' <=> i \in Placed
      BY <2>1, <3>1, <3>2
    <3>4. QED BY <3>3, SetExtensionality
  <2>4. Lost' = Lost
    <3>1. \A o \in orphans : [o EXCEPT !.age = Older(o.age)].msg = o.msg
      BY DEF TypeOK
    <3>2. orphans' = {[o EXCEPT !.age = Older(o.age)] : o \in orphans}
      BY <1>12 DEF Tick
    <3>3. \A i : i \in Lost' <=> \E o \in orphans : i = [o EXCEPT !.age = Older(o.age)].msg.id
      BY <3>2 DEF Lost
    <3>4. \A i : i \in Lost' <=> i \in Lost
      <4>1. \A i : i \in Lost <=> \E o \in orphans : i = o.msg.id
        BY DEF Lost
      <4>2. QED BY <3>1, <3>3, <4>1
    <3>5. QED BY <3>4, SetExtensionality
  <2>5. Queued' = Queued /\ Lives' = Lives
    BY <1>12 DEF Tick, taskVars, Queued, Lives, LifeOf
  <2>6. QED BY <2>2, <2>3, <2>4, <2>5 DEF Copies, Moves, Still
<1>13. ASSUME UNCHANGED <<queued, slot, orphans>>, Lives' = Lives
       PROVE  Moves /\ Placed' \subseteq Placed \cup Copies
  <2>1. Queued' = Queued /\ Lost' = Lost BY <1>13 DEF Queued, Lost
  <2>2. Working' = Working /\ Placed' = Placed
    BY <1>13 DEF Working, Placed, Unfinished, Busy, IdOf
  <2>3. QED BY <1>13, <2>1, <2>2 DEF Copies, Moves, Still
<1>14. ASSUME NEW i \in Ids, MarkRequeued(i) PROVE Moves /\ Placed' \subseteq Placed \cup Copies
  BY <1>13, <1>14 DEF MarkRequeued, Lives, LifeOf
<1>15. ASSUME NEW i \in Ids, NEW row, Review(i, row) PROVE Moves /\ Placed' \subseteq Placed \cup Copies
  <2>1. fate' = fate \/ (fate[i] = "failed" /\ fate' = [fate EXCEPT ![i] = "over"])
    BY <1>15 DEF Review, Settle
  <2>2. Lives' = Lives
    BY <2>1 DEF Lives, LifeOf, TypeOK
  <2>3. QED BY <1>13, <1>15, <2>2 DEF Review
<1>16. CASE Purge
  BY <1>13, <1>16 DEF Purge, Lives, LifeOf
<1>17. CASE UNCHANGED vars
  BY <1>13, <1>17 DEF vars, taskVars, Lives, LifeOf
<1>18. QED
  BY <1>1, <1>2, <1>3, <1>4, <1>5, <1>6, <1>7, <1>8, <1>9, <1>10, <1>11, <1>12,
     <1>14, <1>15, <1>16, <1>17 DEF Next, WorkerStep, RestoreStep, OperatorStep, MarkResolved, Delete

-----------------------------------------------------------------------------
(* The invariant.                                                          *)

LEMMA QueueInvInit == ASSUME QueueAssumption, Init PROVE QueueInv
<1>1. TypeOK /\ AllTimed
  BY TypeInit, TimingInit
<1>2. Queued = {} /\ Lost = {} /\ Placed = {}
  BY DEF Init, Queued, Lost, Placed, Busy, Free, EmptyBag, BagToSet, SetToBag
<1>3. QED
  BY <1>1, <1>2 DEF Init, QueueInv, Known, NothingVanishes

LEMMA QueueInvStep == ASSUME QueueAssumption, QueueInv, [Next]_vars PROVE QueueInv'
<1>1. TypeOK' /\ AllTimed'
  BY TypeStep, TimingStep DEF QueueInv
<1>2. Moves /\ Placed' \subseteq Placed \cup Copies
  BY StepMoves
<1>3. /\ \A i \in Ids : Lives[i] = LifeOf(i) /\ Lives'[i] = LifeOf(i)'
      /\ Copies \subseteq Ids /\ Copies' \subseteq Ids
      /\ \A i \in Ids : StillHeld(i) <=> i \in Copies
      /\ \A i \in Ids : StillHeld(i)' <=> i \in Copies'
  <2>1. CopiesAgree'
    BY <1>1, CopiesAreHeld, PTL
  <2>2. QED BY <2>1, CopiesAreHeld DEF CopiesAgree, QueueInv, Lives
<1>4. \A i \in Ids : LifeOf(i)' = "pending" => i \in Copies'
  BY <1>2, <1>3 DEF Moves, Still, Begins, Ends, Reappears, QueueInv, NothingVanishes, LifeOf, Lives
<1>5. \A i \in Ids : LifeOf(i) # "unused" => LifeOf(i)' # "unused"
  BY <1>2, <1>3 DEF Moves, Still, Begins, Ends, Reappears, Lives
<1>6. \A i \in Copies' : LifeOf(i)' # "unused"
  <2>1. \A i \in Copies : LifeOf(i) # "unused"
    BY DEF QueueInv, Known, Copies, LifeOf, Working, Placed, Unfinished, Busy
  <2>2. Copies' \subseteq Copies \/ \E i \in Ids : Copies' = Copies \cup {i} /\ LifeOf(i)' # "unused"
    BY <1>2, <1>3 DEF Moves, Still, Begins, Ends, Reappears, Lives
  <2>3. QED BY <1>3, <1>5, <2>1, <2>2
<1>7. \A i \in Placed' : LifeOf(i)' # "unused"
  <2>1. \A i \in Placed \cup Copies : i \in Ids /\ LifeOf(i) # "unused"
    BY <1>3, DeliveryTypes DEF QueueInv, Known, Copies, LifeOf, Working, Placed, Unfinished, Busy
  <2>2. QED BY <1>2, <1>5, <2>1
<1>8. Known'
  BY <1>6, <1>7 DEF Known, Copies, LifeOf
<1>9. QED
  BY <1>1, <1>3, <1>4, <1>8 DEF QueueInv, NothingVanishes, LifeOf

(* The queue keeps its types and its timing, and every pending task, for   *)
(* any numbers of tasks, places, retries and faults.                       *)
THEOREM QueueInvariant == Spec => []QueueInv
<1>1. Init => QueueInv
  BY QueueInvInit, QueueAssumption
<1>2. QueueInv /\ [Next]_vars => QueueInv'
  BY QueueInvStep, QueueAssumption
<1>3. QED
  BY <1>1, <1>2, PTL DEF Spec

(* No message in the wrong place, no counter or row out of its range.      *)
THEOREM TypeCorrect == Spec => []TypeOK
<1>1. QueueInv => TypeOK
  BY DEF QueueInv
<1>2. QED
  BY <1>1, QueueInvariant, PTL

(* No pending task is dropped, whatever retries, expires, times out, dies  *)
(* or is given back (base.py, acks_late and reject_on_worker_lost).        *)
THEOREM NothingIsLost == Spec => []NothingVanishes
<1>1. QueueInv => NothingVanishes
  BY DEF QueueInv
<1>2. QED
  BY <1>1, QueueInvariant, PTL

(* As long as the visibility timeout exceeds the longest wait and the hard *)
(* limit together, no message is given back under its running task.        *)
THEOREM NothingOverlaps == Spec => []NoOverlap
<1>1. QueueInv => NoOverlap
  BY DEF QueueInv, AllTimed, Timing, NoOverlap, Running
<1>2. QED
  BY <1>1, QueueInvariant, PTL

-----------------------------------------------------------------------------
(* The refinement.                                                         *)

LEMMA PromiseInit == ASSUME QueueAssumption, Init PROVE Promise!QueueInit
<1>1. TypeOK /\ AllTimed
  BY TypeInit, TimingInit
<1>2. Queued = {} /\ Lost = {} /\ Working = {}
  BY DEF Init, Queued, Lost, Working, Unfinished, Free, EmptyBag, BagToSet, SetToBag
<1>3. {i \in Ids : HasCopy(i)} = {}
  BY <1>1, <1>2, CopiesAreHeld DEF CopiesAgree, Copies
<1>4. [i \in Ids |-> LifeOf(i)] = [i \in Ids |-> "unused"]
  BY DEF Init, LifeOf
<1>5. QED
  BY <1>3, <1>4 DEF Promise!QueueInit

LEMMA PromiseStep ==
    ASSUME QueueAssumption, QueueInv, QueueInv', [Next]_vars
    PROVE  [Promise!QueueNext]_<<[i \in Ids |-> LifeOf(i)], {i \in Ids : HasCopy(i)}>>
<1>1. Moves
  BY StepMoves
<1>2. {i \in Ids : HasCopy(i)} = Copies /\ [i \in Ids |-> LifeOf(i)] = Lives
  BY CopiesAreHeld DEF CopiesAgree, QueueInv, Lives
<1>3. {i \in Ids : HasCopy(i)}' = Copies' /\ [i \in Ids |-> LifeOf(i)]' = Lives'
  <2>1. CopiesAgree'
    BY CopiesAreHeld, PTL DEF QueueInv
  <2>2. QED BY <2>1 DEF CopiesAgree, Lives
<1>4. CASE Still
  BY <1>2, <1>3, <1>4 DEF Still
<1>5. ASSUME NEW i \in Ids, Begins(i) PROVE Promise!Submit({i})
  BY <1>2, <1>3, <1>5 DEF Begins, Promise!Submit, Lives
<1>6. ASSUME NEW i \in Ids, Ends(i) PROVE Promise!End(i)
  BY <1>2, <1>3, <1>6 DEF Ends, Promise!End
<1>7. ASSUME NEW i \in Ids, Reappears(i) PROVE Promise!Redeliver(i)
  BY <1>2, <1>3, <1>7 DEF Reappears, Promise!Redeliver, Lives
<1>8. QED
  BY <1>1, <1>4, <1>5, <1>6, <1>7 DEF Moves, Promise!QueueNext

(* The queue is the at-least-once queue its callers count on.              *)
THEOREM PromiseKept == Spec => KeepsPromise
<1>1. Init => Promise!QueueInit
  BY PromiseInit, QueueAssumption
<1>2. QueueInv /\ QueueInv' /\ [Next]_vars
      => [Promise!QueueNext]_<<[i \in Ids |-> LifeOf(i)], {i \in Ids : HasCopy(i)}>>
  BY PromiseStep, QueueAssumption
<1>3. QED
  BY <1>1, <1>2, QueueInvariant, PTL DEF Spec, KeepsPromise, Promise!QueueSpec, Promise!queueVars

-----------------------------------------------------------------------------
(* The dead letters.  While no worker is lost, nothing is given back and   *)
(* no write failed, a task has one copy at most, and none once it has      *)
(* ended: so on_failure runs once for a task, before there is a row, and   *)
(* never finds one that somebody has resolved.                             *)

Undisturbed == crashes = 0 /\ restores = 0 /\ dlqErrors = 0

QueuedAlone(m) ==
    /\ fate[m.id] = "pending" /\ queued[m] = 1
    /\ \A n \in BagToSet(queued) : n.id = m.id => n = m
    /\ \A s \in Slots : Unfinished(s) => IdOf(s) # m.id

WorkedOnAlone(s) ==
    /\ fate[IdOf(s)] = "pending"
    /\ \A t \in Slots : Unfinished(t) /\ IdOf(t) = IdOf(s) => t = s

OneCopy ==
    /\ orphans = {}
    /\ \A m \in BagToSet(queued) : QueuedAlone(m)
    /\ \A s \in Slots : Unfinished(s) => WorkedOnAlone(s)

(* Only a task that has ended has a row. *)
RowsComeLast == \A i \in Ids : dlq[i].present => fate[i] \in {"failed", "killed", "over"}

AllAwait == \A i \in Ids : fate[i] = "failed" => AwaitsReview(i)

ReviewInv == RowsComeLast /\ (Undisturbed => OneCopy /\ AllAwait)

(* The first copy of a message. *)
LEMMA CountAfterAdd ==
    ASSUME NEW q, IsABag(q), NEW m, m \notin BagToSet(q)
    PROVE  /\ (q (+) SetToBag({m}))[m] = 1
           /\ \A n \in BagToSet(q) : (q (+) SetToBag({m}))[n] = q[n]
BY DEF IsABag, BagToSet, SetToBag, (+)

(* One copy less; the last one leaves the bag. *)
LEMMA CountAfterRemove ==
    ASSUME NEW q, IsABag(q), NEW m \in BagToSet(q), q[m] = 1
    PROVE  /\ BagToSet(q (-) SetToBag({m})) = BagToSet(q) \ {m}
           /\ \A n \in BagToSet(q) \ {m} : (q (-) SetToBag({m}))[n] = q[n]
BY DEF IsABag, BagToSet, SetToBag, (-)

(* The message of a task that has no copy elsewhere is its only one. *)
LEMMA EnqueuedAlone ==
    ASSUME TypeOK, OneCopy, NEW m \in Messages, Enqueue(m), UNCHANGED orphans,
           \A n \in BagToSet(queued) : n.id # m.id,
           \A s \in Slots : Unfinished(s)' =>
               Unfinished(s) /\ IdOf(s)' = IdOf(s) /\ IdOf(s) # m.id,
           fate'[m.id] = "pending",
           \A i \in Ids \ {m.id} : fate'[i] = fate[i]
    PROVE  OneCopy'
<1>1. IsABag(queued) /\ BagToSet(queued) \subseteq Messages /\ queued' = queued (+) SetToBag({m})
  BY DEF TypeOK, Enqueue
<1>2. /\ BagToSet(queued') = BagToSet(queued) \cup {m}
      /\ m \notin BagToSet(queued)
  BY <1>1, AddToBag
<1>3. queued'[m] = 1 /\ \A n \in BagToSet(queued) : queued'[n] = queued[n]
  BY <1>1, <1>2, CountAfterAdd
<1>4. m.id \in Ids /\ \A n \in BagToSet(queued) : n.id \in Ids
  BY <1>1 DEF Messages
<1>5. ASSUME NEW n \in BagToSet(queued') PROVE QueuedAlone(n)'
  <2>1. CASE n = m
    BY <1>2, <1>3, <2>1 DEF QueuedAlone
  <2>2. CASE n # m
    <3>1. n \in BagToSet(queued) /\ QueuedAlone(n)
      BY <1>2, <1>5, <2>2 DEF OneCopy
    <3>2. QED
      BY <1>2, <1>3, <1>4, <3>1 DEF QueuedAlone
  <2>3. QED BY <2>1, <2>2
<1>6. ASSUME NEW s \in Slots, Unfinished(s)' PROVE WorkedOnAlone(s)'
  <2>1. Unfinished(s) /\ IdOf(s)' = IdOf(s) /\ IdOf(s) # m.id
    BY <1>6
  <2>2. WorkedOnAlone(s) /\ IdOf(s) \in Ids
    BY <2>1, DeliveryTypes DEF OneCopy, Unfinished, Busy
  <2>3. QED
    BY <2>1, <2>2 DEF WorkedOnAlone
<1>7. QED
  BY <1>5, <1>6 DEF OneCopy

(* A task that ends takes its only copy along. *)
LEMMA EndedAlone ==
    ASSUME TypeOK, OneCopy, NEW s \in Slots, Unfinished(s),
           UNCHANGED <<queued, orphans>>, ~Unfinished(s)',
           \A t \in Slots \ {s} : slot'[t] = slot[t],
           \A i \in Ids \ {IdOf(s)} : fate'[i] = fate[i]
    PROVE  OneCopy'
<1>1. \A t \in Slots : Unfinished(t)' => t # s /\ Unfinished(t) /\ IdOf(t)' = IdOf(t)
  BY DEF Unfinished, IdOf
<1>2. WorkedOnAlone(s)
  BY DEF OneCopy
<1>3. ASSUME NEW m \in BagToSet(queued) PROVE QueuedAlone(m)'
  <2>1. QueuedAlone(m) /\ m.id \in Ids
    BY DEF OneCopy, TypeOK, Messages
  <2>2. IdOf(s) # m.id
    BY <2>1 DEF QueuedAlone
  <2>3. QED
    BY <1>1, <2>1, <2>2 DEF QueuedAlone
<1>4. ASSUME NEW t \in Slots, Unfinished(t)' PROVE WorkedOnAlone(t)'
  <2>1. t # s /\ Unfinished(t) /\ IdOf(t)' = IdOf(t)
    BY <1>1, <1>4
  <2>2. WorkedOnAlone(t) /\ IdOf(t) \in Ids /\ IdOf(t) # IdOf(s)
    BY <1>2, <2>1, DeliveryTypes DEF OneCopy, WorkedOnAlone, Unfinished, Busy
  <2>3. QED
    BY <1>1, <2>1, <2>2 DEF WorkedOnAlone
<1>5. QED
  BY <1>3, <1>4 DEF OneCopy

(* A step that moves no message and leaves the fates of the tasks that     *)
(* have one.                                                               *)
LEMMA CopiesStayAlone ==
    ASSUME TypeOK, OneCopy, UNCHANGED <<queued, orphans>>,
           \A s \in Slots : /\ Unfinished(s)' <=> Unfinished(s)
                            /\ Unfinished(s) => IdOf(s)' = IdOf(s),
           \A i \in Ids : fate[i] = "pending" => fate'[i] = "pending"
    PROVE  OneCopy'
<1>1. ASSUME NEW m \in BagToSet(queued) PROVE QueuedAlone(m)'
  <2>1. QueuedAlone(m) /\ m.id \in Ids
    BY DEF OneCopy, TypeOK, Messages
  <2>2. QED
    BY <2>1 DEF QueuedAlone
<1>2. ASSUME NEW t \in Slots, Unfinished(t)' PROVE WorkedOnAlone(t)'
  <2>1. Unfinished(t) /\ WorkedOnAlone(t) /\ IdOf(t) \in Ids
    BY <1>2, DeliveryTypes DEF OneCopy, Unfinished, Busy
  <2>2. QED
    BY <2>1 DEF WorkedOnAlone
<1>3. QED
  BY <1>1, <1>2 DEF OneCopy

LEMMA ReviewInit == ASSUME QueueAssumption, Init PROVE ReviewInv
<1>1. BagToSet(queued) = {}
  BY DEF Init, EmptyBag, BagToSet, SetToBag
<1>2. QED
  BY <1>1 DEF Init, ReviewInv, RowsComeLast, OneCopy, AllAwait, Unfinished, Free, NoRow

(* The attempt of task i that ends in place s: its row, its fate and its   *)
(* copy.                                                                   *)
LEMMA EndKeepsReview ==
    ASSUME TypeOK, ReviewInv, NEW s \in Slots, Unfinished(s), Enter(s, "ack"),
           NEW i \in Ids, i = IdOf(s),
           UNCHANGED <<queued, orphans, lossVars, dlqErrors>>,
           \/ (Settle(i, "over") \/ Settle(i, "killed")) /\ UNCHANGED dlq
           \/ Settle(i, "failed") /\ DeadLetter(i)
    PROVE  ReviewInv'
<1>1. slot[s] \in Delivery /\ [slot[s] EXCEPT !.phase = "ack"] \in Delivery
  BY DeliveryTypes, PhaseUpdate DEF Unfinished, Busy
<1>2. ~Unfinished(s)' /\ \A t \in Slots \ {s} : slot'[t] = slot[t]
  <2>1. /\ slot'[s] = [[slot[s] EXCEPT !.phase = "ack"] EXCEPT !.time = 0]
        /\ \A t \in Slots \ {s} : slot'[t] = slot[t]
    BY DEF Enter, TypeOK
  <2>2. slot'[s].phase = "ack"
    BY <1>1, <2>1 DEF Delivery
  <2>3. QED BY <2>1, <2>2 DEF Unfinished
<1>3. /\ fate'[i] \in {"failed", "killed", "over"}
      /\ \A j \in Ids \ {i} : fate'[j] = fate[j] /\ dlq'[j] = dlq[j]
  BY DEF Settle, DeadLetter, TypeOK
<1>4. RowsComeLast'
  BY <1>3 DEF ReviewInv, RowsComeLast
<1>5. ASSUME Undisturbed' PROVE OneCopy' /\ AllAwait'
  <2>1. OneCopy /\ AllAwait
    BY <1>5 DEF ReviewInv, Undisturbed, lossVars
  <2>2. fate[i] = "pending"
    BY <2>1 DEF OneCopy, WorkedOnAlone
  <2>3. ~dlq[i].present
    BY <2>2 DEF ReviewInv, RowsComeLast
  <2>4. OneCopy'
    BY <1>2, <1>3, <2>1, EndedAlone
  <2>5. fate'[i] = "failed" => AwaitsReview(i)'
    <3>1. CASE Settle(i, "over") \/ Settle(i, "killed")
      BY <3>1 DEF Settle, TypeOK
    <3>2. CASE DeadLetter(i)
      <4>1. dlq'[i] = DlqRow(FALSE, FALSE)
        BY <2>3, <3>2 DEF DeadLetter, TypeOK
      <4>2. QED BY <4>1 DEF AwaitsReview, DlqRow
    <3>3. QED BY <3>1, <3>2
  <2>6. \A j \in Ids \ {i} : AwaitsReview(j)' <=> AwaitsReview(j)
    BY <1>3 DEF AwaitsReview
  <2>7. QED
    BY <1>3, <2>1, <2>4, <2>5, <2>6 DEF AllAwait
<1>6. QED
  BY <1>4, <1>5 DEF ReviewInv

(* A submission. *)
LEMMA PublishKeepsReview ==
    ASSUME QueueAssumption, TypeOK, ReviewInv, NEW i \in Ids, Publish(i),
           UNCHANGED <<slot, orphans, dlq, lossVars, dlqErrors>>
    PROVE  ReviewInv'
<1>1. Msg(i, 0) \in Messages /\ Msg(i, 0).id = i
  BY MessageTypes DEF QueueAssumption
<1>2. fate[i] = "unused" /\ fate'[i] = "pending" /\ \A j \in Ids \ {i} : fate'[j] = fate[j]
  BY DEF Publish, TypeOK
<1>3. RowsComeLast'
  BY <1>2 DEF ReviewInv, RowsComeLast
<1>4. ASSUME Undisturbed' PROVE OneCopy' /\ AllAwait'
  <2>1. OneCopy /\ AllAwait
    BY <1>4 DEF ReviewInv, Undisturbed, lossVars
  <2>2. /\ \A n \in BagToSet(queued) : n.id # i
        /\ \A s \in Slots : Unfinished(s) => IdOf(s) # i
    BY <1>2, <2>1 DEF OneCopy, QueuedAlone, WorkedOnAlone
  <2>3. OneCopy'
    BY <1>1, <1>2, <2>1, <2>2, EnqueuedAlone DEF Publish, Unfinished, IdOf
  <2>4. AllAwait'
    BY <1>2, <2>1 DEF AllAwait, AwaitsReview
  <2>5. QED BY <2>3, <2>4
<1>5. QED
  BY <1>3, <1>4 DEF ReviewInv

(* Steps that leave the messages with their tasks and take no row away     *)
(* that is unresolved.                                                     *)
LEMMA QuietKeepsReview ==
    ASSUME TypeOK, ReviewInv, UNCHANGED <<queued, orphans, lossVars, dlqErrors>>,
           \A s \in Slots : /\ Unfinished(s)' <=> Unfinished(s)
                            /\ Unfinished(s) => IdOf(s)' = IdOf(s),
           \A i \in Ids : \/ fate'[i] = fate[i]
                          \/ fate[i] = "failed" /\ fate'[i] = "over",
           \A i \in Ids : dlq'[i].present => dlq[i].present,
           \A i \in Ids : fate'[i] = "failed" /\ AwaitsReview(i) => AwaitsReview(i)'
    PROVE  ReviewInv'
<1>1. RowsComeLast'
  BY DEF ReviewInv, RowsComeLast
<1>2. ASSUME Undisturbed' PROVE OneCopy' /\ AllAwait'
  <2>1. OneCopy /\ AllAwait
    BY <1>2 DEF ReviewInv, Undisturbed, lossVars
  <2>2. OneCopy'
    BY <2>1, CopiesStayAlone
  <2>3. AllAwait'
    BY <2>1 DEF AllAwait
  <2>4. QED BY <2>2, <2>3
<1>3. QED
  BY <1>1, <1>2 DEF ReviewInv

LEMMA ReviewStep ==
    ASSUME QueueAssumption, TypeOK, ReviewInv, [Next]_vars
    PROVE  ReviewInv'
<1>1. CASE UNCHANGED <<queued, slot, orphans, lossVars, fate, dlq, dlqErrors>>
  BY <1>1, QuietKeepsReview DEF Unfinished, IdOf, AwaitsReview
<1>2. ASSUME NEW i \in Ids, Submit(i) PROVE ReviewInv'
  BY <1>2, PublishKeepsReview DEF Submit
<1>3. ASSUME NEW i \in Ids, NEW j \in Ids, SendRequeue(i, j) PROVE ReviewInv'
  BY <1>3, PublishKeepsReview DEF SendRequeue
<1>4. ASSUME NEW s \in Slots, NEW m \in BagToSet(queued), Deliver(s, m) PROVE ReviewInv'
  <2>1. RowsComeLast'
    BY <1>4 DEF Deliver, taskVars, ReviewInv, RowsComeLast
  <2>2. ASSUME Undisturbed' PROVE OneCopy' /\ AllAwait'
    <3>1. OneCopy /\ AllAwait /\ QueuedAlone(m)
      BY <1>4, <2>2 DEF Deliver, lossVars, taskVars, ReviewInv, Undisturbed, OneCopy
    <3>2. AllAwait'
      BY <1>4, <3>1 DEF Deliver, taskVars, AllAwait, AwaitsReview
    <3>3. /\ BagToSet(queued') = BagToSet(queued) \ {m}
          /\ \A n \in BagToSet(queued') : queued'[n] = queued[n]
      <4>1. IsABag(queued) /\ queued[m] = 1 /\ queued' = queued (-) SetToBag({m})
        BY <1>4, <3>1 DEF TypeOK, Deliver, QueuedAlone
      <4>2. /\ BagToSet(queued (-) SetToBag({m})) = BagToSet(queued) \ {m}
            /\ \A n \in BagToSet(queued) \ {m} : (queued (-) SetToBag({m}))[n] = queued[n]
        BY <4>1, CountAfterRemove
      <4>3. QED BY <4>1, <4>2
    <3>4. /\ slot'[s] = Delivered(m) /\ ~Unfinished(s)
          /\ \A t \in Slots \ {s} : slot'[t] = slot[t]
      BY <1>4 DEF TypeOK, Deliver, Busy, Unfinished
    <3>5. /\ Unfinished(s)' /\ IdOf(s)' = m.id
          /\ \A t \in Slots \ {s} : (Unfinished(t)' <=> Unfinished(t)) /\ IdOf(t)' = IdOf(t)
      BY <3>4 DEF Unfinished, IdOf, Delivered
    <3>6. fate' = fate /\ orphans' = orphans
      BY <1>4 DEF Deliver, taskVars
    <3>7. ASSUME NEW n \in BagToSet(queued') PROVE QueuedAlone(n)'
      <4>1. n \in BagToSet(queued) /\ n # m /\ QueuedAlone(n)
        BY <3>1, <3>3 DEF OneCopy
      <4>2. n.id # m.id
        BY <3>1, <4>1 DEF QueuedAlone
      <4>3. QED
        BY <3>3, <3>5, <3>6, <4>1, <4>2 DEF QueuedAlone
    <3>8. ASSUME NEW t \in Slots, Unfinished(t)' PROVE WorkedOnAlone(t)'
      <4>1. CASE t = s
        BY <3>1, <3>5, <3>6, <4>1 DEF QueuedAlone, WorkedOnAlone
      <4>2. CASE t # s
        <5>1. Unfinished(t) /\ WorkedOnAlone(t) /\ IdOf(t) # m.id
          BY <3>1, <3>5, <3>8, <4>2 DEF OneCopy, QueuedAlone
        <5>2. QED
          BY <3>5, <3>6, <4>2, <5>1 DEF WorkedOnAlone
      <4>3. QED BY <4>1, <4>2
    <3>9. QED BY <3>1, <3>2, <3>6, <3>7, <3>8 DEF OneCopy
  <2>3. QED BY <2>1, <2>2 DEF ReviewInv
<1>5. ASSUME NEW s \in Slots, NEW p \in {"run", "ack"}, Enter(s, p),
             \/ slot[s].phase = "wait" /\ p = "run"
             \/ slot[s].phase = "run" /\ p = "ack"
      PROVE  /\ Unfinished(s) /\ Busy(s) /\ IdOf(s) \in Ids
             /\ IdOf(s)' = IdOf(s) /\ (Unfinished(s)' <=> p = "run")
             /\ \A t \in Slots \ {s} : slot'[t] = slot[t]
  <2>1. Unfinished(s) /\ Busy(s)
    BY <1>5 DEF Unfinished, Busy
  <2>2. slot[s] \in Delivery /\ [slot[s] EXCEPT !.phase = p] \in Delivery
    BY <2>1, DeliveryTypes, PhaseUpdate
  <2>3. /\ slot'[s] = [[slot[s] EXCEPT !.phase = p] EXCEPT !.time = 0]
        /\ \A t \in Slots \ {s} : slot'[t] = slot[t]
    BY <1>5 DEF Enter, TypeOK
  <2>4. slot'[s].phase = p /\ slot'[s].msg = slot[s].msg
    BY <2>2, <2>3 DEF Delivery
  <2>5. QED
    BY <2>1, <2>3, <2>4, DeliveryTypes DEF Unfinished, IdOf
<1>6. ASSUME NEW s \in Slots, Start(s) PROVE ReviewInv'
  <2>1. \A t \in Slots : (Unfinished(t)' <=> Unfinished(t)) /\ IdOf(t)' = IdOf(t)
    <3>1. /\ Unfinished(s) /\ Unfinished(s)' /\ IdOf(s)' = IdOf(s)
          /\ \A t \in Slots \ {s} : slot'[t] = slot[t]
      BY <1>5, <1>6 DEF Start
    <3>2. \A t \in Slots \ {s} : (Unfinished(t)' <=> Unfinished(t)) /\ IdOf(t)' = IdOf(t)
      BY <3>1 DEF Unfinished, IdOf
    <3>3. QED BY <3>1, <3>2
  <2>2. QED
    BY <1>6, <2>1, QuietKeepsReview DEF Start, taskVars, AwaitsReview
<1>7. ASSUME NEW s \in Slots, Expire(s) PROVE ReviewInv'
  <2>1. Unfinished(s) /\ Busy(s) /\ IdOf(s) \in Ids
    BY <1>7, DeliveryTypes DEF Expire, Unfinished, Busy
  <2>2. CASE fate[IdOf(s)] = "pending"
    BY <1>7, <2>1, <2>2, EndKeepsReview DEF Expire
  <2>3. CASE fate[IdOf(s)] # "pending"
    <3>1. fate' = fate /\ dlq' = dlq
      BY <1>7, <2>3 DEF Expire
    <3>2. RowsComeLast'
      BY <3>1 DEF ReviewInv, RowsComeLast
    <3>3. ~Undisturbed
      BY <2>1, <2>3 DEF ReviewInv, OneCopy, WorkedOnAlone
    <3>4. QED
      BY <1>7, <3>2, <3>3 DEF Expire, ReviewInv, Undisturbed, lossVars
  <2>4. QED BY <2>2, <2>3
<1>8. ASSUME NEW s \in Slots, Outcome(s) PROVE ReviewInv'
  <2>1. Unfinished(s) /\ Busy(s) /\ IdOf(s) \in Ids
    BY <1>8, DeliveryTypes
    DEF Outcome, Succeed, Retry, Fail, FailUnrecorded, HardKill, Running, Unfinished, Busy
  <2>2. CASE Succeed(s) \/ Fail(s) \/ HardKill(s)
    BY <2>1, <2>2, EndKeepsReview DEF Succeed, Fail, HardKill
  <2>5. CASE FailUnrecorded(s)
    <3>1. RowsComeLast'
      BY <2>1, <2>5 DEF FailUnrecorded, Settle, ReviewInv, RowsComeLast, TypeOK
    <3>2. ~Undisturbed'
      BY <2>5 DEF FailUnrecorded, Undisturbed, TypeOK
    <3>3. QED BY <3>1, <3>2 DEF ReviewInv
  <2>3. CASE Retry(s)
    <3>1. RowsComeLast'
      BY <2>3 DEF Retry, taskVars, ReviewInv, RowsComeLast
    <3>2. ASSUME Undisturbed' PROVE OneCopy' /\ AllAwait'
      <4>1. OneCopy /\ AllAwait /\ WorkedOnAlone(s)
        BY <2>1, <2>3, <3>2 DEF Retry, lossVars, taskVars, ReviewInv, Undisturbed, OneCopy
      <4>2. AllAwait'
        BY <2>3, <4>1 DEF Retry, taskVars, AllAwait, AwaitsReview
      <4>3. PICK m \in Messages : m = Msg(IdOf(s), slot[s].msg.retry + 1) /\ m.id = IdOf(s)
        BY <2>1, <2>3, DeliveryTypes, MessageTypes DEF Retry, QueueAssumption
      <4>4. \A n \in BagToSet(queued) : n.id # m.id
        BY <2>1, <4>1, <4>3 DEF OneCopy, QueuedAlone
      <4>5. \A t \in Slots : Unfinished(t)' =>
               Unfinished(t) /\ IdOf(t)' = IdOf(t) /\ IdOf(t) # m.id
        <5>1. ~Unfinished(s)' /\ \A t \in Slots \ {s} : slot'[t] = slot[t]
          BY <1>5, <2>3 DEF Retry, Running
        <5>2. \A t \in Slots \ {s} : Unfinished(t)' => Unfinished(t) /\ IdOf(t)' = IdOf(t)
          BY <5>1 DEF Unfinished, IdOf
        <5>3. \A t \in Slots \ {s} : Unfinished(t) => IdOf(t) # m.id
          BY <4>1, <4>3 DEF WorkedOnAlone
        <5>4. QED BY <5>1, <5>2, <5>3
      <4>6. Enqueue(m) /\ fate' = fate /\ orphans' = orphans /\ fate[m.id] = "pending"
        BY <2>3, <4>1, <4>3 DEF Retry, taskVars, WorkedOnAlone
      <4>7. OneCopy'
        BY <4>1, <4>4, <4>5, <4>6, EnqueuedAlone
      <4>8. QED BY <4>2, <4>7
    <3>3. QED BY <3>1, <3>2 DEF ReviewInv
  <2>4. QED BY <1>8, <2>2, <2>3, <2>5 DEF Outcome
<1>9. ASSUME NEW s \in Slots, Ack(s) PROVE ReviewInv'
  <2>1. ~Unfinished(s) /\ ~Unfinished(s)' /\ \A t \in Slots \ {s} : slot'[t] = slot[t]
    BY <1>9 DEF Ack, TypeOK, Unfinished, Free
  <2>2. \A t \in Slots : /\ Unfinished(t)' <=> Unfinished(t)
                         /\ Unfinished(t) => IdOf(t)' = IdOf(t)
    BY <2>1 DEF Unfinished, IdOf
  <2>3. QED
    BY <1>9, <2>2, QuietKeepsReview DEF Ack, taskVars, AwaitsReview
<1>10. ASSUME ~Undisturbed', fate' = fate, dlq' = dlq PROVE ReviewInv'
  BY <1>10 DEF ReviewInv, RowsComeLast
<1>11. ASSUME NEW s \in Slots, Crash(s) \/ ProcessLost(s) PROVE ReviewInv'
  <2>1. crashes' = crashes + 1 /\ fate' = fate /\ dlq' = dlq
    BY <1>11 DEF Crash, ProcessLost, Lose, taskVars
  <2>2. QED
    BY <1>10, <2>1 DEF TypeOK, Undisturbed
<1>12. ASSUME NEW s \in Slots, RestoreHeld(s) PROVE ReviewInv'
  <2>1. restores' = restores + 1 /\ fate' = fate /\ dlq' = dlq
    BY <1>12 DEF RestoreHeld, taskVars
  <2>2. QED
    BY <1>10, <2>1 DEF TypeOK, Undisturbed
<1>13. ASSUME NEW o \in orphans, RestoreOrphan(o) PROVE ReviewInv'
  <2>1. ~Undisturbed
    BY DEF ReviewInv, OneCopy
  <2>2. QED
    BY <1>10, <1>13, <2>1 DEF RestoreOrphan, taskVars, lossVars, Undisturbed
<1>14. CASE Tick
  <2>1. ASSUME NEW s \in Slots
        PROVE  /\ Unfinished(s)' <=> Unfinished(s)
               /\ Unfinished(s) => IdOf(s)' = IdOf(s)
    <3>1. CASE ~Busy(s)
      <4>1. slot'[s] = slot[s] BY <1>14, <3>1 DEF Tick
      <4>2. QED BY <4>1 DEF Unfinished, IdOf
    <3>2. CASE Busy(s)
      <4>1. slot'[s] = [[slot[s] EXCEPT !.time = slot[s].time + 1] EXCEPT !.age = Older(slot[s].age)]
        BY <1>14, <3>2 DEF Tick
      <4>2. slot[s] \in Delivery /\ slot[s].time + 1 \in Nat BY <3>2, DeliveryTypes
      <4>3. [slot[s] EXCEPT !.time = slot[s].time + 1] \in Delivery BY <4>2, TimeUpdate
      <4>4. slot'[s].phase = slot[s].phase /\ slot'[s].msg = slot[s].msg
        BY <4>1, <4>2, <4>3 DEF Delivery
      <4>5. QED BY <4>4 DEF Unfinished, IdOf
    <3>3. QED BY <3>1, <3>2
  <2>2. CASE orphans = {}
    <3>1. UNCHANGED <<queued, orphans, lossVars, fate, dlq, dlqErrors>>
      BY <1>14, <2>2 DEF Tick, taskVars
    <3>2. QED
      BY <2>1, <3>1, QuietKeepsReview DEF AwaitsReview
  <2>3. CASE orphans # {}
    <3>1. ~Undisturbed
      BY <2>3 DEF ReviewInv, OneCopy
    <3>2. QED
      BY <1>10, <1>14, <3>1 DEF Tick, taskVars, lossVars, Undisturbed
  <2>4. QED BY <2>2, <2>3
<1>15. ASSUME UNCHANGED <<queued, slot, orphans>>
       PROVE  \A s \in Slots : /\ Unfinished(s)' <=> Unfinished(s)
                               /\ Unfinished(s) => IdOf(s)' = IdOf(s)
  BY <1>15 DEF Unfinished, IdOf
<1>16. ASSUME NEW i \in Ids, MarkRequeued(i) PROVE ReviewInv'
  <2>1. CASE ~dlq[i].present
    BY <1>1, <1>16, <2>1 DEF MarkRequeued
  <2>2. CASE dlq[i].present
    <3>1. dlq[i] \in DlqRows
      BY <2>2, DlqTypes
    <3>2. dlq'[i] = [dlq[i] EXCEPT !.requeued = TRUE] /\ \A j \in Ids \ {i} : dlq'[j] = dlq[j]
      BY <1>16, <2>2 DEF MarkRequeued, TypeOK
    <3>3. dlq'[i].present = dlq[i].present /\ dlq'[i].resolved = dlq[i].resolved
      BY <3>1, <3>2 DEF DlqRows
    <3>4. \A j \in Ids : (dlq'[j].present <=> dlq[j].present) /\ (AwaitsReview(j)' <=> AwaitsReview(j))
      BY <3>2, <3>3 DEF AwaitsReview
    <3>5. UNCHANGED <<queued, slot, orphans, lossVars, fate, dlqErrors>>
      BY <1>16 DEF MarkRequeued
    <3>6. QED
      BY <1>15, <3>4, <3>5, QuietKeepsReview
  <2>3. QED BY <2>1, <2>2
<1>17. ASSUME NEW i \in Ids, NEW row, Review(i, row) PROVE ReviewInv'
  <2>1. dlq[i].present /\ \A j \in Ids \ {i} : dlq'[j] = dlq[j]
    BY <1>17 DEF Review, TypeOK
  <2>2. /\ \A j \in Ids \ {i} : fate'[j] = fate[j]
        /\ fate'[i] # "failed"
        /\ \/ fate'[i] = fate[i]
           \/ fate[i] = "failed" /\ fate'[i] = "over"
    <3>1. CASE fate[i] = "failed"
      BY <1>17, <3>1 DEF Review, Settle, TypeOK
    <3>2. CASE fate[i] # "failed"
      BY <1>17, <3>2 DEF Review, TypeOK
    <3>3. QED BY <3>1, <3>2
  <2>3. UNCHANGED <<queued, slot, orphans, lossVars, dlqErrors>>
    BY <1>17 DEF Review
  <2>4. \A j \in Ids : dlq'[j].present => dlq[j].present
    BY <2>1
  <2>5. \A j \in Ids : fate'[j] = "failed" /\ AwaitsReview(j) => AwaitsReview(j)'
    BY <2>1, <2>2 DEF AwaitsReview
  <2>6. QED
    BY <1>15, <2>2, <2>3, <2>4, <2>5, QuietKeepsReview
<1>18. CASE Purge
  <2>1. PICK old \in SUBSET {i \in Ids : Resolved(i)} :
            /\ dlq' = [i \in Ids |-> IF i \in old THEN NoRow ELSE dlq[i]]
            /\ UNCHANGED <<queued, slot, orphans, lossVars, fate, dlqErrors>>
    BY <1>18 DEF Purge
  <2>2. \A i \in Ids : /\ dlq'[i].present => dlq[i].present
                       /\ AwaitsReview(i) => AwaitsReview(i)'
    BY <2>1 DEF Resolved, AwaitsReview, NoRow
  <2>3. QED
    BY <1>15, <2>1, <2>2, QuietKeepsReview
<1>19. CASE UNCHANGED vars
  BY <1>1, <1>19 DEF vars, taskVars
<1>20. QED
  BY <1>2, <1>3, <1>4, <1>6, <1>7, <1>8, <1>9, <1>11, <1>12, <1>13, <1>14, <1>16,
     <1>17, <1>18, <1>19 DEF Next, WorkerStep, RestoreStep, OperatorStep, MarkResolved, Delete

(* A task that is killed has run past the soft limit, so it swallowed it.  *)
KilledSwallowed == \A i \in Ids : fate[i] = "killed" => i \in Swallowing

LEMMA KilledStep ==
    ASSUME QueueAssumption, TypeOK, AllTimed, KilledSwallowed, [Next]_vars
    PROVE  KilledSwallowed'
<1>1. ASSUME NEW s \in Slots, HardKill(s) PROVE KilledSwallowed'
  <2>1. Running(s) /\ slot[s].time = HardLimit /\ Settle(IdOf(s), "killed")
    BY <1>1 DEF HardKill
  <2>2. IdOf(s) \in Swallowing
    BY <2>1 DEF AllTimed, Timing, Running, QueueAssumption
  <2>3. QED BY <2>1, <2>2 DEF KilledSwallowed, Settle, TypeOK
<1>2. ASSUME NEW i, NEW f \in {"pending", "failed", "over"},
             fate' = [fate EXCEPT ![i] = f] \/ fate' = fate
      PROVE  KilledSwallowed'
  BY <1>2 DEF KilledSwallowed, TypeOK
<1>3. CASE UNCHANGED vars
  BY <1>3 DEF KilledSwallowed, vars, taskVars
<1>4. QED
  BY <1>1, <1>2, <1>3
  DEF Next, WorkerStep, RestoreStep, OperatorStep, Outcome, taskVars, Settle, Publish, Submit, Deliver,
      Start, Expire, Succeed, Retry, Fail, FailUnrecorded, Ack, Crash, ProcessLost, Lose, RestoreHeld,
      RestoreOrphan, Tick, SendRequeue, MarkRequeued, MarkResolved, Delete, Review, Purge

(* Every failure nobody has reviewed has an unresolved row, whatever the   *)
(* operators requeue, resolve, delete and purge, as long as no worker is   *)
(* lost, nothing given back and no write failed; and a task killed without *)
(* a row is one that swallows the soft limit.                              *)
THEOREM FailuresReviewed == Spec => []FailuresAwaitReview
<1>1. Init => ReviewInv /\ KilledSwallowed
  BY ReviewInit, QueueAssumption DEF Init, KilledSwallowed
<1>2. QueueInv /\ ReviewInv /\ KilledSwallowed /\ [Next]_vars => ReviewInv' /\ KilledSwallowed'
  BY ReviewStep, KilledStep, QueueAssumption DEF QueueInv
<1>3. ReviewInv /\ KilledSwallowed => FailuresAwaitReview
  BY DEF ReviewInv, Undisturbed, AllAwait, KilledSwallowed, FailuresAwaitReview
<1>4. QED
  BY <1>1, <1>2, <1>3, QueueInvariant, PTL DEF Spec
=============================================================================

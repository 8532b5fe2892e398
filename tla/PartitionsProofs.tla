-------------------------- MODULE PartitionsProofs --------------------------
(***************************************************************************)
(* Proofs about Partitions.  Neither NoGaps nor BatchesSinceInstallLand is *)
(* inductive: what makes a completed run extend the covered months is what *)
(* every run has found or created so far (RunInv), and what makes the      *)
(* covered months contain the present one is that completed runs are not   *)
(* missed for too long (CalendarInv).                                      *)
(***************************************************************************)
EXTENDS Partitions, TLAPS

(***************************************************************************)
(* A run has a partition for every month from the one it began in to the   *)
(* one before its cursor.                                                  *)
(***************************************************************************)
RunInv(r) ==
    /\ pc[r] = "create" => left[r] > 0
    /\ pc[r] # "idle" =>
          /\ base[r] >= Install /\ base[r] <= month
          /\ cursor[r].month = base[r] + (Ahead + 1 - left[r])
          /\ \A m \in Nat : base[r] <= m /\ m < cursor[r].month => m \in partitions

CalendarInv ==
    /\ Install <= lastDone /\ lastDone <= month
    /\ month <= lastDone + Ahead

PInv ==
    /\ TypeOK
    /\ CalendarInv
    /\ NoGaps
    /\ \A r \in Runs : RunInv(r)
    /\ BatchesSinceInstallLand

(***************************************************************************)
(* A month has 28 to 31 days.                                              *)
(***************************************************************************)
LEMMA MonthLengths == \A m \in Nat : MonthLength(m) \in 28..31
  BY DEF MonthLength

(***************************************************************************)
(* _add_month: 32 days after the first of a month is in the next month,    *)
(* whatever the lengths of the two, and its floor is the first of it.      *)
(***************************************************************************)
LEMMA AddMonthIsNext ==
    ASSUME NEW date, date \in [month: Nat, day: {1}]
    PROVE  /\ AddMonth(date).month = date.month + 1
           /\ AddMonth(date) \in [month: Nat, day: {1}]
  <1> DEFINE len == MonthLength(date.month)
             next == MonthLength(date.month + 1)
  <1>1. date.month \in Nat /\ date.day = 1
    OBVIOUS
  <1>2. len \in 28..31 /\ next \in 28..31
    BY <1>1, MonthLengths
  <1> HIDE DEF len, next
  <1>3. PlusDays(date, 32) = Date(date.month + 1, 33 - len)
    BY <1>1, <1>2 DEF PlusDays, len, next
  <1> QED
    BY <1>1, <1>3 DEF AddMonth, MonthFloor, Date

LEMMA InitInv == Init => PInv
  BY PartitionAssumption DEF Init, PInv, TypeOK, CalendarInv, NoGaps, RunInv,
     BatchesSinceInstallLand, Date

(***************************************************************************)
(* Moving the cursor past a month that has its partition.                  *)
(***************************************************************************)
LEMMA AdvanceKeepsRun ==
    ASSUME PInv, NEW r \in Runs, pc[r] # "idle", left[r] > 0, Advance(r),
           UNCHANGED <<month, base>>,
           partitions' = partitions \cup {cursor[r].month}
    PROVE  \A q \in Runs : RunInv(q)'
  <1> TAKE q \in Runs
  <1> USE PartitionAssumption
  <1>1. cursor[r] \in [month: Nat, day: {1}] /\ left[r] \in 0..(Ahead + 1)
        /\ base[r] \in Nat /\ month \in Nat
    BY DEF PInv, TypeOK
  <1>2. CASE q # r
    <2>1. pc'[q] = pc[q] /\ left'[q] = left[q] /\ cursor'[q] = cursor[q]
      BY <1>2 DEF Advance, PInv, TypeOK
    <2> QED
      BY <2>1 DEF RunInv, PInv
  <1>3. CASE q = r
    <2>1. pc'[r] = "check" /\ left'[r] = left[r] - 1 /\ cursor'[r] = AddMonth(cursor[r])
      BY DEF Advance, PInv, TypeOK
    <2>2. cursor'[r].month = cursor[r].month + 1
      BY <1>1, <2>1, AddMonthIsNext
    <2>3. /\ base[r] >= Install /\ base[r] <= month
          /\ cursor[r].month = base[r] + (Ahead + 1 - left[r])
          /\ \A m \in Nat : base[r] <= m /\ m < cursor[r].month => m \in partitions
      BY DEF PInv, RunInv
    <2>4. cursor'[r].month = base[r] + (Ahead + 1 - left'[r])
      BY <1>1, <2>1, <2>2, <2>3
    <2>5. \A m \in Nat : base[r] <= m /\ m < cursor'[r].month => m \in partitions'
      BY <1>1, <2>2, <2>3
    <2> QED
      BY <1>3, <2>1, <2>3, <2>4, <2>5 DEF RunInv
  <1> QED
    BY <1>2, <1>3

(***************************************************************************)
(* ... and the types of what Advance writes.                               *)
(***************************************************************************)
LEMMA AdvanceKeepsTypes ==
    ASSUME TypeOK, NEW r \in Runs, left[r] > 0, Advance(r)
    PROVE  /\ pc' \in [Runs -> {"idle", "check", "create"}]
           /\ cursor' \in [Runs -> [month: Nat, day: {1}]]
           /\ left' \in [Runs -> 0..(Ahead + 1)]
  <1>1. cursor[r] \in [month: Nat, day: {1}] /\ left[r] \in 0..(Ahead + 1)
    BY DEF TypeOK
  <1>2. AddMonth(cursor[r]) \in [month: Nat, day: {1}]
    BY <1>1, AddMonthIsNext
  <1>3. left[r] - 1 \in 0..(Ahead + 1)
    BY <1>1, PartitionAssumption
  <1> QED
    BY <1>2, <1>3 DEF Advance, TypeOK

LEMMA StepInv == PInv /\ [Next]_vars => PInv'
  <1> SUFFICES ASSUME PInv, [Next]_vars PROVE PInv'
    OBVIOUS
  <1> USE PartitionAssumption
  <1>1. ASSUME NEW r \in Runs, Begin(r) PROVE PInv'
    <2>1. TypeOK'
      BY <1>1 DEF PInv, TypeOK, Begin, Date
    <2>2. ASSUME NEW q \in Runs PROVE RunInv(q)'
      BY <1>1 DEF PInv, TypeOK, CalendarInv, RunInv, Begin, Date
    <2> QED
      BY <1>1, <2>1, <2>2 DEF PInv, CalendarInv, NoGaps, BatchesSinceInstallLand, Begin
  <1>2. ASSUME NEW r \in Runs, FindMissing(r) PROVE PInv'
    <2>1. TypeOK'
      BY <1>2 DEF PInv, TypeOK, FindMissing
    <2>2. ASSUME NEW q \in Runs PROVE RunInv(q)'
      BY <1>2 DEF PInv, TypeOK, RunInv, FindMissing
    <2> QED
      BY <1>2, <2>1, <2>2 DEF PInv, CalendarInv, NoGaps, BatchesSinceInstallLand, FindMissing
  <1>3. ASSUME NEW r \in Runs, FindPresent(r) PROVE PInv'
    <2>1. TypeOK'
      BY <1>3, AdvanceKeepsTypes DEF PInv, TypeOK, FindPresent
    <2>2. partitions' = partitions \cup {cursor[r].month}
      BY <1>3 DEF FindPresent
    <2>3. \A q \in Runs : RunInv(q)'
      BY <1>3, <2>2, AdvanceKeepsRun DEF FindPresent
    <2> QED
      BY <1>3, <2>1, <2>3 DEF PInv, CalendarInv, NoGaps, BatchesSinceInstallLand, FindPresent
  <1>4. ASSUME NEW r \in Runs, Create(r) PROVE PInv'
    <2>1. left[r] > 0
      BY <1>4 DEF PInv, RunInv, Create
    <2>2. TypeOK'
      <3>1. cursor[r].month \in Nat
        BY DEF PInv, TypeOK
      <3> QED
        BY <1>4, <2>1, <3>1, AdvanceKeepsTypes DEF PInv, TypeOK, Create
    <2>3. \A q \in Runs : RunInv(q)'
      BY <1>4, <2>1, AdvanceKeepsRun DEF Create
    <2> QED
      BY <1>4, <2>2, <2>3 DEF PInv, CalendarInv, NoGaps, BatchesSinceInstallLand, Create
  <1>5. ASSUME NEW r \in Runs, Fail(r) PROVE PInv'
    <2>1. TypeOK'
      BY <1>5 DEF PInv, TypeOK, Fail
    <2>2. ASSUME NEW q \in Runs PROVE RunInv(q)'
      BY <1>5 DEF PInv, TypeOK, RunInv, Fail
    <2> QED
      BY <1>5, <2>1, <2>2 DEF PInv, CalendarInv, NoGaps, BatchesSinceInstallLand, Fail
  <1>6. ASSUME NEW r \in Runs, Complete(r) PROVE PInv'
    <2>1. TypeOK'
      BY <1>6 DEF PInv, TypeOK, Complete
    <2>2. ASSUME NEW q \in Runs PROVE RunInv(q)'
      BY <1>6 DEF PInv, TypeOK, RunInv, Complete
    <2>3. /\ base[r] \in Nat /\ base[r] <= month
          /\ \A m \in Nat : base[r] <= m /\ m <= base[r] + Ahead => m \in partitions
      BY <1>6 DEF PInv, TypeOK, RunInv, Complete
    <2>4. CalendarInv' /\ NoGaps'
      BY <1>6, <2>3 DEF PInv, TypeOK, CalendarInv, NoGaps, Complete
    <2> QED
      BY <1>6, <2>1, <2>2, <2>4 DEF PInv, BatchesSinceInstallLand, Complete
  <1>7. CASE NextMonth
    <2>1. TypeOK'
      BY <1>7 DEF PInv, TypeOK, NextMonth, runVars
    <2>2. ASSUME NEW q \in Runs PROVE RunInv(q)'
      BY <1>7 DEF PInv, TypeOK, RunInv, NextMonth, runVars
    <2>3. CalendarInv'
      BY <1>7 DEF PInv, TypeOK, CalendarInv, NextMonth
    <2> QED
      BY <1>7, <2>1, <2>2, <2>3 DEF PInv, NoGaps, BatchesSinceInstallLand, NextMonth
  <1>8. CASE SensorFires
    BY <1>8 DEF PInv, TypeOK, CalendarInv, NoGaps, RunInv, BatchesSinceInstallLand,
       SensorFires, runVars
  <1>9. ASSUME NEW first \in 0..MaxMonth, InsertBatch(first) PROVE PInv'
    <2>1. first >= Install => Lands(first)
      BY <1>9 DEF PInv, TypeOK, CalendarInv, NoGaps, Lands, InsertBatch
    <2>2. rejected' = rejected \/ (rejected' = rejected \cup {first} /\ first < Install)
      BY <1>9, <2>1 DEF InsertBatch
    <2>3. BatchesSinceInstallLand'
      BY <2>2 DEF PInv, BatchesSinceInstallLand
    <2>4. TypeOK'
      BY <1>9, <2>2 DEF PInv, TypeOK, InsertBatch, runVars
    <2>5. ASSUME NEW q \in Runs PROVE RunInv(q)'
      BY <1>9 DEF PInv, RunInv, InsertBatch, runVars
    <2> QED
      BY <1>9, <2>3, <2>4, <2>5 DEF PInv, CalendarInv, NoGaps, InsertBatch
  <1>10. CASE UNCHANGED vars
    BY <1>10 DEF PInv, TypeOK, CalendarInv, NoGaps, RunInv, BatchesSinceInstallLand,
       vars, runVars
  <1> QED
    BY <1>1, <1>2, <1>3, <1>4, <1>5, <1>6, <1>7, <1>8, <1>9, <1>10 DEF Next, RunStep

(***************************************************************************)
(* The invariant holds for every number of overlapping runs, every         *)
(* months_ahead and every calendar.                                        *)
(***************************************************************************)
THEOREM PartitionsInvariant == Spec => []PInv
  BY InitInv, StepInv, PTL DEF Spec

(***************************************************************************)
(* ensure_future_partitions leaves no gap from the installation on.        *)
(***************************************************************************)
THEOREM PartitionsHaveNoGaps == Spec => []NoGaps
  <1>1. PInv => NoGaps
    BY DEF PInv
  <1> QED
    BY <1>1, PartitionsInvariant, PTL

(***************************************************************************)
(* No batch since the installation is turned away while completed runs are *)
(* missed for fewer than months_ahead months.                              *)
(***************************************************************************)
THEOREM BatchesLand == Spec => []BatchesSinceInstallLand
  <1>1. PInv => BatchesSinceInstallLand
    BY DEF PInv
  <1> QED
    BY <1>1, PartitionsInvariant, PTL

(***************************************************************************)
(* The maintenance runs and the partitions keep their types: a cursor is   *)
(* always the first of a month.                                            *)
(***************************************************************************)
COROLLARY PartitionTypes == Spec => []TypeOK
<1>1. PInv => TypeOK
  BY DEF PInv
<1>2. QED
  BY <1>1, PartitionsInvariant, PTL
=============================================================================

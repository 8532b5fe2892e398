---------------------------- MODULE Partitions ----------------------------
(***************************************************************************)
(* The monthly partitions of fact_price_candle: the migration that creates *)
(* the first ones (apps/prices/migrations/0002_partition_candles.py), the  *)
(* maintenance task that keeps ahead of the calendar                       *)
(* (pipelines/tasks/maintenance.py) and the candle batches that need them  *)
(* (upsert_candles in apps/prices/services.py).  There is no default       *)
(* partition.                                                              *)
(*                                                                         *)
(* Months are numbered from January 2024.  A partition is named by its     *)
(* month and reaches to the date the code computes as the next month.      *)
(***************************************************************************)
EXTENDS Integers

CONSTANTS
    Runs,       \* executions of the maintenance task that may overlap
    Ahead,      \* months_ahead
    Install,    \* month of the migration
    MaxMissed,  \* months in a row without a completed maintenance run
    Back,       \* months a candle request reaches back
    MaxMonth    \* bound on the calendar

ASSUME PartitionAssumption ==
    /\ Ahead \in Nat /\ MaxMissed \in Nat /\ MaxMissed < Ahead
    /\ Install \in Nat /\ Back \in Nat /\ MaxMonth \in Nat

VARIABLES
    month,      \* the calendar
    partitions, \* months that have a partition
    pc,         \* where each maintenance run is
    base,       \* the month each run began in
    cursor,     \* cursor_month of each run
    left,       \* iterations each run has left
    sensed,     \* cursor of Dagster's partition_sensor: the month it acted on
    lastDone,   \* latest month in which a run began that completed
    rejected    \* first months of the batches that found no partition

runVars == <<pc, base, cursor, left>>
vars == <<month, partitions, runVars, sensed, lastDone, rejected>>

-----------------------------------------------------------------------------
(* The calendar arithmetic, on dates [month, day].                         *)

IsLeap(y) == y % 4 = 0 /\ (y % 100 # 0 \/ y % 400 = 0)

MonthLength(m) ==
    CASE m % 12 = 1 -> IF IsLeap(2024 + m \div 12) THEN 29 ELSE 28
      [] m % 12 \in {3, 5, 8, 10} -> 30
      [] OTHER -> 31

Date(m, d) == [month |-> m, day |-> d]

(* For spans of at most two months' days. *)
PlusDays(date, n) ==
    LET d == date.day + n
        len == MonthLength(date.month)
        next == MonthLength(date.month + 1)
    IN  CASE d <= len -> Date(date.month, d)
          [] d > len /\ d <= len + next -> Date(date.month + 1, d - len)
          [] OTHER -> Date(date.month + 2, d - len - next)

MonthFloor(date) == Date(date.month, 1)

(* Mutant: a month is thirty days. *)
AddThirtyDays(date) == MonthFloor(PlusDays(date, 30))

(* Mutant: the result is not brought back to the first of the month. *)
AddMonthUnfloored(date) == PlusDays(date, 32)

AddMonth(date) == MonthFloor(PlusDays(date, 32))

-----------------------------------------------------------------------------
Init ==
    /\ month = Install
    /\ partitions = Install..(Install + Ahead)
    /\ pc = [r \in Runs |-> "idle"]
    /\ base = [r \in Runs |-> Install]
    /\ cursor = [r \in Runs |-> Date(Install, 1)]
    /\ left = [r \in Runs |-> 0]
    /\ lastDone = Install /\ sensed = -1
    /\ rejected = {}

(* Mutant: range(months_ahead). *)
BeginOneShort(r) ==
    /\ pc[r] = "idle"
    /\ pc' = [pc EXCEPT ![r] = "check"]
    /\ base' = [base EXCEPT ![r] = month]
    /\ cursor' = [cursor EXCEPT ![r] = Date(month, 1)]
    /\ left' = [left EXCEPT ![r] = Ahead]
    /\ UNCHANGED <<month, partitions, lastDone, sensed, rejected>>

(* By Beat on the 25th, by a redelivery, or by an operator. *)
Begin(r) ==
    /\ pc[r] = "idle"
    /\ pc' = [pc EXCEPT ![r] = "check"]
    /\ base' = [base EXCEPT ![r] = month]
    /\ cursor' = [cursor EXCEPT ![r] = Date(month, 1)]
    /\ left' = [left EXCEPT ![r] = Ahead + 1]
    /\ UNCHANGED <<month, partitions, lastDone, sensed, rejected>>

Advance(r) ==
    /\ cursor' = [cursor EXCEPT ![r] = AddMonth(@)]
    /\ left' = [left EXCEPT ![r] = @ - 1]
    /\ pc' = [pc EXCEPT ![r] = "check"]

(* IF NOT EXISTS ... pg_class *)
FindMissing(r) ==
    /\ pc[r] = "check" /\ left[r] > 0
    /\ cursor[r].month \notin partitions
    /\ pc' = [pc EXCEPT ![r] = "create"]
    /\ UNCHANGED <<month, partitions, base, cursor, left, lastDone, sensed, rejected>>

FindPresent(r) ==
    /\ pc[r] = "check" /\ left[r] > 0
    /\ cursor[r].month \in partitions
    /\ Advance(r)
    /\ UNCHANGED <<month, partitions, base, lastDone, sensed, rejected>>

Create(r) ==
    /\ pc[r] = "create"
    /\ cursor[r].month \notin partitions
    /\ partitions' = partitions \cup {cursor[r].month}
    /\ Advance(r)
    /\ UNCHANGED <<month, base, lastDone, sensed, rejected>>

(* Another run created it after the check: "relation already exists" ends  *)
(* this run; a crash or a time limit may end it anywhere.  What it has     *)
(* created is committed.                                                   *)
Fail(r) ==
    /\ pc[r] # "idle"
    /\ pc' = [pc EXCEPT ![r] = "idle"]
    /\ UNCHANGED <<month, partitions, base, cursor, left, lastDone, sensed, rejected>>

Complete(r) ==
    /\ pc[r] = "check" /\ left[r] = 0
    /\ pc' = [pc EXCEPT ![r] = "idle"]
    /\ lastDone' = IF base[r] > lastDone THEN base[r] ELSE lastDone
    /\ UNCHANGED <<month, partitions, base, cursor, left, sensed, rejected>>

-----------------------------------------------------------------------------
NextMonth ==
    /\ month < MaxMonth
    /\ month - lastDone <= MaxMissed
    /\ month' = month + 1
    /\ UNCHANGED <<partitions, runVars, lastDone, sensed, rejected>>

(* One transaction inserts the candles of a contiguous range of months: a  *)
(* month without a partition fails them all.                               *)
Lands(first) == first..month \subseteq partitions

InsertBatch(first) ==
    /\ first <= month /\ month - first <= Back
    /\ rejected' = IF Lands(first) THEN rejected ELSE rejected \cup {first}
    /\ UNCHANGED <<month, partitions, runVars, sensed, lastDone>>

(* partition_sensor, once in the last days of a month: the job it requests *)
(* materialises silver_price_candles, which inserts a batch (InsertBatch)  *)
(* and creates nothing.                                                    *)
SensorFires ==
    /\ sensed # month
    /\ sensed' = month
    /\ UNCHANGED <<month, partitions, runVars, lastDone, rejected>>

RunStep(r) ==
    Begin(r) \/ FindMissing(r) \/ FindPresent(r) \/ Create(r) \/ Fail(r) \/ Complete(r)

Next ==
    \/ \E r \in Runs : RunStep(r)
    \/ NextMonth \/ SensorFires
    \/ \E first \in 0..MaxMonth : InsertBatch(first)

Spec == Init /\ [][Next]_vars

-----------------------------------------------------------------------------
(***************************************************************************)
(* Type correctness; a run's cursor is always the first of a month.        *)
(***************************************************************************)
TypeOK ==
    /\ month \in Nat /\ partitions \subseteq Nat
    /\ pc \in [Runs -> {"idle", "check", "create"}]
    /\ base \in [Runs -> Nat]
    /\ cursor \in [Runs -> [month: Nat, day: {1}]]
    /\ left \in [Runs -> 0..(Ahead + 1)]
    /\ sensed \in Nat \cup {-1} /\ lastDone \in Nat /\ rejected \subseteq Nat

(***************************************************************************)
(* From the installation to months_ahead past the last completed run there *)
(* is no gap, though runs overlap, stop half-way and are skipped for       *)
(* months.                                                                 *)
(***************************************************************************)
NoGaps == Install..(lastDone + Ahead) \subseteq partitions

(***************************************************************************)
(* A batch that does not reach back before the installation is never       *)
(* turned away, as long as no more than MaxMissed months pass without a    *)
(* completed run.                                                          *)
(***************************************************************************)
BatchesSinceInstallLand == \A first \in rejected : first < Install

(***************************************************************************)
(* sensors.py: "when month-end approaches it triggers the maintenance task *)
(* that creates the next monthly partition".  Once the sensor has fired    *)
(* and no run is under way, the next month has its partition.              *)
(***************************************************************************)
SensorSecuresNextMonth ==
    sensed = month /\ (\A r \in Runs : pc[r] = "idle") => month + 1 \in partitions
=============================================================================

--------------------------- MODULE CandleUpsert ---------------------------
(***************************************************************************)
(* Candle runs (ingest_binance_klines, ingest_yahoo_candles) over one      *)
(* natural-key space: each fetches the provider's latest candles and       *)
(* upserts them in one transaction (apps/prices/services.py).              *)
(*                                                                         *)
(* bulk_create(update_conflicts=True) compiles to INSERT ... ON CONFLICT   *)
(* DO UPDATE, which takes the rows one after the other in the order of the *)
(* list and waits at a row another transaction has touched.  Runs overlap: *)
(* two schedules, a retry, a redelivery, a requeue, a backfill.            *)
(***************************************************************************)
EXTENDS Integers, Functions, FiniteSets

CONSTANTS
    Runs,
    Times,          \* open times of the candles
    Limit,          \* candles per request
    MaxRevision,    \* bound on the provider's revisions of a candle
    MaxFaults       \* bound on lost transactions

ASSUME CandleAssumption ==
    Times \subseteq Nat /\ Limit \in Nat /\ MaxRevision \in Nat /\ MaxFaults \in Nat

VARIABLES
    table,      \* fact_price_candle: open time -> stored revision
    revision,   \* the provider's candles: open time -> revision
    pc,         \* where each run is
    batch,      \* the records of each run
    todo,       \* open times the transaction has not reached
    faults

runVars == <<pc, batch, todo>>
vars == <<table, revision, runVars, faults>>

None == [t \in {} |-> 0]

(* What a list of candles may hold. *)
Records == UNION {[S -> 0..MaxRevision] : S \in SUBSET Times}

Init ==
    /\ table = None /\ revision = None
    /\ pc = [r \in Runs |-> "idle"]
    /\ batch = [r \in Runs |-> None]
    /\ todo = [r \in Runs |-> {}]
    /\ faults = 0

-----------------------------------------------------------------------------
(* The provider: a new candle opens, or a recent one is revised.           *)

Opens(t) ==
    /\ t \in Times \ DOMAIN revision
    /\ \A s \in Times : s < t => s \in DOMAIN revision
    /\ revision' = [s \in DOMAIN revision \cup {t} |-> IF s = t THEN 0 ELSE revision[s]]
    /\ UNCHANGED <<table, runVars, faults>>

Revises(t) ==
    /\ t \in DOMAIN revision /\ revision[t] < MaxRevision
    /\ revision' = [revision EXCEPT ![t] = @ + 1]
    /\ UNCHANGED <<table, runVars, faults>>

-----------------------------------------------------------------------------
(* A run.                                                                  *)

Latest == {t \in DOMAIN revision : Cardinality({s \in DOMAIN revision : s > t}) < Limit}

(* Without candles the run returns 0. *)
Fetch(r) ==
    /\ pc[r] = "idle" /\ DOMAIN revision # {}
    /\ batch' = [batch EXCEPT ![r] = Restrict(revision, Latest)]
    /\ todo' = [todo EXCEPT ![r] = Latest]
    /\ pc' = [pc EXCEPT ![r] = "fetched"]
    /\ UNCHANGED <<table, revision, faults>>

BeginTransaction(r) ==
    /\ pc[r] = "fetched"
    /\ pc' = [pc EXCEPT ![r] = "inserting"]
    /\ UNCHANGED <<table, revision, batch, todo, faults>>

Holds(r) == IF pc[r] = "inserting" THEN DOMAIN batch[r] \ todo[r] ELSE {}

(* Mutant: the list is in no particular order. *)
NextRowAnyOrder(r, t) == t \in todo[r]

(* Providers return candles by ascending open time, and the list keeps it. *)
NextRow(r, t) == t \in todo[r] /\ \A s \in todo[r] : t <= s

Blocked(r, q) == q # r /\ \E t \in Holds(q) : pc[r] = "inserting" /\ NextRow(r, t)

UpsertRow(r, t) ==
    /\ pc[r] = "inserting" /\ NextRow(r, t)
    /\ \A q \in Runs \ {r} : t \notin Holds(q)
    /\ todo' = [todo EXCEPT ![r] = @ \ {t}]
    /\ UNCHANGED <<table, revision, pc, batch, faults>>

(* Mutant: the next run finds rows of the last one to do. *)
EndRunKeepTodo(r) ==
    /\ pc' = [pc EXCEPT ![r] = "idle"]
    /\ batch' = [batch EXCEPT ![r] = None]
    /\ UNCHANGED <<todo, revision>>

EndRun(r) ==
    /\ pc' = [pc EXCEPT ![r] = "idle"]
    /\ batch' = [batch EXCEPT ![r] = None]
    /\ todo' = [todo EXCEPT ![r] = {}]
    /\ UNCHANGED revision

(* Every record replaces what is stored under its natural key. *)
Upsert(records) ==
    table' = [t \in DOMAIN table \cup DOMAIN records |->
                 IF t \in DOMAIN records THEN records[t] ELSE table[t]]

(* Mutant: a row that is there already is left alone (DO NOTHING). *)
CommitInsertOnly(r) ==
    /\ pc[r] = "inserting" /\ todo[r] = {}
    /\ Upsert(Restrict(batch[r], DOMAIN batch[r] \ DOMAIN table))
    /\ EndRun(r)
    /\ UNCHANGED faults

Commit(r) ==
    /\ pc[r] = "inserting" /\ todo[r] = {}
    /\ Upsert(batch[r])
    /\ EndRun(r)
    /\ UNCHANGED faults

(* A lost worker, a time limit, a missing partition: rolled back. *)
Abort(r) ==
    /\ pc[r] # "idle" /\ faults < MaxFaults
    /\ faults' = faults + 1
    /\ EndRun(r)
    /\ UNCHANGED table

-----------------------------------------------------------------------------
RunStep(r) ==
    \/ Fetch(r) \/ BeginTransaction(r)
    \/ \E t \in Times : UpsertRow(r, t)
    \/ Commit(r)

Next ==
    \/ \E t \in Times : Opens(t) \/ Revises(t)
    \/ \E r \in Runs : RunStep(r) \/ Abort(r)

Spec == Init /\ [][Next]_vars

(* A run that has begun goes on, and PostgreSQL wakes the transactions     *)
(* that wait at a row in the order in which they came, so none is passed   *)
(* over for ever.  The start of a run is nobody's duty.                    *)
FairSpec == Spec /\ \A r \in Runs : SF_vars(pc[r] # "idle" /\ RunStep(r))

-----------------------------------------------------------------------------
(***************************************************************************)
(* Type correctness; a row is reached at most once.                        *)
(***************************************************************************)
TypeOK ==
    /\ table \in Records /\ revision \in Records
    /\ pc \in [Runs -> {"idle", "fetched", "inserting"}]
    /\ batch \in [Runs -> Records]
    /\ \A r \in Runs : todo[r] \subseteq DOMAIN batch[r]
    /\ faults \in 0..MaxFaults

(***************************************************************************)
(* Overlapping batches cannot deadlock: along a chain of waiting           *)
(* transactions the row waited for only grows, so no chain closes.         *)
(***************************************************************************)
WaitsAscend ==
    \A r, q \in Runs :
        Blocked(r, q) => \A s, t \in Times : NextRow(r, s) /\ NextRow(q, t) => s < t

(***************************************************************************)
(* Every run that has fetched ends, however its transaction waits.         *)
(***************************************************************************)
EveryRunEnds == \A r \in Runs : pc[r] # "idle" ~> pc[r] = "idle"

RunsRecur == []<>(\E r \in Runs : pc[r] = "fetched")

(***************************************************************************)
(* A revised candle is refreshed: as long as runs keep being started, the  *)
(* candles within a request's reach end up as the provider has them.       *)
(***************************************************************************)
RecentCandlesConverge ==
    RunsRecur => <>[](\A t \in Latest : t \in DOMAIN table /\ table[t] = revision[t])
=============================================================================

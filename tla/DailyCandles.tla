---------------------------- MODULE DailyCandles ----------------------------
(***************************************************************************)
(* The Dagster asset silver_price_candles (pipelines/orchestration/        *)
(* assets.py) as scripts/backfill.sh materialises it, day by day: a run    *)
(* submits one ingest_binance_klines task per symbol and waits for all of  *)
(* them, but no longer than a timeout of its own.  The tasks live in the   *)
(* at-least-once queue of AtLeastOnce and outlive the run that gave up.    *)
(*                                                                         *)
(* Time is counted in candles: at now the candles 0..now have opened, and  *)
(* day d is the candles d * DayLength .. (d + 1) * DayLength - 1.          *)
(***************************************************************************)
EXTENDS Integers

CONSTANTS
    Runs,       \* materialisations
    Symbols,    \* the four symbols of the asset
    DayLength,  \* candles of a day, 1440
    Reach,      \* candles of a response: limit=1440, or what the provider caps it at
    Patience,   \* timeout of get(): 300 s
    MaxTime     \* bound on the clock

ASSUME DailyAssumption ==
    /\ DayLength \in Nat \ {0} /\ Reach \in Nat /\ Patience \in Nat /\ MaxTime \in Nat

VARIABLES
    now,
    listed,     \* symbols that are the ticker of a current instrument
    table,      \* open times of the candles stored for each symbol, under
                \* whichever instrument had the ticker then
    runs,       \* the Dagster runs; known, for the observer, are the symbols
                \* a waiting run can still count on
    life, held, \* the queue
    newest,     \* of each task, the newest candle it has fetched and not stored
    result      \* of each task, what the result backend holds

vars == <<now, listed, table, runs, life, held, newest, result>>

Ids == Runs \X Symbols
INSTANCE AtLeastOnce

Nothing == -1

NotStarted == [state |-> "none"]
Started(day) == [state |-> "waiting", day |-> day, began |-> now, known |-> listed]

Waiting(n) == runs[n].state = "waiting"
Expired(n) == now = runs[n].began + Patience

Init ==
    /\ now = 0 /\ listed = {}
    /\ table = [s \in Symbols |-> {}]
    /\ runs = [n \in Runs |-> NotStarted]
    /\ QueueInit
    /\ newest = [i \in Ids |-> Nothing]
    /\ result = [i \in Ids |-> "none"]

-----------------------------------------------------------------------------
(* The world: time, which no waiting run lets pass beyond its timeout, and *)
(* the catalogue sync.                                                     *)

Tick ==
    /\ now < MaxTime /\ ~\E n \in Runs : Waiting(n) /\ Expired(n)
    /\ now' = now + 1
    /\ UNCHANGED <<listed, table, runs, life, held, newest, result>>

(* A current version with this ticker is written. *)
List(s) ==
    /\ s \notin listed
    /\ listed' = listed \cup {s}
    /\ UNCHANGED <<now, table, runs, life, held, newest, result>>

(* Such a symbol can be counted on no longer. *)
Doubt(affected, s) ==
    runs' = [n \in Runs |-> IF n \in affected /\ Waiting(n)
                            THEN [runs[n] EXCEPT !.known = @ \ {s}] ELSE runs[n]]

(* The ticker is a tracked attribute: when it changes, the version that    *)
(* has the old one is closed, and no task finds it any more.               *)
Unlist(s) ==
    /\ s \in listed
    /\ listed' = listed \ {s}
    /\ Doubt(Runs, s)
    /\ UNCHANGED <<now, table, life, held, newest, result>>

-----------------------------------------------------------------------------
(* The Dagster process.                                                    *)

(* Partitions are the days that are over.  The guard on MaxTime leaves     *)
(* time for the timeout.  A group is published task by task: when the      *)
(* broker fails in the middle, the tasks before are out and the run ends.  *)
Materialise(n, day) ==
    /\ runs[n].state = "none"
    /\ (day + 1) * DayLength <= now /\ now + Patience <= MaxTime
    /\ \E published \in SUBSET ({n} \X Symbols) :
          /\ Submit(published)
          /\ runs' = [runs EXCEPT ![n] =
                         IF published = {n} \X Symbols THEN Started(day)
                         ELSE [Started(day) EXCEPT !.state = "red"]]
    /\ UNCHANGED <<now, listed, table, newest, result>>

(* Mutant: whatever the tasks came to. *)
CollectEnded(n) ==
    /\ Waiting(n) /\ \A s \in Symbols : life[<<n, s>>] = "ended"
    /\ runs' = [runs EXCEPT ![n].state = "green"]
    /\ UNCHANGED <<now, listed, table, life, held, newest, result>>

(* sum(pending.get()) *)
Collect(n) ==
    /\ Waiting(n) /\ \A s \in Symbols : result[<<n, s>>] = "ok"
    /\ runs' = [runs EXCEPT ![n].state = "green"]
    /\ UNCHANGED <<now, listed, table, life, held, newest, result>>

(* Mutant: get() without a timeout. *)
GiveUpOnFailure(n) ==
    /\ Waiting(n) /\ \E s \in Symbols : result[<<n, s>>] = "failed"
    /\ runs' = [runs EXCEPT ![n].state = "red"]
    /\ UNCHANGED <<now, listed, table, life, held, newest, result>>

(* get() raises what a task raised, or its timeout; nothing revokes the    *)
(* other tasks.                                                            *)
GiveUp(n) ==
    /\ Waiting(n) /\ (Expired(n) \/ \E s \in Symbols : result[<<n, s>>] = "failed")
    /\ runs' = [runs EXCEPT ![n].state = "red"]
    /\ UNCHANGED <<now, listed, table, life, held, newest, result>>

-----------------------------------------------------------------------------
(* A task: ingest_binance_klines(symbol, "1m", limit).                     *)

(* The latest candles, the open one among them: the day is not asked for. *)
Fetch(i) ==
    /\ i \in held /\ newest[i] = Nothing
    /\ newest' = [newest EXCEPT ![i] = now]
    /\ UNCHANGED <<now, listed, table, runs, life, held, result>>

Window(newestOne) == {t \in 0..newestOne : t > newestOne - Reach}

(* The backend keeps a success. *)
Report(i, outcome) ==
    result' = [result EXCEPT ![i] = IF @ = "ok" THEN @ ELSE outcome]

(* Mutant: a copy is left with what the copy before it fetched. *)
EndOfKept(i) == End(i) /\ UNCHANGED newest

EndOf(i) == End(i) /\ newest' = [newest EXCEPT ![i] = Nothing]

(* An empty answer: the task returns 0, a success with nothing stored.     *)
FetchNothing(i) ==
    /\ i \in held /\ newest[i] = Nothing
    /\ Report(i, "ok")
    /\ EndOf(i)
    /\ Doubt({i[1]}, i[2])
    /\ UNCHANGED <<now, listed, table>>

(* So does a task that finds no current instrument with its ticker. *)
Store(i) ==
    /\ newest[i] # Nothing
    /\ table' = IF i[2] \in listed
                THEN [table EXCEPT ![i[2]] = @ \cup Window(newest[i])]
                ELSE table
    /\ Report(i, "ok")
    /\ EndOf(i)
    /\ UNCHANGED <<now, listed, runs>>

(* No retries left, a time limit, a month without a partition: nothing is  *)
(* stored.                                                                 *)
Fail(i) ==
    /\ Report(i, "failed")
    /\ EndOf(i)
    /\ UNCHANGED <<now, listed, table, runs>>

(* A retry, a lost worker: the task starts again. *)
StartOver(i) ==
    /\ newest[i] # Nothing
    /\ newest' = [newest EXCEPT ![i] = Nothing]
    /\ UNCHANGED <<now, listed, table, runs, life, held, result>>

(* A copy of a task that has ended comes, or goes. *)
Copy(i) ==
    /\ Redeliver(i) \/ (newest[i] = Nothing /\ Discard(i))
    /\ UNCHANGED <<now, listed, table, runs, newest, result>>

-----------------------------------------------------------------------------
RunEnds(n) == Collect(n) \/ GiveUp(n)

TaskStep(i) == Fetch(i) \/ FetchNothing(i) \/ Store(i) \/ Fail(i) \/ StartOver(i) \/ Copy(i)

Next ==
    \/ Tick
    \/ \E s \in Symbols : List(s) \/ Unlist(s)
    \/ \E n \in Runs : RunEnds(n) \/ \E day \in 0..MaxTime : Materialise(n, day)
    \/ \E i \in Ids : TaskStep(i)

Spec == Init /\ [][Next]_vars

(* Time passes and the Dagster process goes on; nothing is assumed of the  *)
(* workers.                                                                *)
FairSpec == Spec /\ WF_vars(Tick) /\ \A n \in Runs : WF_vars(RunEnds(n))

-----------------------------------------------------------------------------
Days == {d \in 0..MaxTime : (d + 1) * DayLength <= MaxTime}

RunRecord == [state: {"waiting", "green", "red"}, day: Days,
              began: 0..MaxTime, known: SUBSET Symbols]

(***************************************************************************)
(* Type correctness; only a task that is held has candles to store.        *)
(***************************************************************************)
TypeOK ==
    /\ now \in 0..MaxTime /\ listed \subseteq Symbols
    /\ table \in [Symbols -> SUBSET (0..MaxTime)]
    /\ runs \in [Runs -> {NotStarted} \cup RunRecord]
    /\ life \in [Ids -> {"unused", "pending", "ended"}] /\ held \subseteq Ids
    /\ newest \in [Ids -> {Nothing} \cup 0..MaxTime]
    /\ result \in [Ids -> {"none", "ok", "failed"}]
    /\ \A i \in Ids : newest[i] # Nothing => i \in held

(***************************************************************************)
(* What a green run is good for.  Of each symbol that was listed from its  *)
(* beginning to its end and whose task got no empty answer meanwhile, it   *)
(* stored the last Reach candles, less those that opened while it waited:  *)
(* its tasks fetched after it began and before its timeout, whatever       *)
(* failed, was retried or ran twice, and whatever other runs left behind.  *)
(* Of the other symbols a green run may have stored nothing.               *)
(***************************************************************************)
Green(n) == runs[n].state = "green"

GreenIsStored ==
    \A n \in Runs : Green(n) =>
        \A s \in runs[n].known :
            \A t \in 0..runs[n].began : t > runs[n].began + Patience - Reach => t \in table[s]

(***************************************************************************)
(* Every materialisation ends, even if no worker ever takes its tasks up:  *)
(* its own timeout sees to it.                                             *)
(***************************************************************************)
EveryMaterialisationEnds == \A n \in Runs : Waiting(n) ~> ~Waiting(n)

(***************************************************************************)
(* RUNBOOK.md:101: "Replay the affected day from bronze".  A green run     *)
(* would have the candles of its day.                                      *)
(***************************************************************************)
DayOf(n) == {t \in 0..MaxTime : t \div DayLength = runs[n].day}

MaterialisedDayIsStored ==
    \A n \in Runs : Green(n) => \A s \in runs[n].known : DayOf(n) \subseteq table[s]
=============================================================================

-------------------------- MODULE DailyCandlesProofs --------------------------
(***************************************************************************)
(* Proofs about the daily materialisations: for any number of runs and     *)
(* symbols, any length of a day, reach of a response and timeout, a green  *)
(* run has stored what its tasks could reach.                              *)
(***************************************************************************)
EXTENDS DailyCandles, TLAPS

(***************************************************************************)
(* A task that was never submitted has no copy and no result, and a run    *)
(* that has not started has submitted none.                                *)
(***************************************************************************)
UnusedIsUntouched == \A i \in Ids : life[i] = "unused" => i \notin held /\ result[i] = "none"

UnstartedIsUnused == \A n \in Runs : runs[n].state = "none" => \A s \in Symbols : life[<<n, s>>] = "unused"

(* A run began in the past, and what a waiting one counts on is listed.    *)
RunsBeganBefore ==
    \A n \in Runs :
        /\ runs[n].state # "none" => runs[n].began <= now
        /\ Waiting(n) => runs[n].known \subseteq listed

(* No waiting run is past its timeout.                                     *)
WaitsAreBounded == \A n \in Runs : Waiting(n) => now <= runs[n].began + Patience

(* What a task is about to store was fetched since its run began.          *)
FetchedSince ==
    \A n \in Runs, s \in Symbols :
        newest[<<n, s>>] # Nothing =>
            /\ newest[<<n, s>>] <= now
            /\ runs[n].state # "none" /\ runs[n].began <= newest[<<n, s>>]

(* The candles a run can be sure of.                                       *)
Assured(n) == {t \in 0..runs[n].began : t > runs[n].began + Patience - Reach}

(* A success that reached a run in time has stored them, though the run is *)
(* waiting for other symbols still.                                        *)
StoredFor(n, s) == s \in runs[n].known => Assured(n) \subseteq table[s]

SuccessIsStored ==
    \A n \in Runs, s \in Symbols :
        /\ Waiting(n) /\ result[<<n, s>>] = "ok" => StoredFor(n, s)
        /\ Green(n) => StoredFor(n, s)

DailyInv ==
    /\ TypeOK
    /\ UnusedIsUntouched /\ UnstartedIsUnused
    /\ RunsBeganBefore /\ WaitsAreBounded /\ FetchedSince
    /\ SuccessIsStored

(***************************************************************************)
(* The record of a run.                                                    *)
(***************************************************************************)
LEMMA RunTypes ==
    ASSUME TypeOK, NEW n \in Runs
    PROVE  /\ runs[n].state \in {"none", "waiting", "green", "red"}
           /\ runs[n].state = "none" => runs[n] = NotStarted
           /\ runs[n].state # "none" =>
                  runs[n] \in RunRecord /\ runs[n].began \in Nat /\ runs[n].known \subseteq Symbols
<1>1. runs[n] = NotStarted \/ runs[n] \in RunRecord
  BY DEF TypeOK
<1>2. CASE runs[n] = NotStarted
  BY <1>2 DEF NotStarted
<1>3. CASE runs[n] \in RunRecord
  BY <1>3 DEF RunRecord
<1>4. QED
  BY <1>1, <1>2, <1>3

LEMMA StartedTypes ==
    ASSUME TypeOK, NEW day \in Days
    PROVE  /\ Started(day) \in RunRecord
           /\ [Started(day) EXCEPT !.state = "red"] \in RunRecord
           /\ Started(day).state = "waiting" /\ [Started(day) EXCEPT !.state = "red"].state = "red"
           /\ \A run \in {Started(day), [Started(day) EXCEPT !.state = "red"]} :
                  run.began = now /\ run.known = listed
BY DEF TypeOK, Started, RunRecord

LEMMA EndedTypes ==
    ASSUME NEW run \in RunRecord, NEW state \in {"green", "red"}
    PROVE  /\ [run EXCEPT !.state = state] \in RunRecord
           /\ [run EXCEPT !.state = state].state = state
           /\ [run EXCEPT !.state = state].began = run.began
           /\ [run EXCEPT !.state = state].known = run.known
BY DEF RunRecord

(* The runs stay as they are but for symbols they count on no longer.      *)
RunsStay ==
    /\ runs' \in [Runs -> {NotStarted} \cup RunRecord]
    /\ \A n \in Runs : /\ runs'[n].state = runs[n].state /\ runs'[n].began = runs[n].began
                       /\ runs'[n].known \subseteq runs[n].known

LEMMA DoubtedTypes ==
    ASSUME NEW affected, NEW s \in Symbols, TypeOK, Doubt(affected, s)
    PROVE  /\ RunsStay
           /\ \A n \in affected \cap Runs : Waiting(n) => s \notin runs'[n].known
<1>1. ASSUME NEW n \in Runs
      PROVE  /\ runs'[n] \in {NotStarted} \cup RunRecord
             /\ runs'[n].state = runs[n].state /\ runs'[n].began = runs[n].began
             /\ runs'[n].known \subseteq runs[n].known
             /\ n \in affected /\ Waiting(n) => s \notin runs'[n].known
  <2>1. CASE n \in affected /\ Waiting(n)
    <3>1. runs[n] \in RunRecord
      BY <2>1, RunTypes DEF Waiting
    <3>2. runs'[n] = [runs[n] EXCEPT !.known = runs[n].known \ {s}]
      BY <2>1 DEF Doubt
    <3>3. QED
      BY <3>1, <3>2 DEF RunRecord
  <2>2. CASE ~(n \in affected /\ Waiting(n))
    <3>1. runs'[n] = runs[n]
      BY <2>2 DEF Doubt
    <3>2. QED
      BY <2>2, <3>1 DEF TypeOK
  <2>3. QED
    BY <2>1, <2>2
<1>2. DOMAIN runs' = Runs /\ runs' = [n \in Runs |-> runs'[n]]
  BY DEF Doubt
<1>3. QED
  BY <1>1, <1>2 DEF RunsStay

LEMMA UnchangedRunsStay == ASSUME TypeOK, UNCHANGED runs PROVE RunsStay
BY DEF TypeOK, RunsStay

LEMMA TaskIds ==
    /\ \A n \in Runs, s \in Symbols : <<n, s>> \in Ids
    /\ \A i \in Ids : i[1] \in Runs /\ i[2] \in Symbols /\ i = <<i[1], i[2]>>
BY DEF Ids

LEMMA DailyStarts == ASSUME Init PROVE DailyInv
<1>1. TypeOK
  BY DailyAssumption DEF Init, QueueInit, TypeOK
<1>2. \A n \in Runs : runs[n].state = "none"
  BY DEF Init, NotStarted
<1>3. QED
  BY <1>1, <1>2, TaskIds
  DEF Init, QueueInit, DailyInv, UnusedIsUntouched, UnstartedIsUnused, RunsBeganBefore,
      WaitsAreBounded, FetchedSince, SuccessIsStored, Waiting, Green

(***************************************************************************)
(* Time passes, a symbol is listed or is not any more.                     *)
(***************************************************************************)
LEMMA TickKeepsInv == ASSUME DailyInv, Tick PROVE DailyInv'
<1> USE DEF DailyInv
<1>1. now \in Nat /\ now' = now + 1 /\ now' \in 0..MaxTime
  BY DailyAssumption DEF Tick, TypeOK
<1>2. TypeOK'
  BY <1>1 DEF Tick, TypeOK
<1>3. WaitsAreBounded'
  <2> SUFFICES ASSUME NEW n \in Runs, Waiting(n) PROVE now' <= runs[n].began + Patience
    BY DEF Tick, WaitsAreBounded, Waiting
  <2>1. runs[n].began \in Nat
    BY RunTypes DEF Waiting
  <2>2. now <= runs[n].began + Patience /\ now # runs[n].began + Patience
    BY DEF Tick, WaitsAreBounded, Expired
  <2>3. QED
    BY <1>1, <2>1, <2>2, DailyAssumption
<1>4. RunsBeganBefore'
  <2> SUFFICES ASSUME NEW n \in Runs, runs[n].state # "none"
               PROVE  runs[n].began <= now'
    BY DEF Tick, RunsBeganBefore, Waiting
  <2>1. runs[n].began \in Nat
    BY RunTypes
  <2>2. QED
    BY <1>1, <2>1 DEF RunsBeganBefore
<1>5. FetchedSince'
  <2> SUFFICES ASSUME NEW n \in Runs, NEW s \in Symbols, newest[<<n, s>>] # Nothing
               PROVE  /\ newest[<<n, s>>] <= now'
                      /\ runs[n].state # "none" /\ runs[n].began <= newest[<<n, s>>]
    BY DEF Tick, FetchedSince
  <2>1. newest[<<n, s>>] \in Nat
    BY TaskIds, DailyAssumption DEF TypeOK
  <2>2. QED
    BY <1>1, <2>1 DEF FetchedSince
<1>6. UnusedIsUntouched' /\ UnstartedIsUnused'
  BY DEF Tick, UnusedIsUntouched, UnstartedIsUnused
<1>7. SuccessIsStored'
  BY DEF Tick, SuccessIsStored, Waiting, Green, StoredFor, Assured
<1>8. QED
  BY <1>2, <1>3, <1>4, <1>5, <1>6, <1>7

(* A waiting run counts on no symbol that loses its instrument.            *)
LEMMA CatalogueKeepsInv == ASSUME DailyInv, NEW s \in Symbols, List(s) \/ Unlist(s) PROVE DailyInv'
<1> USE DEF DailyInv
<1>1. RunsStay /\ UNCHANGED <<now, table, life, held, newest, result>>
  BY DoubtedTypes, UnchangedRunsStay DEF List, Unlist
<1>2. TypeOK'
  BY <1>1 DEF TypeOK, RunsStay, List, Unlist
<1>3. RunsBeganBefore'
  <2> SUFFICES ASSUME NEW n \in Runs, Waiting(n) PROVE runs'[n].known \subseteq listed'
    BY <1>1 DEF RunsBeganBefore, RunsStay, Waiting
  <2>1. runs'[n].known \subseteq runs[n].known /\ runs[n].known \subseteq listed
    BY <1>1 DEF RunsBeganBefore, RunsStay
  <2>2. CASE List(s)
    BY <2>1, <2>2 DEF List
  <2>3. CASE Unlist(s)
    BY <2>1, <2>3, DoubtedTypes DEF Unlist
  <2>4. QED
    BY <2>2, <2>3
<1>4. UnusedIsUntouched' /\ UnstartedIsUnused' /\ WaitsAreBounded' /\ FetchedSince'
  BY <1>1 DEF RunsStay, UnusedIsUntouched, UnstartedIsUnused, WaitsAreBounded, FetchedSince, Waiting
<1>5. SuccessIsStored'
  BY <1>1 DEF RunsStay, SuccessIsStored, Waiting, Green, StoredFor, Assured
<1>6. QED
  BY <1>2, <1>3, <1>4, <1>5

(***************************************************************************)
(* A materialisation begins: its tasks are new, whether all of them get    *)
(* out or not.                                                             *)
(***************************************************************************)
LEMMA MaterialiseKeepsInv ==
    ASSUME DailyInv, NEW n \in Runs, NEW day \in 0..MaxTime, Materialise(n, day)
    PROVE  DailyInv'
<1> USE DEF DailyInv
<1>1. day \in Days
  <2> DEFINE closing == (day + 1) * DayLength
  <2>1. closing \in Nat /\ closing <= now /\ now \in Nat /\ now <= MaxTime
    BY DailyAssumption DEF Materialise, TypeOK
  <2> HIDE DEF closing
  <2>2. closing <= MaxTime
    BY <2>1, DailyAssumption
  <2>3. QED
    BY <2>2 DEF Days, closing
<1>2. PICK published \in SUBSET ({n} \X Symbols) :
          /\ Submit(published)
          /\ \/ runs' = [runs EXCEPT ![n] = Started(day)]
             \/ runs' = [runs EXCEPT ![n] = [Started(day) EXCEPT !.state = "red"]]
  BY DEF Materialise
<1>3. /\ UNCHANGED <<now, listed, table, newest, result>>
      /\ runs[n].state = "none" /\ now \in Nat
  BY DailyAssumption DEF Materialise, TypeOK
<1>4. published \subseteq Ids /\ \A s \in Symbols : life[<<n, s>>] = "unused"
  BY <1>3 DEF Ids, UnstartedIsUnused
<1>5. /\ life' = [i \in Ids |-> IF i \in published THEN "pending" ELSE life[i]]
      /\ held' = held \cup published
  BY <1>2 DEF Submit
<1>6. /\ runs'[n] \in RunRecord /\ runs'[n].state \in {"waiting", "red"}
      /\ runs'[n].began = now /\ runs'[n].known = listed
      /\ \A q \in Runs \ {n} : runs'[q] = runs[q]
      /\ runs' \in [Runs -> {NotStarted} \cup RunRecord]
  BY <1>1, <1>2, StartedTypes DEF TypeOK
<1>7. TypeOK'
  BY <1>3, <1>4, <1>5, <1>6 DEF TypeOK
<1>8. UnusedIsUntouched'
  BY <1>3, <1>5 DEF UnusedIsUntouched
<1>9. \A s \in Symbols : result[<<n, s>>] = "none" /\ newest[<<n, s>>] = Nothing
  BY <1>4, TaskIds DEF UnusedIsUntouched, TypeOK
<1>10. UnstartedIsUnused'
  <2> SUFFICES ASSUME NEW q \in Runs, NEW s \in Symbols, runs'[q].state = "none"
               PROVE  life'[<<q, s>>] = "unused"
    BY DEF UnstartedIsUnused
  <2>1. q # n
    BY <1>6
  <2>2. <<q, s>> \notin published /\ life[<<q, s>>] = "unused"
    BY <1>6, <2>1 DEF UnstartedIsUnused
  <2>3. QED
    BY <1>5, <2>2, TaskIds
<1>11. RunsBeganBefore' /\ WaitsAreBounded'
  BY <1>3, <1>6, DailyAssumption DEF RunsBeganBefore, WaitsAreBounded, Waiting
<1>12. FetchedSince'
  BY <1>3, <1>6, <1>9 DEF FetchedSince
<1>13. SuccessIsStored'
  BY <1>3, <1>6, <1>9 DEF SuccessIsStored, Waiting, Green, StoredFor, Assured
<1>14. QED
  BY <1>7, <1>8, <1>10, <1>11, <1>12, <1>13

(***************************************************************************)
(* A run stops waiting.                                                    *)
(***************************************************************************)
LEMMA EndKeepsInv ==
    ASSUME DailyInv, NEW n \in Runs, Waiting(n), NEW state \in {"green", "red"},
           runs' = [runs EXCEPT ![n].state = state],
           UNCHANGED <<now, listed, table, life, held, newest, result>>,
           state = "green" => \A s \in Symbols : result[<<n, s>>] = "ok"
    PROVE  DailyInv'
<1> USE DEF DailyInv
<1>1. runs[n] \in RunRecord
  BY RunTypes DEF Waiting
<1> DEFINE ended == [runs[n] EXCEPT !.state = state]
<1>2. /\ runs' = [runs EXCEPT ![n] = ended]
      /\ ended \in RunRecord /\ ended.state = state
      /\ ended.began = runs[n].began /\ ended.known = runs[n].known
  BY <1>1, EndedTypes
<1> HIDE DEF ended
<1>3. /\ runs'[n] \in RunRecord /\ runs'[n].state = state
      /\ runs'[n].began = runs[n].began /\ runs'[n].known = runs[n].known
      /\ \A q \in Runs \ {n} : runs'[q] = runs[q]
      /\ runs' \in [Runs -> {NotStarted} \cup RunRecord]
  BY <1>2 DEF TypeOK
<1>4. TypeOK'
  BY <1>3 DEF TypeOK
<1>5. UnusedIsUntouched' /\ UnstartedIsUnused'
  BY <1>3 DEF UnusedIsUntouched, UnstartedIsUnused
<1>6. RunsBeganBefore' /\ WaitsAreBounded' /\ FetchedSince'
  BY <1>3 DEF RunsBeganBefore, WaitsAreBounded, FetchedSince, Waiting
<1>7. \A s \in Symbols : state = "green" => StoredFor(n, s)
  BY DEF SuccessIsStored
<1>8. \A q \in Runs, s \in Symbols : StoredFor(q, s)' <=> StoredFor(q, s)
  BY <1>3 DEF StoredFor, Assured
<1>9. SuccessIsStored'
  BY <1>3, <1>7, <1>8 DEF SuccessIsStored, Waiting, Green
<1>10. QED
  BY <1>4, <1>5, <1>6, <1>9

(***************************************************************************)
(* A task.  What it stores counts for its run only if the run still waits, *)
(* and a run that waits lets no more time pass than its timeout.           *)
(***************************************************************************)
LEMMA WindowReaches ==
    ASSUME DailyInv, NEW n \in Runs, NEW s \in Symbols, newest[<<n, s>>] # Nothing,
           Waiting(n)
    PROVE  Assured(n) \subseteq Window(newest[<<n, s>>])
<1> DEFINE last == newest[<<n, s>>]
           began == runs[n].began
<1>1. last \in Nat /\ began \in Nat /\ now \in Nat
  BY TaskIds, RunTypes, DailyAssumption DEF DailyInv, TypeOK, Waiting
<1>2. began <= last /\ last <= now /\ now <= began + Patience
  BY DEF DailyInv, FetchedSince, WaitsAreBounded
<1> HIDE DEF last
<1>3. ASSUME NEW t \in Assured(n) PROVE t \in 0..last /\ t > last - Reach
  BY <1>1, <1>2, <1>3, DailyAssumption DEF Assured
<1>4. QED
  BY <1>3 DEF Window, last

LEMMA WindowIsOfTheTime ==
    ASSUME TypeOK, NEW i \in Ids, newest[i] # Nothing PROVE Window(newest[i]) \subseteq 0..MaxTime
BY DailyAssumption DEF TypeOK, Window

(***************************************************************************)
(* What the steps of a task have in common: they touch the task itself,    *)
(* and the candles of its symbol only to add some.                         *)
(***************************************************************************)
LEMMA TaskStepKeepsInv ==
    ASSUME DailyInv, NEW i \in Ids, UNCHANGED <<now, listed>>, RunsStay,
           life[i] # "unused",
           life' = life \/ life' = [life EXCEPT ![i] = "ended"],
           held' \in {held, held \cup {i}, held \ {i}},
           NEW last \in {newest[i], Nothing, now}, newest' = [newest EXCEPT ![i] = last],
           last # Nothing => i \in held',
           last = now => runs[i[1]].state # "none",
           NEW told \in {"none", "ok", "failed"}, result' = [result EXCEPT ![i] = told],
           table' \in [Symbols -> SUBSET (0..MaxTime)],
           \A s \in Symbols : table[s] \subseteq table'[s],
           Waiting(i[1]) /\ told = "ok" /\ i[2] \in runs'[i[1]].known
               => Assured(i[1]) \subseteq table'[i[2]]
    PROVE  DailyInv'
<1> USE DEF DailyInv
<1>1. /\ i[1] \in Runs /\ i[2] \in Symbols /\ i = <<i[1], i[2]>>
      /\ \A n \in Runs, s \in Symbols : <<n, s>> \in Ids
  BY TaskIds
<1>2. last \in {Nothing} \cup 0..MaxTime
  BY DEF TypeOK
<1>3. TypeOK'
  <2>1. life' \in [Ids -> {"unused", "pending", "ended"}] /\ held' \subseteq Ids
    BY DEF TypeOK
  <2>2. /\ newest' \in [Ids -> {Nothing} \cup 0..MaxTime]
        /\ result' \in [Ids -> {"none", "ok", "failed"}]
    BY <1>2 DEF TypeOK
  <2>3. \A j \in Ids : newest'[j] # Nothing => j \in held'
    BY DEF TypeOK
  <2>4. QED
    BY <2>1, <2>2, <2>3 DEF TypeOK, RunsStay
<1>4. \A j \in Ids : /\ life'[j] = "unused" => life[j] = "unused"
                     /\ life[j] = "unused" => j # i /\ life'[j] = "unused"
  BY DEF TypeOK
<1>5. UnusedIsUntouched'
  BY <1>4 DEF UnusedIsUntouched, TypeOK
<1>6. UnstartedIsUnused'
  BY <1>1, <1>4 DEF UnstartedIsUnused, RunsStay
<1>7. RunsBeganBefore' /\ WaitsAreBounded'
  BY DEF RunsBeganBefore, WaitsAreBounded, Waiting, RunsStay
<1>8. FetchedSince'
  <2> SUFFICES ASSUME NEW n \in Runs, NEW s \in Symbols, newest'[<<n, s>>] # Nothing
               PROVE  /\ newest'[<<n, s>>] <= now
                      /\ runs[n].state # "none" /\ runs[n].began <= newest'[<<n, s>>]
    BY DEF FetchedSince, RunsStay
  <2>1. CASE newest'[<<n, s>>] = newest[<<n, s>>]
    BY <2>1 DEF FetchedSince
  <2>2. CASE newest'[<<n, s>>] # newest[<<n, s>>]
    <3>1. <<n, s>> = i /\ last = now /\ newest'[<<n, s>>] = now
      BY <1>1, <2>2 DEF TypeOK
    <3>2. i[1] = n /\ now <= now
      BY <3>1, DailyAssumption DEF TypeOK
    <3>3. QED
      BY <3>1, <3>2 DEF RunsBeganBefore
  <2>3. QED
    BY <2>1, <2>2
<1>9. SuccessIsStored'
  <2>1. ASSUME NEW n \in Runs, NEW s \in Symbols, StoredFor(n, s) PROVE StoredFor(n, s)'
    BY <2>1 DEF StoredFor, Assured, RunsStay
  <2>2. ASSUME NEW n \in Runs, NEW s \in Symbols, Waiting(n), result'[<<n, s>>] = "ok"
        PROVE  StoredFor(n, s)'
    <3>1. CASE <<n, s>> = i
      <4>1. i[1] = n /\ i[2] = s /\ told = "ok"
        BY <2>2, <3>1 DEF TypeOK
      <4>2. QED
        BY <2>2, <4>1 DEF StoredFor, Assured, RunsStay
    <3>2. CASE <<n, s>> # i
      <4>1. result[<<n, s>>] = "ok"
        BY <1>1, <2>2, <3>2 DEF TypeOK
      <4>2. QED
        BY <2>1, <2>2, <4>1 DEF SuccessIsStored
    <3>3. QED
      BY <3>1, <3>2
  <2>3. QED
    BY <2>1, <2>2 DEF SuccessIsStored, Waiting, Green, RunsStay
<1>10. QED
  BY <1>3, <1>5, <1>6, <1>7, <1>8, <1>9

LEMMA TaskKeepsInv == ASSUME DailyInv, NEW i \in Ids, TaskStep(i) PROVE DailyInv'
<1> USE DEF DailyInv
<1>1. /\ i[1] \in Runs /\ i[2] \in Symbols /\ i = <<i[1], i[2]>>
      /\ life \in [Ids -> {"unused", "pending", "ended"}]
      /\ newest \in [Ids -> {Nothing} \cup 0..MaxTime]
      /\ result \in [Ids -> {"none", "ok", "failed"}]
      /\ table \in [Symbols -> SUBSET (0..MaxTime)]
  BY TaskIds DEF TypeOK
<1>2. life[i] # "unused"
  <2>1. CASE i \in held
    BY <2>1 DEF UnusedIsUntouched
  <2>2. CASE i \notin held
    <3>1. newest[i] = Nothing
      BY <2>2 DEF TypeOK
    <3>2. life[i] = "ended"
      BY <2>2, <3>1 DEF TaskStep, Fetch, FetchNothing, Store, Fail, StartOver, Copy, EndOf, End, Redeliver, Discard
    <3>3. QED
      BY <3>2
  <2>3. QED
    BY <2>1, <2>2
<1>3. runs[i[1]].state # "none"
  BY <1>1, <1>2 DEF UnstartedIsUnused
<1>4. /\ result = [result EXCEPT ![i] = result[i]] /\ result[i] \in {"none", "ok", "failed"}
      /\ newest = [newest EXCEPT ![i] = newest[i]] /\ newest[i] # Nothing => i \in held
  BY <1>1 DEF TypeOK
<1>5. Waiting(i[1]) /\ result[i] = "ok" /\ i[2] \in runs[i[1]].known
         => Assured(i[1]) \subseteq table[i[2]]
  BY <1>1 DEF SuccessIsStored, StoredFor
<1>6. CASE Fetch(i)
  BY <1>1, <1>2, <1>3, <1>4, <1>5, <1>6, UnchangedRunsStay, TaskStepKeepsInv DEF Fetch
<1>7. CASE Store(i)
  <2>1. /\ UNCHANGED <<now, listed, runs>> /\ newest[i] # Nothing
        /\ life' = [life EXCEPT ![i] = "ended"] /\ held' \in {held, held \ {i}}
        /\ newest' = [newest EXCEPT ![i] = Nothing]
        /\ result' = [result EXCEPT ![i] = "ok"]
    BY <1>7 DEF Store, EndOf, End, Report
  <2>2. Window(newest[i]) \subseteq 0..MaxTime
    BY <2>1, WindowIsOfTheTime
  <2>3. table' \in [Symbols -> SUBSET (0..MaxTime)] /\ \A s \in Symbols : table[s] \subseteq table'[s]
    BY <1>1, <1>7, <2>2 DEF Store
  <2>4. ASSUME Waiting(i[1]), i[2] \in runs[i[1]].known
        PROVE  Assured(i[1]) \subseteq table'[i[2]]
    <3>1. Assured(i[1]) \subseteq Window(newest[i])
      BY <1>1, <2>1, <2>4, WindowReaches
    <3>2. i[2] \in listed
      BY <1>1, <1>3, <2>4 DEF RunsBeganBefore
    <3>3. Window(newest[i]) \subseteq table'[i[2]]
      BY <1>1, <1>7, <3>2 DEF Store
    <3>4. QED
      BY <3>1, <3>3
  <2>5. QED
    BY <1>2, <1>3, <2>1, <2>3, <2>4, UnchangedRunsStay, TaskStepKeepsInv
<1>8. CASE Fail(i)
  <2>1. PICK told \in {"none", "ok", "failed"} :
            told = (IF result[i] = "ok" THEN result[i] ELSE "failed")
    BY <1>1
  <2>2. /\ UNCHANGED <<now, listed, runs, table>>
        /\ life' = [life EXCEPT ![i] = "ended"] /\ held' \in {held, held \ {i}}
        /\ newest' = [newest EXCEPT ![i] = Nothing]
        /\ result' = [result EXCEPT ![i] = told]
    BY <1>1, <1>8, <2>1 DEF Fail, EndOf, End, Report
  <2>3. told = "ok" => result[i] = "ok"
    BY <2>1
  <2>4. QED
    BY <1>1, <1>2, <1>3, <1>5, <2>2, <2>3, UnchangedRunsStay, TaskStepKeepsInv
<1>9. CASE StartOver(i)
  BY <1>1, <1>2, <1>3, <1>4, <1>5, <1>9, UnchangedRunsStay, TaskStepKeepsInv DEF StartOver
<1>10. CASE Copy(i)
  <2>1. /\ UNCHANGED <<now, listed, runs, table, life, newest, result>>
        /\ held' \in {held \cup {i}, held \ {i}}
        /\ newest[i] # Nothing => i \in held'
    BY <1>4, <1>10 DEF Copy, Redeliver, Discard
  <2>2. QED
    BY <1>1, <1>2, <1>3, <1>4, <1>5, <2>1, UnchangedRunsStay, TaskStepKeepsInv
<1>11. CASE FetchNothing(i)
  <2>1. /\ UNCHANGED <<now, listed, table>>
        /\ life' = [life EXCEPT ![i] = "ended"] /\ held' \in {held, held \ {i}}
        /\ newest' = [newest EXCEPT ![i] = Nothing]
        /\ result' = [result EXCEPT ![i] = "ok"]
    BY <1>11 DEF FetchNothing, EndOf, End, Report
  <2>2. RunsStay /\ (Waiting(i[1]) => i[2] \notin runs'[i[1]].known)
    BY <1>1, <1>11, DoubtedTypes DEF FetchNothing
  <2>3. QED
    BY <1>1, <1>2, <1>3, <2>1, <2>2, TaskStepKeepsInv
<1>12. QED
  BY <1>6, <1>7, <1>8, <1>9, <1>10, <1>11 DEF TaskStep

(***************************************************************************)
(* The invariant of the materialisations.                                  *)
(***************************************************************************)
THEOREM DailyInvariant == Spec => []DailyInv
<1>1. DailyInv /\ [Next]_vars => DailyInv'
  <2> SUFFICES ASSUME DailyInv, [Next]_vars PROVE DailyInv'
    OBVIOUS
  <2>1. ASSUME NEW n \in Runs, RunEnds(n) PROVE DailyInv'
    <3>1. CASE Collect(n)
      BY <3>1, EndKeepsInv DEF Collect
    <3>2. CASE GiveUp(n)
      BY <3>2, EndKeepsInv DEF GiveUp
    <3>3. QED
      BY <2>1, <3>1, <3>2 DEF RunEnds
  <2>2. CASE UNCHANGED vars
    BY <2>2
    DEF vars, DailyInv, TypeOK, UnusedIsUntouched, UnstartedIsUnused, RunsBeganBefore,
        WaitsAreBounded, FetchedSince, SuccessIsStored, StoredFor, Assured, Waiting, Green
  <2>3. QED
    BY <2>1, <2>2, TickKeepsInv, CatalogueKeepsInv, MaterialiseKeepsInv, TaskKeepsInv DEF Next
<1>2. QED
  BY <1>1, DailyStarts, PTL DEF Spec

(***************************************************************************)
(* The materialisations keep their types; only a task some worker or the   *)
(* broker holds has candles to store.                                      *)
(***************************************************************************)
THEOREM DailyTypes == Spec => []TypeOK
<1>1. DailyInv => TypeOK
  BY DEF DailyInv
<1>2. QED
  BY <1>1, DailyInvariant, PTL

(***************************************************************************)
(* A green run has stored, of each symbol that was listed all the while    *)
(* and got no empty answer, the last Reach candles less those that opened  *)
(* while it waited, whatever was retried, lost or run twice and whatever   *)
(* other runs did.                                                         *)
(***************************************************************************)
THEOREM GreenRunsAreStored == Spec => []GreenIsStored
<1>1. DailyInv => GreenIsStored
  <2> SUFFICES ASSUME DailyInv, NEW n \in Runs, Green(n), NEW s \in runs[n].known,
                      NEW t \in 0..runs[n].began, t > runs[n].began + Patience - Reach
               PROVE  t \in table[s]
    BY DEF GreenIsStored
  <2>1. s \in Symbols
    BY RunTypes DEF DailyInv, Green
  <2>2. Assured(n) \subseteq table[s]
    BY <2>1 DEF DailyInv, SuccessIsStored, StoredFor
  <2>3. QED
    BY <2>2 DEF Assured
<1>2. QED
  BY <1>1, DailyInvariant, PTL
=============================================================================

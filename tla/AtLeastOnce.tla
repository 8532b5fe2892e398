---------------------------- MODULE AtLeastOnce ----------------------------
(***************************************************************************)
(* What late acknowledgement promises to those who submit tasks, without   *)
(* workers, messages or timeouts: a task that has not ended is held        *)
(* somewhere until it has, and an ended one does not become pending again, *)
(* though a copy of it may turn up and run once more.                      *)
(*                                                                         *)
(* TaskQueue implements this; DailyCandles is built on it.                 *)
(***************************************************************************)
CONSTANT Ids

VARIABLES
    life,   \* of each task: "unused", "pending", "ended"
    held    \* tasks of which some copy has still to run or is at it

queueVars == <<life, held>>

QueueInit ==
    /\ life = [i \in Ids |-> "unused"]
    /\ held = {}

(* One task or, with a group, several at once. *)
Submit(batch) ==
    /\ \A i \in batch : life[i] = "unused"
    /\ life' = [i \in Ids |-> IF i \in batch THEN "pending" ELSE life[i]]
    /\ held' = held \cup batch

(* A copy comes to an end and may leave another one behind. *)
End(i) ==
    /\ i \in held
    /\ life' = [life EXCEPT ![i] = "ended"]
    /\ held' \in {held, held \ {i}}

(* A late acknowledgement, a lost worker: the task is delivered again. *)
Redeliver(i) ==
    /\ life[i] = "ended"
    /\ held' = held \cup {i}
    /\ UNCHANGED life

(* Such a copy need not end again. *)
Discard(i) ==
    /\ life[i] = "ended"
    /\ held' = held \ {i}
    /\ UNCHANGED life

QueueNext ==
    \/ \E batch \in SUBSET Ids : Submit(batch)
    \/ \E i \in Ids : End(i) \/ Redeliver(i) \/ Discard(i)

QueueSpec == QueueInit /\ [][QueueNext]_queueVars
=============================================================================

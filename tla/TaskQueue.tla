----------------------------- MODULE TaskQueue -----------------------------
(***************************************************************************)
(* The life of a pipeline task: Celery on a Redis broker as config/        *)
(* settings/base.py sets it up (late acknowledgement, requeue of the tasks *)
(* of a lost process, time limits, visibility timeout), the retry and      *)
(* dead-letter policy of IdempotentTask (pipelines/tasks/common.py), and   *)
(* the operators of the dead-letter table (scripts/dlq_inspect.py,         *)
(* apps/core/admin.py).                                                    *)
(*                                                                         *)
(* A message is a task id with its retry number: a retry is published as a *)
(* new message of the same id before the old one is acknowledged.  What    *)
(* the broker and the worker do is modelled from the settings that select  *)
(* it.                                                                     *)
(***************************************************************************)
EXTENDS Integers, FiniteSets, Bags

CONSTANTS
    Ids,            \* task ids; a requeued task gets a fresh one
    Slots,          \* messages the workers hold at once
    Swallowing,     \* ids whose body swallows SoftTimeLimitExceeded
    Expiring,       \* ids Beat published with an expiry
    MaxRetries,     \* IdempotentTask.max_retries
    MaxWait,        \* longest retry countdown plus wait for a free process
    SoftLimit, HardLimit,   \* CELERY_TASK_SOFT_TIME_LIMIT, CELERY_TASK_TIME_LIMIT
    MaxAck,         \* longest time from the end of the body to the acknowledgement
    Visibility,     \* visibility_timeout of the broker
    MaxFaults       \* bound on lost workers and processes, messages given back
                    \* under a live worker, and failed dead-letter writes

ASSUME QueueAssumption ==
    /\ MaxRetries \in Nat /\ MaxWait \in Nat /\ MaxAck \in Nat
    /\ SoftLimit \in Nat /\ HardLimit \in Nat /\ Visibility \in Nat /\ MaxFaults \in Nat
    /\ SoftLimit < HardLimit /\ MaxWait + HardLimit < Visibility
    /\ Swallowing \subseteq Ids /\ Expiring \subseteq Ids

VARIABLES
    queued,     \* bag of messages waiting in the broker
    slot,       \* what each place in a worker holds
    orphans,    \* unacknowledged messages of lost workers, with their age
    dlq,        \* the core_dead_letter_task table
    requeuing,  \* rows whose task is sent again but not marked yet
    fate,       \* for the observer: "failed" until an operator has looked at its
                \* row, "killed" at the hard limit, "over" any other end
    crashes, restores, dlqErrors

taskVars == <<dlq, requeuing, fate, dlqErrors>>
lossVars == <<crashes, restores>>
vars == <<queued, slot, orphans, lossVars, taskVars>>

Messages == [id: Ids, retry: 0..MaxRetries]
Msg(i, r) == [id |-> i, retry |-> r]

(* "wait": held until its countdown is over and a process is free;         *)
(* "run": the body; "ack": the body and its handlers have returned.        *)
(* time counts within the phase, age since the delivery; held says that    *)
(* the broker still counts the delivery as unacknowledged.                 *)
Free == [phase |-> "free"]
Delivered(m) == [phase |-> "wait", msg |-> m, time |-> 0, age |-> 0, held |-> TRUE]
Delivery == [phase: {"wait", "run", "ack"}, msg: Messages, time: Nat, age: Nat, held: BOOLEAN]

Busy(s) == slot[s].phase # "free"
Running(s) == slot[s].phase = "run"
IdOf(s) == slot[s].msg.id

FaultLeft == crashes + restores + dlqErrors < MaxFaults

NoRow == [present |-> FALSE]
DlqRow(requeued, resolved) == [present |-> TRUE, requeued |-> requeued, resolved |-> resolved]
DlqRows == [present: {TRUE}, requeued: BOOLEAN, resolved: BOOLEAN]

Init ==
    /\ queued = EmptyBag /\ orphans = {}
    /\ slot = [s \in Slots |-> Free]
    /\ dlq = [i \in Ids |-> NoRow] /\ requeuing = {}
    /\ fate = [i \in Ids |-> "unused"]
    /\ crashes = 0 /\ restores = 0 /\ dlqErrors = 0

-----------------------------------------------------------------------------
(* The broker.                                                             *)

Enqueue(m) == queued' = queued (+) SetToBag({m})

Publish(i) ==
    /\ fate[i] = "unused"
    /\ fate' = [fate EXCEPT ![i] = "pending"]
    /\ Enqueue(Msg(i, 0))

Submit(i) ==
    /\ Publish(i)
    /\ UNCHANGED <<slot, orphans, dlq, requeuing, lossVars, dlqErrors>>

(* Mutant: acknowledged when it is taken (acks_late off). *)
DeliverAcked(s, m) ==
    /\ ~Busy(s) /\ BagIn(m, queued)
    /\ queued' = queued (-) SetToBag({m})
    /\ slot' = [slot EXCEPT ![s] = [Delivered(m) EXCEPT !.held = FALSE]]
    /\ UNCHANGED <<orphans, lossVars, taskVars>>

Deliver(s, m) ==
    /\ ~Busy(s) /\ BagIn(m, queued)
    /\ queued' = queued (-) SetToBag({m})
    /\ slot' = [slot EXCEPT ![s] = Delivered(m)]
    /\ UNCHANGED <<orphans, lossVars, taskVars>>

(* Mutant: a message reappears while its task may still run. *)
RestoreHeldEarly(s) ==
    /\ Busy(s) /\ slot[s].held /\ slot[s].age >= HardLimit /\ FaultLeft
    /\ Enqueue(slot[s].msg)
    /\ slot' = [slot EXCEPT ![s].held = FALSE]
    /\ restores' = restores + 1
    /\ UNCHANGED <<orphans, crashes, taskVars>>

(* The visibility timeout gives a message back to the queue, whether the   *)
(* worker that holds it is at work on it or gone.                          *)
RestoreHeld(s) ==
    /\ Busy(s) /\ slot[s].held /\ slot[s].age >= Visibility /\ FaultLeft
    /\ Enqueue(slot[s].msg)
    /\ slot' = [slot EXCEPT ![s].held = FALSE]
    /\ restores' = restores + 1
    /\ UNCHANGED <<orphans, crashes, taskVars>>

(* Mutant: an orphan must outlive the visibility timeout. *)
RestoreOrphanLate(o) ==
    /\ o \in orphans /\ o.age > Visibility
    /\ Enqueue(o.msg)
    /\ orphans' = orphans \ {o}
    /\ UNCHANGED <<slot, lossVars, taskVars>>

RestoreOrphan(o) ==
    /\ o \in orphans /\ o.age >= Visibility
    /\ Enqueue(o.msg)
    /\ orphans' = orphans \ {o}
    /\ UNCHANGED <<slot, lossVars, taskVars>>

(* Acknowledges the delivery, not the message: a copy the broker has given *)
(* back meanwhile stays.                                                   *)
Ack(s) ==
    /\ slot[s].phase = "ack"
    /\ slot' = [slot EXCEPT ![s] = Free]
    /\ UNCHANGED <<queued, orphans, lossVars, taskVars>>

-----------------------------------------------------------------------------
(* Time.  A countdown, a run and an acknowledgement end in their time.     *)
(* The soft limit ends every body that does not swallow it.                *)

LimitOf(s) ==
    CASE slot[s].phase = "wait" -> MaxWait
      [] slot[s].phase = "run"  -> IF IdOf(s) \in Swallowing THEN HardLimit ELSE SoftLimit
      [] OTHER -> MaxAck

Older(age) == IF age < Visibility THEN age + 1 ELSE age

Tick ==
    /\ orphans # {} \/ \E s \in Slots : Busy(s)
    /\ \A s \in Slots : Busy(s) => slot[s].time < LimitOf(s)
    /\ slot' = [s \in Slots |->
                   IF Busy(s)
                   THEN [slot[s] EXCEPT !.time = @ + 1, !.age = Older(@)]
                   ELSE slot[s]]
    /\ orphans' = {[o EXCEPT !.age = Older(@)] : o \in orphans}
    /\ UNCHANGED <<queued, lossVars, taskVars>>

-----------------------------------------------------------------------------
(* The task.                                                               *)

Settle(i, f) == fate' = [fate EXCEPT ![i] = f]

Enter(s, phase) == slot' = [slot EXCEPT ![s] = [@ EXCEPT !.phase = phase, !.time = 0]]

Start(s) ==
    /\ slot[s].phase = "wait"
    /\ Enter(s, "run")
    /\ UNCHANGED <<queued, orphans, lossVars, taskVars>>

(* The worker drops and acknowledges a message whose expiry has passed,    *)
(* first attempt or retry, without running it; no handler is called.       *)
Expire(s) ==
    /\ slot[s].phase = "wait" /\ IdOf(s) \in Expiring
    /\ IF fate[IdOf(s)] = "pending" THEN Settle(IdOf(s), "over") ELSE UNCHANGED fate
    /\ Enter(s, "ack")
    /\ UNCHANGED <<queued, orphans, lossVars, dlq, requeuing, dlqErrors>>

Succeed(s) ==
    /\ Running(s)
    /\ Settle(IdOf(s), "over")
    /\ Enter(s, "ack")
    /\ UNCHANGED <<queued, orphans, lossVars, dlq, requeuing, dlqErrors>>

(* Mutant: the retry budget is never used up. *)
RetryAlways(s) ==
    /\ Running(s)
    /\ Enqueue(Msg(IdOf(s), slot[s].msg.retry + 1))
    /\ Enter(s, "ack")
    /\ UNCHANGED <<orphans, lossVars, taskVars>>

(* HTTPError or ConnectorError with retries left: autoretry_for publishes  *)
(* the next attempt.                                                       *)
Retry(s) ==
    /\ Running(s) /\ slot[s].msg.retry < MaxRetries
    /\ Enqueue(Msg(IdOf(s), slot[s].msg.retry + 1))
    /\ Enter(s, "ack")
    /\ UNCHANGED <<orphans, lossVars, taskVars>>

(***************************************************************************)
(* on_failure: update_or_create by task id.  requeued_at and resolved_at   *)
(* are not among the defaults, so an existing row keeps them.              *)
(***************************************************************************)
DeadLetter(i) ==
    dlq' = [dlq EXCEPT ![i] = IF @.present THEN @ ELSE DlqRow(FALSE, FALSE)]

(* An exception outside autoretry_for, the soft limit, or no retries left. *)
Fail(s) ==
    /\ Running(s)
    /\ DeadLetter(IdOf(s))
    /\ Settle(IdOf(s), "failed")
    /\ Enter(s, "ack")
    /\ UNCHANGED <<queued, orphans, lossVars, requeuing, dlqErrors>>

(* "DLQ write must never mask the real failure": logged and swallowed.     *)
FailUnrecorded(s) ==
    /\ Running(s) /\ FaultLeft
    /\ dlqErrors' = dlqErrors + 1
    /\ Settle(IdOf(s), "failed")
    /\ Enter(s, "ack")
    /\ UNCHANGED <<queued, orphans, lossVars, dlq, requeuing>>

(* At the hard limit the process is killed and the message acknowledged    *)
(* (task_acks_on_failure_or_timeout); on_failure, which runs in that       *)
(* process, is not called.                                                 *)
HardKill(s) ==
    /\ Running(s) /\ slot[s].time = HardLimit
    /\ Settle(IdOf(s), "killed")
    /\ Enter(s, "ack")
    /\ UNCHANGED <<queued, orphans, lossVars, dlq, requeuing, dlqErrors>>

-----------------------------------------------------------------------------
(* Losses.                                                                 *)

Lose(s) ==
    /\ Busy(s) /\ FaultLeft
    /\ crashes' = crashes + 1
    /\ slot' = [slot EXCEPT ![s] = Free]
    /\ UNCHANGED <<restores, taskVars>>

(* The whole worker is lost: the delivery stays unacknowledged until the   *)
(* visibility timeout.  The crash number tells equal messages apart.       *)
Crash(s) ==
    /\ Lose(s)
    /\ orphans' = IF slot[s].held
                  THEN orphans \cup {[msg |-> slot[s].msg, age |-> slot[s].age, nr |-> crashes]}
                  ELSE orphans
    /\ UNCHANGED queued

(* Mutant: without reject_on_worker_lost the message is acknowledged. *)
ProcessLostAcked(s) ==
    /\ Running(s) /\ Lose(s)
    /\ UNCHANGED <<queued, orphans>>

(* Only the pool process is lost in the middle of a body:                  *)
(* reject_on_worker_lost gives the message back at once.                   *)
ProcessLost(s) ==
    /\ Running(s) /\ Lose(s)
    /\ IF slot[s].held THEN Enqueue(slot[s].msg) ELSE UNCHANGED queued
    /\ UNCHANGED orphans

-----------------------------------------------------------------------------
(* The operators: send again under a new id, then mark the row.            *)

SendRequeue(i, j) ==
    /\ dlq[i].present /\ i \notin requeuing
    /\ Publish(j)
    /\ requeuing' = requeuing \cup {i}
    /\ UNCHANGED <<slot, orphans, dlq, lossVars, dlqErrors>>

(* A row purged meanwhile is not written back. *)
MarkRequeued(i) ==
    /\ i \in requeuing
    /\ requeuing' = requeuing \ {i}
    /\ dlq' = IF dlq[i].present THEN [dlq EXCEPT ![i].requeued = TRUE] ELSE dlq
    /\ UNCHANGED <<queued, slot, orphans, lossVars, fate, dlqErrors>>

(* Marked resolved, by the action or the form's one open field, or deleted *)
(* in the admin.  (That the form can also clear resolved_at again, which   *)
(* only brings a row back to the listing, is left out.)  The observer      *)
(* counts a failure whose row somebody looked at as reviewed.              *)
Review(i, row) ==
    /\ dlq[i].present
    /\ dlq' = [dlq EXCEPT ![i] = row]
    /\ IF fate[i] = "failed" THEN Settle(i, "over") ELSE UNCHANGED fate
    /\ UNCHANGED <<queued, slot, orphans, lossVars, requeuing, dlqErrors>>

MarkResolved(i) == Review(i, [dlq[i] EXCEPT !.resolved = TRUE])

Delete(i) == Review(i, NoRow)

Resolved(i) == dlq[i].present /\ dlq[i].resolved

(* Mutant: purges what was requeued, resolved or not. *)
PurgeRequeued ==
    /\ \E i \in Ids : dlq[i].present /\ dlq[i].requeued
    /\ dlq' = [i \in Ids |-> IF dlq[i].present /\ dlq[i].requeued THEN NoRow ELSE dlq[i]]
    /\ UNCHANGED <<queued, slot, orphans, lossVars, requeuing, fate, dlqErrors>>

(* Rows resolved longer ago than the cutoff; which ones that are is left   *)
(* open.                                                                   *)
Purge ==
    \E old \in SUBSET {i \in Ids : Resolved(i)} \ {{}} :
        /\ dlq' = [i \in Ids |-> IF i \in old THEN NoRow ELSE dlq[i]]
        /\ UNCHANGED <<queued, slot, orphans, lossVars, requeuing, fate, dlqErrors>>

-----------------------------------------------------------------------------
Outcome(s) == Succeed(s) \/ Retry(s) \/ Fail(s) \/ FailUnrecorded(s) \/ HardKill(s)

(* What the workers do by themselves. *)
WorkerStep(s) ==
    \/ \E m \in BagToSet(queued) : Deliver(s, m)
    \/ Start(s)
    \/ Expire(s)
    \/ Outcome(s)
    \/ Ack(s)

RestoreStep == (\E s \in Slots : RestoreHeld(s)) \/ \E o \in orphans : RestoreOrphan(o)

OperatorStep ==
    \/ \E i, j \in Ids : SendRequeue(i, j)
    \/ \E i \in Ids : MarkRequeued(i) \/ MarkResolved(i) \/ Delete(i)
    \/ Purge

Next ==
    \/ \E i \in Ids : Submit(i)
    \/ \E s \in Slots : WorkerStep(s) \/ Crash(s) \/ ProcessLost(s)
    \/ RestoreStep
    \/ Tick
    \/ OperatorStep

Spec == Init /\ [][Next]_vars

(***************************************************************************)
(* Some worker is up, so every place gets on with its work; the broker     *)
(* restores what is due; time passes.  Nothing is assumed of operators.    *)
(***************************************************************************)
FairSpec ==
    /\ Spec /\ WF_vars(Tick) /\ WF_vars(RestoreStep)
    /\ \A s \in Slots : WF_vars(WorkerStep(s))

-----------------------------------------------------------------------------
(***************************************************************************)
(* Type correctness; no message carries more retries than the policy has.  *)
(***************************************************************************)
TypeOK ==
    /\ IsABag(queued) /\ BagToSet(queued) \subseteq Messages
    /\ slot \in [Slots -> {Free} \cup Delivery]
    /\ orphans \subseteq [msg: Messages, age: Nat, nr: 0..MaxFaults]
    /\ dlq \in [Ids -> {NoRow} \cup DlqRows]
    /\ requeuing \subseteq Ids
    /\ fate \in [Ids -> {"unused", "pending", "failed", "killed", "over"}]
    /\ crashes \in Nat /\ restores \in Nat /\ dlqErrors \in Nat
    /\ crashes + restores + dlqErrors <= MaxFaults

(***************************************************************************)
(* A task that has not come to an end is still somewhere: waiting in the   *)
(* broker, in a worker whose delivery is not acknowledged and that has yet *)
(* to finish it, or unacknowledged by a worker that died.  So the loss of  *)
(* any worker leaves it somewhere: what acknowledging late buys.           *)
(***************************************************************************)
Unfinished(s) == slot[s].phase \in {"wait", "run"}

StillHeld(i) ==
    \/ \E m \in BagToSet(queued) : m.id = i
    \/ \E s \in Slots : Unfinished(s) /\ slot[s].held /\ IdOf(s) = i
    \/ \E o \in orphans : o.msg.id = i

NothingVanishes == \A i \in Ids : fate[i] = "pending" => StillHeld(i)

(***************************************************************************)
(* Through retries, expiry, time limits, losses and redeliveries the queue *)
(* is the at-least-once queue its callers count on: nothing runs that was  *)
(* not submitted, nothing pending is dropped, and no end is taken back.    *)
(***************************************************************************)
HasCopy(i) == StillHeld(i) \/ \E s \in Slots : Unfinished(s) /\ IdOf(s) = i

LifeOf(i) == IF fate[i] \in {"unused", "pending"} THEN fate[i] ELSE "ended"

Promise == INSTANCE AtLeastOnce WITH
    life <- [i \in Ids |-> LifeOf(i)],
    held <- {i \in Ids : HasCopy(i)}

KeepsPromise == Promise!QueueSpec

(***************************************************************************)
(* The visibility timeout gives no message back while its task runs: the   *)
(* longest countdown and the hard limit end before it, so only an          *)
(* acknowledgement that is late can make a second copy under a live        *)
(* worker.                                                                 *)
(***************************************************************************)
NoOverlap == \A s \in Slots : Running(s) => slot[s].held

(***************************************************************************)
(* A failure nobody has reviewed has an unresolved row, whatever the       *)
(* operators requeue, resolve, delete and purge, as long as no worker is   *)
(* lost, no message given back and no dead-letter write failed.            *)
(* A task killed at the hard limit leaves no row: only one that swallows   *)
(* the soft limit gets that far.  (dlq_inspect prints the newest --limit   *)
(* of these rows, the admin all of them.)                                  *)
(***************************************************************************)
AwaitsReview(i) == dlq[i].present /\ ~dlq[i].resolved

FailuresAwaitReview ==
    \A i \in Ids :
        /\ fate[i] = "failed" /\ crashes = 0 /\ restores = 0 /\ dlqErrors = 0 => AwaitsReview(i)
        /\ fate[i] = "killed" => i \in Swallowing

(***************************************************************************)
(* Every task that is submitted comes to an end, through retries, losses   *)
(* and redeliveries.                                                       *)
(***************************************************************************)
EveryTaskEnds == \A i \in Ids : fate[i] = "pending" ~> fate[i] # "pending"
=============================================================================

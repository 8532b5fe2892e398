---------------------------- MODULE CatalogSync ----------------------------
(***************************************************************************)
(* sync_coingecko_catalog (pipelines/tasks/ingest.py) running in several   *)
(* Celery workers at once: the beat run, a redelivery, a manual run.  Each *)
(* fetches the listing, stamps it, and upserts its coins one transaction   *)
(* at a time through upsert_instrument_scd2.                               *)
(*                                                                         *)
(* Writes of a transaction are invisible until it commits (READ COMMITTED) *)
(* so the write and the commit are one step; the lock, the read and the    *)
(* write are separate steps that other workers interleave with.            *)
(***************************************************************************)
EXTENDS InstrumentDimension

CONSTANTS
    Syncs,      \* concurrent runs of the task
    Unlisted,   \* upstream does not list the coin
    NoSync,     \* nobody holds the lock
    NoKey,      \* no transaction in progress
    MaxChanges, \* bound on changes of the upstream listing
    MaxCrashes  \* bound on failures of a run

ASSUME SyncAssumption ==
    /\ NoSync \notin Syncs
    /\ MaxChanges \in Nat /\ MaxCrashes \in Nat

Coin == [attrs: Attrs, meta: Metas]

ASSUME UnlistedAssumption == Unlisted \notin Coin /\ NoKey \notin Keys

NoListing == [k \in Keys |-> Unlisted]

VARIABLES
    upstream,   \* the provider's listing: key -> coin or Unlisted
    clock,      \* datetime.now()
    changes,    \* upstream changes so far
    crashes,    \* failed runs so far
    lock,       \* holder of the Source row lock
    pc,         \* where each run is
    resp,       \* the listing each run fetched
    now,        \* the run's single observed_at
    todo,       \* coins the run's loop has still to upsert
    key,        \* the coin of the transaction in progress
    cur         \* the current row that transaction read, 0 for None

runVars == <<pc, resp, now, todo, key, cur>>
vars == <<rows, upstream, clock, changes, crashes, lock, runVars>>

Init ==
    /\ rows = <<>>
    /\ upstream \in [Keys -> Coin \cup {Unlisted}]
    /\ clock = 0 /\ changes = 0 /\ crashes = 0
    /\ lock = NoSync
    /\ pc = [s \in Syncs |-> "idle"]
    /\ resp = [s \in Syncs |-> NoListing]
    /\ now = [s \in Syncs |-> 0]
    /\ todo = [s \in Syncs |-> {}]
    /\ key = [s \in Syncs |-> NoKey]
    /\ cur = [s \in Syncs |-> 0]

-----------------------------------------------------------------------------
(* The environment.                                                        *)

Tick ==
    /\ clock < MaxTime
    /\ clock' = clock + 1
    /\ UNCHANGED <<rows, upstream, changes, crashes, lock, runVars>>

UpstreamChanges ==
    /\ changes < MaxChanges
    /\ \E k \in Keys, c \in (Coin \cup {Unlisted}) :
          upstream[k] # c /\ upstream' = [upstream EXCEPT ![k] = c]
    /\ changes' = changes + 1
    /\ UNCHANGED <<rows, clock, crashes, lock, runVars>>

-----------------------------------------------------------------------------
(* One run of the task.                                                    *)

FetchListing(s) ==
    /\ pc[s] = "idle"
    /\ pc' = [pc EXCEPT ![s] = "fetched"]
    /\ resp' = [resp EXCEPT ![s] = upstream]
    /\ UNCHANGED <<rows, upstream, clock, changes, crashes, lock, now, todo, key, cur>>

(* Mutant: the loop skips the coins the dimension already knows. *)
StampNewCoinsOnly(s) ==
    /\ pc[s] = "fetched"
    /\ pc' = [pc EXCEPT ![s] = "loop"]
    /\ now' = [now EXCEPT ![s] = clock]
    /\ todo' = [todo EXCEPT ![s] = {k \in Keys : resp[s][k] # Unlisted /\ CurrentIds(k) = {}}]
    /\ UNCHANGED <<rows, upstream, clock, changes, crashes, lock, resp, key, cur>>

(***************************************************************************)
(* observed_at is read after the response arrived: the order of the stamps *)
(* of two runs need not be the order of what they saw.                     *)
(***************************************************************************)
Stamp(s) ==
    /\ pc[s] = "fetched"
    /\ pc' = [pc EXCEPT ![s] = "loop"]
    /\ now' = [now EXCEPT ![s] = clock]
    /\ todo' = [todo EXCEPT ![s] = {k \in Keys : resp[s][k] # Unlisted}]
    /\ UNCHANGED <<rows, upstream, clock, changes, crashes, lock, resp, key, cur>>

(* Mutant: the source row is read without FOR UPDATE. *)
LockSourceWithoutWaiting(s, k) ==
    /\ pc[s] = "loop" /\ k \in todo[s]
    /\ lock' = s
    /\ key' = [key EXCEPT ![s] = k]
    /\ pc' = [pc EXCEPT ![s] = "locked"]
    /\ UNCHANGED <<rows, upstream, clock, changes, crashes, resp, now, todo, cur>>

LockSource(s, k) ==
    /\ pc[s] = "loop" /\ k \in todo[s]
    /\ lock = NoSync
    /\ lock' = s
    /\ key' = [key EXCEPT ![s] = k]
    /\ pc' = [pc EXCEPT ![s] = "locked"]
    /\ UNCHANGED <<rows, upstream, clock, changes, crashes, resp, now, todo, cur>>

ReadCurrent(s) ==
    /\ pc[s] = "locked"
    /\ \/ CurrentIds(key[s]) = {} /\ cur' = [cur EXCEPT ![s] = 0]
       \/ \E c \in CurrentIds(key[s]) : cur' = [cur EXCEPT ![s] = c]
    /\ pc' = [pc EXCEPT ![s] = "read"]
    /\ UNCHANGED <<rows, upstream, clock, changes, crashes, lock, resp, now, todo, key>>

(***************************************************************************)
(* End of the atomic block: the lock goes with the commit and the loop     *)
(* moves on.                                                               *)
(***************************************************************************)
Commit(s) ==
    /\ lock' = NoSync
    /\ pc' = [pc EXCEPT ![s] = "loop"]
    /\ todo' = [todo EXCEPT ![s] = @ \ {key[s]}]
    /\ key' = [key EXCEPT ![s] = NoKey]
    /\ cur' = [cur EXCEPT ![s] = 0]
    /\ UNCHANGED <<upstream, clock, changes, crashes, resp, now>>

Seen(s) == resp[s][key[s]]

Create(s) ==
    /\ pc[s] = "read" /\ cur[s] = 0
    /\ CreateVersion(key[s], Seen(s).attrs, Seen(s).meta, now[s])
    /\ Commit(s)

Refresh(s) ==
    /\ pc[s] = "read" /\ cur[s] # 0
    /\ rows[cur[s]].attrs = Seen(s).attrs
    /\ RefreshMetadata(cur[s], Seen(s).meta)
    /\ Commit(s)

Replace(s) ==
    /\ pc[s] = "read" /\ cur[s] # 0
    /\ rows[cur[s]].attrs # Seen(s).attrs
    /\ ReplaceVersion(cur[s], key[s], Seen(s).attrs, Seen(s).meta, now[s])
    /\ Commit(s)

(***************************************************************************)
(* The task function returns or dies; its locals are gone.                 *)
(***************************************************************************)
EndRun(s) ==
    /\ pc' = [pc EXCEPT ![s] = "idle"]
    /\ resp' = [resp EXCEPT ![s] = NoListing]
    /\ now' = [now EXCEPT ![s] = 0]
    /\ todo' = [todo EXCEPT ![s] = {}]
    /\ key' = [key EXCEPT ![s] = NoKey]
    /\ cur' = [cur EXCEPT ![s] = 0]
    /\ UNCHANGED <<rows, upstream, clock, changes>>

Finish(s) ==
    /\ pc[s] = "loop" /\ todo[s] = {}
    /\ EndRun(s)
    /\ UNCHANGED <<crashes, lock>>

(***************************************************************************)
(* The worker dies or the database raises: the open transaction rolls      *)
(* back, coins already committed stay, and the redelivered or next run     *)
(* starts from the fetch.                                                  *)
(***************************************************************************)
Crash(s) ==
    /\ pc[s] # "idle" /\ crashes < MaxCrashes
    /\ crashes' = crashes + 1
    /\ lock' = IF lock = s THEN NoSync ELSE lock
    /\ EndRun(s)

RunStep(s) ==
    \/ FetchListing(s)
    \/ Stamp(s)
    \/ \E k \in Keys : LockSource(s, k)
    \/ ReadCurrent(s)
    \/ Create(s)
    \/ Refresh(s)
    \/ Replace(s)
    \/ Finish(s)

Next ==
    \/ Tick
    \/ UpstreamChanges
    \/ \E s \in Syncs : RunStep(s) \/ Crash(s)

Spec == Init /\ [][Next]_vars

(***************************************************************************)
(* Fairness: a run that has started keeps taking steps.  No run has to be  *)
(* started (the beat schedule does not list this task), and nothing is     *)
(* assumed of time, upstream or crashes.                                   *)
(***************************************************************************)
FairSpec == Spec /\ \A s \in Syncs : WF_vars(pc[s] # "idle" /\ RunStep(s))

-----------------------------------------------------------------------------
States == {"idle", "fetched", "loop", "locked", "read"}

(***************************************************************************)
(* Type correctness of the table and of the runs' local variables.         *)
(***************************************************************************)
TypeOK ==
    /\ rows \in Seq(Row)
    /\ upstream \in [Keys -> Coin \cup {Unlisted}]
    /\ clock \in Nat /\ changes \in Nat /\ crashes \in Nat
    /\ lock \in Syncs \cup {NoSync}
    /\ pc \in [Syncs -> States]
    /\ resp \in [Syncs -> [Keys -> Coin \cup {Unlisted}]]
    /\ now \in [Syncs -> Nat]
    /\ todo \in [Syncs -> SUBSET Keys]
    /\ key \in [Syncs -> Keys \cup {NoKey}]
    /\ cur \in [Syncs -> Nat]

(***************************************************************************)
(* Between the read and the write of a transaction no other run commits a  *)
(* version of the coin: what select_for_update read is still the current   *)
(* row when the decision taken from it is written.                         *)
(***************************************************************************)
ReadIsFresh ==
    \A s \in Syncs : pc[s] = "read" =>
        IF cur[s] = 0 THEN CurrentIds(key[s]) = {} ELSE cur[s] \in CurrentIds(key[s])

(***************************************************************************)
(* Somebody (an operator, a schedule) keeps running the sync.              *)
(***************************************************************************)
RunsRecur == \E s \in Syncs : []<>(pc[s] = "fetched")

InSync(k) == \E c \in CurrentIds(k) :
                rows[c].attrs = upstream[k].attrs /\ rows[c].meta = upstream[k].meta

(***************************************************************************)
(* As long as the sync keeps being run, once the listing has settled the   *)
(* dimension catches up with it and stays: every listed coin ends with its *)
(* current row showing the listed attributes and metadata, whatever stale  *)
(* responses were in flight and whichever runs died half way.              *)
(***************************************************************************)
Converges ==
    RunsRecur => \A k \in Keys : <>[](upstream[k] = Unlisted \/ InSync(k))
=============================================================================

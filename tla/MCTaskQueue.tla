---------------------------- MODULE MCTaskQueue ----------------------------
(* Small instances of TaskQueue for TLC. *)
EXTENDS TaskQueue
CONSTANTS batch, again, w1, w2
=============================================================================

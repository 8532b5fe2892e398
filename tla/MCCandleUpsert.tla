-------------------------- MODULE MCCandleUpsert --------------------------
(* Small instances of CandleUpsert for TLC. *)
EXTENDS CandleUpsert
CONSTANTS r1, r2
=============================================================================

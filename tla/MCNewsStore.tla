---------------------------- MODULE MCNewsStore ----------------------------
(* Small instances of NewsStore for TLC. *)
EXTENDS NewsStore
CONSTANTS beat, dagster, coin, btc, eth, m, a1, a2
=============================================================================

---------------------------- MODULE MCSpotStore ----------------------------
(* Small instances of SpotStore for TLC. *)
EXTENDS SpotStore
CONSTANTS coins, walk, old, new, m
=============================================================================

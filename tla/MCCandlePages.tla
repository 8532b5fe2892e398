--------------------------- MODULE MCCandlePages ---------------------------
(* Small instances of CandlePages for TLC. *)
EXTENDS CandlePages
CONSTANTS old, new, newest
=============================================================================

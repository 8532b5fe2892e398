--------------------------- MODULE MCEquityBatch ---------------------------
(* Small instances of EquityBatch for TLC. *)
EXTENDS EquityBatch
CONSTANTS run
=============================================================================

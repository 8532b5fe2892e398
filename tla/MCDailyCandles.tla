--------------------------- MODULE MCDailyCandles ---------------------------
(* Small instances of DailyCandles for TLC. *)
EXTENDS DailyCandles
CONSTANTS first, again, btc, eth
=============================================================================

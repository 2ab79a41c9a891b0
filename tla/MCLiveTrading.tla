--------------------------- MODULE MCLiveTrading ----------------------------
(* Model values for checking LiveTrading with TLC. *)
EXTENDS LiveSafety

=============================================================================

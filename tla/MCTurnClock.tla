----------------------------- MODULE MCTurnClock -----------------------------
(***************************************************************************)
(* TurnClock with the shipped timeouts, 120 s and 90 s, in units of 10 s.  *)
(***************************************************************************)
EXTENDS TurnClock
=============================================================================

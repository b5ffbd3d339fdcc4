------------------------------ MODULE MCClock ------------------------------
(* Clock on small instances for TLC. *)
EXTENDS Clock
=============================================================================

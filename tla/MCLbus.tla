------------------------------- MODULE MCLbus -------------------------------
(* Lbus on small instances for TLC. *)
EXTENDS Lbus
=============================================================================

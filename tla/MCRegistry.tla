----------------------------- MODULE MCRegistry -----------------------------
(* Registry on small instances for TLC. *)
EXTENDS Registry, TLC

Addresses == Permutations(Adr)
=============================================================================

----------------------------- MODULE MCNetChange -----------------------------
(* NetChange on small instances for TLC. *)
EXTENDS NetChange, TLC

Sessions == Permutations(Session)
=============================================================================

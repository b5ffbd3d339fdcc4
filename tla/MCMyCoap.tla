------------------------------- MODULE MCMyCoap -------------------------------
(* MyCoap on small instances for TLC. *)
EXTENDS MyCoap

CONSTANTS u1, u2

\* One resource that fits into an answer, and one that takes three.
MCBlocks == [u \in {u1, u2} |-> IF u = u1 THEN 1 ELSE 3]
=============================================================================

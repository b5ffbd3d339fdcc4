------------------------------- MODULE DataLog -------------------------------
(***************************************************************************)
(* What the acquisition of data promises: the values a device has logged   *)
(* reach the table once and in the order of their dates, and stay there.   *)
(* Only the log of a damaged device may be archived with gaps.             *)
(***************************************************************************)
EXTENDS Integers

VARIABLES recorded,  \* <<d, t>>: device d has logged values at date t
          archived,  \* <<d, t>>: all of them are in the table
          damaged    \* devices that lost their clock, or whose values were refused

vars == <<recorded, archived, damaged>>

Init == recorded = {} /\ archived = {} /\ damaged = {}

\* A device logs values r: later ones than all before.
Log(r) == /\ \A q \in recorded : q[1] = r[1] => q[2] < r[2]
          /\ recorded' = recorded \union {r}
          /\ UNCHANGED <<archived, damaged>>

\* The values r reach the table, after all earlier ones.
Archive(r) == /\ r[1] \notin damaged =>
                   \A q \in recorded \ archived : q[1] = r[1] => q[2] >= r[2]
              /\ r \in recorded
              /\ archived' = archived \union {r}
              /\ UNCHANGED <<recorded, damaged>>

Damage == /\ damaged \subseteq damaged'
          /\ UNCHANGED <<recorded, archived>>

Next == \/ \E r \in recorded' \ recorded : Log(r)
        \/ \E r \in archived' \ archived : Archive(r)
        \/ Damage

Spec == Init /\ [][Next]_vars
=============================================================================

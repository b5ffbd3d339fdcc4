----------------------------- MODULE CommandBus -----------------------------
(***************************************************************************)
(* What the lbus promises to the web interface, without lists, cursors or  *)
(* threads: a numbered command that was accepted is carried out at some    *)
(* point or stays pending, across any number of restarts of the gateway;   *)
(* a command that was carried out is never carried out by a later visit,   *)
(* and its number is never given to another command.                       *)
(*                                                                         *)
(* Lbus.tla is the detailed specification of liegw/src/lielas/lbus.c and   *)
(* implements this one.                                                    *)
(***************************************************************************)
EXTENDS Integers

CONSTANT MaxId              \* bound: the highest row number of table lbus

Id == 1..MaxId

RowState == {"absent", "empty", "pending", "handled"}

VARIABLES rows,             \* the durable table, one state per number
          running,          \* TRUE while the gateway process lives
          serving           \* the commands the process still has to visit

vars == <<rows, running, serving>>

TypeOK == /\ rows \in [Id -> RowState]
          /\ running \in BOOLEAN
          /\ serving \in SUBSET Id

Init == /\ rows = [i \in Id |-> "absent"]
        /\ running = TRUE
        /\ serving = {}

-----------------------------------------------------------------------------
\* A number above every number in the table is reserved for a new command.
Reserve(i) == /\ running
              /\ \A j \in Id : j >= i => rows[j] = "absent"
              /\ rows' = [rows EXCEPT ![i] = "empty"]
              /\ UNCHANGED <<running, serving>>

\* The reserved row is filled in: from here on the command may not be lost.
Accept(i) == /\ running
             /\ rows[i] = "empty"
             /\ rows' = [rows EXCEPT ![i] = "pending"]
             /\ serving' = serving \union {i}
             /\ UNCHANGED running

Complete(i) == /\ running
               /\ i \in serving
               /\ rows' = [rows EXCEPT ![i] = "handled"]
               /\ serving' = serving \ {i}
               /\ UNCHANGED running

\* The process ends, perhaps right after one last command.
Stop == /\ running
        /\ running' = FALSE
        /\ serving' = {}
        /\ \/ UNCHANGED rows
           \/ \E i \in serving : rows' = [rows EXCEPT ![i] = "handled"]

\* A new process takes up every pending command and drops reserved rows.
Start == /\ ~running
         /\ running' = TRUE
         /\ rows' = [i \in Id |-> IF rows[i] = "empty" THEN "absent" ELSE rows[i]]
         /\ serving' = {i \in Id : rows[i] = "pending"}

Next == \/ \E i \in Id : Reserve(i) \/ Accept(i) \/ Complete(i)
        \/ Stop
        \/ Start

Spec == Init /\ [][Next]_vars

-----------------------------------------------------------------------------
\* While the gateway runs, the commands it will visit are exactly the
\* pending rows of the table.
NothingLost == running => serving = {i \in Id : rows[i] = "pending"}
=============================================================================

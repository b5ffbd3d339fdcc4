-------------------------------- MODULE Lbus --------------------------------
(***************************************************************************)
(* The command bus of the gateway: liegw/src/lielas/lbus.c and the two     *)
(* CoAP handlers of liegw/src/coap/coapserver.c that use it.               *)
(*                                                                         *)
(* Two threads share one linked list of commands and ONE cursor into it    *)
(* (lbusconPtr).  The main thread calls lbus_handler() once per lap of its *)
(* loop; the CoAP thread serves PUT lbus (new command) and GET lbus (list  *)
(* of the queued commands).  lbus_handler() runs under the mutex from its  *)
(* first to its last line; lbus_getFirstCmd() and lbus_getNextCmd() move   *)
(* the cursor under the mutex but read through it after the unlock, and    *)
(* the CoAP handlers walk the list with no lock in between.                *)
(*                                                                         *)
(* A container of the list is named by the command it holds.  A container  *)
(* that lbus_remove() has freed keeps only what the next step may still    *)
(* read through the cursor: the link to its successor.  Reading freed      *)
(* memory either finds the old link or kills the process.                  *)
(*                                                                         *)
(* Left out: failing malloc and failing SQL statements, the text of a      *)
(* command beyond the classes below, and the effects of a command on       *)
(* devices, clock and network (NetChange has the network).                 *)
(***************************************************************************)
EXTENDS Integers, Sequences, Functions

CONSTANTS MaxId,            \* bound: the highest row number of table lbus
          Kind              \* the classes of command the clients send

(***************************************************************************)
(* The classes of command that the dispatch tells apart:                   *)
(*   "del"     del of a device, id > 0 and address liegw                   *)
(*   "chg"     chg of a device (id > 0) or of the clock: handled at once   *)
(*   "two"     chg whose payload names a device and the clock              *)
(*   "net"     chg of the network settings: handled on its second visit    *)
(*   "login"   login                                                       *)
(*   "unknown" a cmd string that is none of del, chg, login                *)
(*   "stuck"   chg or del with another address, a payload that does not    *)
(*             parse or names nothing known, or a device id <= 0           *)
(***************************************************************************)
AllKinds == {"del", "chg", "two", "net", "login", "unknown", "stuck"}

ASSUME LbusAssumption == /\ MaxId \in Nat \ {0}
                         /\ Kind \subseteq AllKinds

Id == 1..MaxId

RowState == {"absent", "empty", "pending", "handled"}

VARIABLES
  rows,     \* table lielas.lbus: the state of each row
  kind,     \* its address, cmd and payload columns, by class
  fate,     \* "up", or how the process ended: "off", "exit", "segv"
  queue,    \* the commands in the list lbuscon, head first
  cursor,   \* lbusconPtr
  visiting, \* lbus_handler's static cmd is not NULL
  next,     \* tmnexthandle of each command: not set, in the future, due
  mpc,      \* where the main thread is inside handleLoginCmd
  cpc,      \* where the CoAP thread is
  cid,      \* the command PUT is building, 0 when none
  cptr      \* the command the CoAP thread is printing, 0 when none

durable == <<rows, kind>>
main == <<visiting, mpc>>
coap == <<cpc, cid, cptr>>
vars == <<rows, kind, fate, queue, cursor, visiting, next, mpc, cpc, cid, cptr>>

Up == fate = "up"
Pending == {i \in Id : rows[i] = "pending"}
Queued == Range(queue)

-----------------------------------------------------------------------------
\* The cursor: NULL, on the one container of an empty list, on the container
\* of a queued command, or on a freed container whose link leads to id.
Null == [at |-> "null", id |-> 0]
Empty == [at |-> "empty", id |-> 0]
Live(i) == [at |-> "live", id |-> i]
Freed(i) == [at |-> "freed", id |-> i]

Cursors == {Null, Empty} \union {Live(i) : i \in Id}
                         \union {Freed(i) : i \in Id \union {0}}

Index(i) == CHOOSE n \in 1..Len(queue) : queue[n] = i

\* Mutated: the link skips one container too many.
WithoutTwo(q, n) == SubSeq(q, 1, n - 1) \o SubSeq(q, n + 2, Len(q))

Without(q, n) == SubSeq(q, 1, n - 1) \o SubSeq(q, n + 1, Len(q))

Successor(i) == IF Index(i) < Len(queue) THEN queue[Index(i) + 1] ELSE 0

\* Mutated: an empty list is taken for one with a command in it.
FirstOfNothing == Live(IF queue = <<>> THEN 0 ELSE queue[1])

\* lbus_getFirstCmd: the cursor goes to the head.
First == IF queue = <<>> THEN Empty ELSE Live(queue[1])

\* lbus_getNextCmd: the cursor follows nlbc, and stays NULL at the end.
Advance == LET nlbc == CASE cursor.at = "live" -> Successor(cursor.id)
                         [] cursor.at = "freed" -> cursor.id
                         [] OTHER -> 0
           IN IF nlbc = 0 THEN Null ELSE Live(nlbc)

-----------------------------------------------------------------------------
TypeOK == /\ rows \in [Id -> RowState]
          /\ kind \in [Id -> AllKinds \union {"none"}]
          /\ fate \in {"up", "off", "exit", "segv"}
          /\ queue \in Seq(Id)
          /\ cursor \in Cursors
          /\ visiting \in BOOLEAN
          /\ next \in [Id -> {"none", "later", "due"}]
          /\ mpc \in {"idle", "visit", "advance"}
          /\ cpc \in {"idle", "built", "first", "read", "print"}
          /\ cid \in Id \union {0}
          /\ cptr \in Id \union {0}

Init == /\ rows = [i \in Id |-> "absent"]
        /\ kind = [i \in Id |-> "none"]
        /\ fate = "up"
        /\ queue = <<>>
        /\ cursor = Empty
        /\ visiting = FALSE
        /\ next = [i \in Id |-> "none"]
        /\ mpc = "idle"
        /\ cpc = "idle"
        /\ cid = 0
        /\ cptr = 0

\* The process ends: everything but the table is gone.
Die(how) == /\ fate' = how
            /\ queue' = <<>>
            /\ cursor' = Null
            /\ visiting' = FALSE
            /\ next' = [i \in Id |-> "none"]
            /\ mpc' = "idle"
            /\ cpc' = "idle"
            /\ cid' = 0
            /\ cptr' = 0

-----------------------------------------------------------------------------
(* The main thread *)

\* saveCmd
SaveCmd(i, state) == rows' = [rows EXCEPT ![i] = state]

\* Mutated: the head is kept, empty, instead of the last container.
SetCmdHandledAtHead(i) ==
  /\ rows' = [rows EXCEPT ![i] = "handled"]
  /\ queue' = Without(queue, Index(i))
  /\ cursor' = IF Index(i) = 1 THEN Empty ELSE Freed(Successor(i))
  /\ UNCHANGED <<kind, next, fate>>

\* setCmdHandled: the row is updated, then lbus_remove() frees the container,
\* except that the last container of the list is kept, empty.
SetCmdHandled(i) ==
  /\ SaveCmd(i, "handled")
  /\ queue' = Without(queue, Index(i))
  /\ cursor' = IF Len(queue) = 1 THEN Empty ELSE Freed(Successor(i))
  /\ UNCHANGED <<kind, next, fate>>

Keep(i) == /\ cursor' = Live(i)
           /\ UNCHANGED <<rows, kind, fate, queue, next>>

\* The container that lbus_handler looks at in this lap.
Target == IF visiting THEN Advance ELSE First

Visit(i) == /\ Up
            /\ mpc = "idle"
            /\ Target = Live(i)
            /\ visiting' = TRUE
            /\ UNCHANGED coap

\* Mutated: at the end of the list the static cmd is kept.
HandlerIdleForEver == /\ Up
                      /\ mpc = "idle"
                      /\ Target \in {Null, Empty}
                      /\ cursor' = Target
                      /\ UNCHANGED <<durable, fate, queue, next, main, coap>>

\* The lap ends at the end of the list, or the list is empty.
HandlerIdle == /\ Up
               /\ mpc = "idle"
               /\ Target \in {Null, Empty}
               /\ cursor' = Target
               /\ visiting' = FALSE
               /\ UNCHANGED <<durable, fate, queue, next, mpc, coap>>

HandlerWaits(i) == /\ Visit(i)
                   /\ next[i] = "later"
                   /\ Keep(i)
                   /\ UNCHANGED mpc

HandleDelOrUnknown(i) == /\ Visit(i)
                         /\ next[i] # "later"
                         /\ kind[i] \in {"del", "unknown"}
                         /\ SetCmdHandled(i)
                         /\ UNCHANGED mpc

HandleStuck(i) == /\ Visit(i)
                  /\ next[i] # "later"
                  /\ kind[i] = "stuck"
                  /\ Keep(i)
                  /\ UNCHANGED mpc

\* handleChgCmd and the three functions it calls.  Only changeNetType can
\* leave its command in the list: it sets tmnexthandle on the first visit,
\* unless ipchanger fails.
ChgCmd(i) ==
  \/ /\ kind[i] = "chg"
     /\ SetCmdHandled(i)
  \/ /\ kind[i] = "net"
     /\ SetCmdHandled(i)
  \/ /\ kind[i] = "net"
     /\ next[i] = "none"
     /\ next' = [next EXCEPT ![i] = "later"]
     /\ cursor' = Live(i)
     /\ UNCHANGED <<rows, kind, fate, queue>>
  \/ /\ kind[i] = "two"
     /\ Len(queue) > 1
     /\ SetCmdHandled(i)

\* "two": the loop over the tokens goes on after setCmdHandled() and calls it
\* again with the freed command.  lbus_remove() does not find it, and when
\* the list has become empty it reads through the NULL lcmd.
ChgCmdFaults(i) == /\ kind[i] = "two"
                   /\ Len(queue) = 1
                   /\ SaveCmd(i, "handled")
                   /\ UNCHANGED kind
                   /\ Die("segv")

HandleChg(i) == /\ Visit(i)
                /\ next[i] # "later"
                /\ ChgCmd(i)
                /\ UNCHANGED mpc

HandleChgFaults(i) == /\ Up
                      /\ mpc = "idle"
                      /\ Target = Live(i)
                      /\ ChgCmdFaults(i)

\* handleLoginCmd: the login is handled, then the walk over all change
\* commands starts at the head.  The mutex is held until the walk ends.
HandleLogin(i) ==
  LET rest == Without(queue, Index(i))
  IN /\ Visit(i)
     /\ kind[i] = "login"
     /\ SaveCmd(i, "handled")
     /\ queue' = rest
     /\ cursor' = IF rest = <<>> THEN Empty ELSE Live(rest[1])
     /\ mpc' = IF rest = <<>> THEN "idle" ELSE "visit"
     /\ UNCHANGED <<kind, fate, next>>

\* A command that is not a change, or that no function handles, is passed.
WalkPasses == /\ Up
              /\ mpc = "visit"
              /\ kind[cursor.id] \notin {"chg", "net", "two"}
              /\ mpc' = "advance"
              /\ UNCHANGED <<durable, fate, queue, cursor, visiting, next, coap>>

WalkHandles == /\ Up
               /\ mpc = "visit"
               /\ ChgCmd(cursor.id)
               /\ mpc' = "advance"
               /\ UNCHANGED <<visiting, coap>>

WalkFaults == /\ Up
              /\ mpc = "visit"
              /\ ChgCmdFaults(cursor.id)

WalkAdvances == /\ Up
                /\ mpc = "advance"
                /\ cursor' = Advance
                /\ mpc' = IF Advance = Null THEN "idle" ELSE "visit"
                /\ UNCHANGED <<durable, fate, queue, visiting, next, coap>>

\* lbus_getNextCmd follows the link of a freed container and the memory has
\* been used for something else.
StaleLink == /\ Up
             /\ cursor.at = "freed"
             /\ \/ mpc = "idle" /\ visiting
                \/ mpc = "advance"
             /\ UNCHANGED durable
             /\ Die("segv")

Handler == \/ HandlerIdle
           \/ \E i \in Id : \/ HandlerWaits(i)
                            \/ HandleDelOrUnknown(i)
                            \/ HandleStuck(i)
                            \/ HandleChg(i)
                            \/ HandleChgFaults(i)
                            \/ HandleLogin(i)
           \/ WalkPasses
           \/ WalkHandles
           \/ WalkFaults
           \/ WalkAdvances
           \/ StaleLink

-----------------------------------------------------------------------------
(* The CoAP thread.  Its locked steps wait while the main thread holds the *)
(* mutex, which outside of one step it does only during the login walk.    *)

Unlocked == mpc = "idle"

\* Mutated: a gap in the numbers is used again.
LowestFree(i) == /\ rows[i] = "absent"
                 /\ \A j \in Id : j < i => rows[j] # "absent"

\* getNewId: one above the highest number.
NewId(i) == /\ \A j \in Id : rows[j] # "absent" => j < i
            /\ i > 1 => rows[i - 1] # "absent"

\* hnd_put_lbus, lbus_createCmd(0): getNewId() inserts an empty row.
PutCreate(i) == /\ Up
                /\ Unlocked
                /\ cpc = "idle"
                /\ NewId(i)
                /\ rows' = [rows EXCEPT ![i] = "empty"]
                /\ cid' = i
                /\ cpc' = "built"
                /\ UNCHANGED <<kind, fate, queue, cursor, next, main, cptr>>

\* 400: the handler returns, the empty row stays in the table.
PutReject == /\ Up
             /\ cpc = "built"
             /\ cpc' = "idle"
             /\ cid' = 0
             /\ UNCHANGED <<durable, fate, queue, cursor, next, main, cptr>>

\* lbus_add(cmd, 1): the cursor runs to the end, the command is linked there
\* and saved.
PutAdd(k) == /\ Up
             /\ Unlocked
             /\ cpc = "built"
             /\ SaveCmd(cid, "pending")
             /\ kind' = [kind EXCEPT ![cid] = k]
             /\ queue' = Append(queue, cid)
             /\ cursor' = Live(cid)
             /\ cid' = 0
             /\ cpc' = "first"
             /\ UNCHANGED <<fate, next, main, cptr>>

\* The request is not JSON: the handler calls exit(0).
PutExits == /\ Up
            /\ cpc = "idle"
            /\ UNCHANGED durable
            /\ Die("exit")

GetStart == /\ Up
            /\ cpc = "idle"
            /\ cpc' = "first"
            /\ UNCHANGED <<durable, fate, queue, cursor, next, main, cid, cptr>>

\* lbus_getFirstCmd up to its unlock.
WalkFirst == /\ Up
             /\ Unlocked
             /\ cpc = "first"
             /\ cursor' = First
             /\ cpc' = "read"
             /\ UNCHANGED <<durable, fate, queue, next, main, cid, cptr>>

\* return lbusconPtr->lcmd, after the unlock.  A freed container may still
\* hold the address of some command, or NULL.
ReadCursor == /\ Up
              /\ cpc = "read"
              /\ cursor.at # "null"
              /\ \/ cursor.at = "live" /\ cptr' = cursor.id
                 \/ cursor.at = "empty" /\ cptr' = 0
                 \/ cursor.at = "freed" /\ cptr' \in Id \union {0}
              /\ cpc' = IF cptr' = 0 THEN "idle" ELSE "print"
              /\ UNCHANGED <<durable, fate, queue, cursor, next, main, cid>>

\* lbus_printCmd reads a command that has been freed.
PrintsFreed == cpc = "print" /\ cptr \notin Queued

\* The CoAP thread reads through NULL or through freed memory.
ReadFaults == /\ Up
              /\ \/ cpc = "read" /\ cursor.at \in {"null", "freed"}
                 \/ PrintsFreed
              /\ UNCHANGED durable
              /\ Die("segv")

\* The command is printed, then lbus_getNextCmd up to its unlock.
PrintThenNext == /\ Up
                 /\ Unlocked
                 /\ cpc = "print"
                 /\ cursor' = Advance
                 /\ cptr' = 0
                 /\ cpc' = IF Advance = Null THEN "idle" ELSE "read"
                 /\ UNCHANGED <<durable, fate, queue, next, main, cid>>

Coap == \/ \E i \in Id : PutCreate(i)
        \/ PutReject
        \/ \E k \in Kind : PutAdd(k)
        \/ PutExits
        \/ GetStart
        \/ WalkFirst
        \/ ReadCursor
        \/ ReadFaults
        \/ PrintThenNext

-----------------------------------------------------------------------------
\* LBUS_NET_RELOGIN_TIME has passed since the first visit.
Tick(i) == /\ Up
           /\ next[i] = "later"
           /\ next' = [next EXCEPT ![i] = "due"]
           /\ UNCHANGED <<durable, fate, queue, cursor, main, coap>>

\* The process is killed or the power fails.
Crash == /\ Up
         /\ UNCHANGED durable
         /\ Die("off")

\* Mutated: every row that is not pending is deleted.
ReloadPurges == [i \in Id |-> IF rows[i] = "pending" THEN "pending" ELSE "absent"]

\* Mutated: the empty rows are kept.
ReloadKeeps == rows

\* lbus_load deletes the rows that getNewId() inserted and nothing filled.
Reload == [i \in Id |-> IF rows[i] = "empty" THEN "absent" ELSE rows[i]]

\* The gateway is started again: lbus_init(), then lbus_load() deletes the
\* empty rows and adds the others, in the order the database returns them.
\* tmnexthandle was never saved.
Restart == /\ ~Up
           /\ fate' = "up"
           /\ rows' = Reload
           /\ \E n \in 0..MaxId : queue' \in Bijection(1..n, Pending)
           /\ cursor' = IF queue' = <<>> THEN Empty ELSE Live(queue'[Len(queue')])
           /\ UNCHANGED <<kind, next, main, coap>>

Next == \/ Handler
        \/ Coap
        \/ \E i \in Id : Tick(i)
        \/ Crash
        \/ Restart

Spec == Init /\ [][Next]_vars

\* The main loop calls lbus_handler() for ever and time passes.  Nothing is
\* assumed of clients, of the CoAP thread, or that anyone restarts a dead
\* process.
FairSpec == Spec /\ WF_vars(Handler) /\ \A i \in Id : WF_vars(Tick(i))

-----------------------------------------------------------------------------
(* Properties *)

\* The list in memory and the pending rows of the table are the same
\* commands, each queued once: no accepted command is dropped by a removal,
\* a reload or a concurrent PUT, and no handled command is visited again.
QueueIsPendingRows == Up => /\ Queued = Pending
                            /\ IsInjective(queue)

\* The shared cursor never points at a command that has left the list, and
\* the link that is still read in a freed container leads to a command that
\* is still in the list: the use after free in lbus_getNextCmd() goes on at
\* the right place as long as the memory has not been reused.
CursorIsUsable == Up => /\ cursor.at = "empty" => queue = <<>>
                        /\ cursor.at = "live" => cursor.id \in Queued
                        /\ cursor.at = "freed" => cursor.id \in Queued \union {0}

\* A command that PUT is still building is a reserved row that neither the
\* list nor another command uses, so lbus_add() cannot overwrite one.
ReservationIsFresh == cid # 0 => /\ rows[cid] = "empty"
                                 /\ \A j \in Id : j > cid => rows[j] = "absent"

\* In every step, restarts included: a handled row stays handled with its
\* content, a pending row can only become handled, keeping its content.
RowsAdvance ==
  \A i \in Id :
     /\ rows[i] = "handled" => rows'[i] = "handled" /\ kind'[i] = kind[i]
     /\ rows[i] = "pending" => /\ rows'[i] \in {"pending", "handled"}
                               /\ kind'[i] = kind[i]

RowsAreFinal == [][RowsAdvance]_vars

\* Once the clients are quiet, every pending command that some handler can
\* handle is handled, whatever undeliverable commands stand before it in the
\* list, unless the process dies.
Servable(i) == rows[i] = "pending" /\ kind[i] # "stuck"

QuietBusServesAll ==
  <>[](cpc = "idle") => \A i \in Id : Servable(i) ~> (rows[i] = "handled" \/ ~Up)

-----------------------------------------------------------------------------
\* Lbus implements what CommandBus promises.
Bus == INSTANCE CommandBus WITH running <- Up, serving <- Queued

ImplementsBus == Bus!Spec
=============================================================================

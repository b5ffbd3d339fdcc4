----------------------------- MODULE LbusProofs -----------------------------
(***************************************************************************)
(* Proofs about the command bus of Lbus.tla, for every number of rows and  *)
(* every set of command classes: the list in memory and the pending rows   *)
(* agree, the shared cursor stays usable, rows are final, and Lbus         *)
(* implements CommandBus.                                                  *)
(***************************************************************************)
EXTENDS Lbus, SequenceTheorems, TLAPS

USE DEF SaveCmd, PrintsFreed

\* The inductive invariant.  Beside the checked invariants it says what the
\* program counters imply: a dead process has no list, a walk is under way
\* only while its cursor is on a queued command, and PUT is between its two
\* steps exactly while it owns a reserved row.
Control == /\ ~Up => queue = <<>> /\ mpc = "idle" /\ cpc = "idle" /\ cid = 0
           /\ mpc = "visit" => cursor.at = "live"
           /\ cpc = "built" <=> cid # 0

IInv == /\ TypeOK
        /\ QueueIsPendingRows
        /\ CursorIsUsable
        /\ ReservationIsFresh
        /\ Control

-----------------------------------------------------------------------------
(* Sequences without repetition *)

\* Two lists, one behind the other.
LEMMA ConcatEffect ==
  ASSUME NEW S, NEW s \in Seq(S), NEW t \in Seq(S)
  PROVE  /\ s \o t \in Seq(S) /\ Len(s \o t) = Len(s) + Len(t)
         /\ Len(s) \in Nat /\ Len(t) \in Nat
         /\ \A k \in 1..Len(s) : (s \o t)[k] = s[k]
         /\ \A k \in 1..Len(t) : (s \o t)[Len(s) + k] = t[k]
  OBVIOUS

\* What is left of a list without the entry at position n.
LEMMA RemoveAt ==
  ASSUME NEW S, NEW q \in Seq(S), NEW n \in 1..Len(q)
  PROVE  LET r == SubSeq(q, 1, n - 1) \o SubSeq(q, n + 1, Len(q))
         IN /\ r \in Seq(S)
            /\ DOMAIN r = 1..(Len(q) - 1)
            /\ \A k \in DOMAIN r : r[k] = IF k < n THEN q[k] ELSE q[k + 1]
<1> DEFINE a == SubSeq(q, 1, n - 1)
           b == SubSeq(q, n + 1, Len(q))
           r == a \o b
<1>1. /\ a \in Seq(S) /\ Len(a) = n - 1
      /\ \A k \in 1..(n - 1) : a[k] = q[k]
  OBVIOUS
<1>2. /\ b \in Seq(S) /\ Len(b) = Len(q) - n
      /\ \A k \in 1..(Len(q) - n) : b[k] = q[n + k]
  OBVIOUS
<1>3. r = a \o b
  OBVIOUS
<1> HIDE DEF a, b, r
<1>4. /\ r \in Seq(S) /\ Len(r) = Len(q) - 1 /\ Len(q) \in Nat
      /\ \A k \in 1..(n - 1) : r[k] = a[k]
      /\ \A k \in 1..(Len(q) - n) : r[(n - 1) + k] = b[k]
  <2>1. /\ r \in Seq(S) /\ Len(r) = Len(a) + Len(b)
        /\ \A k \in 1..Len(a) : r[k] = a[k]
        /\ \A k \in 1..Len(b) : r[Len(a) + k] = b[k]
    <3>1. a \in Seq(S) /\ b \in Seq(S)
      BY <1>1, <1>2
    <3>2. /\ a \o b \in Seq(S) /\ Len(a \o b) = Len(a) + Len(b)
          /\ \A k \in 1..Len(a) : (a \o b)[k] = a[k]
          /\ \A k \in 1..Len(b) : (a \o b)[Len(a) + k] = b[k]
      BY <3>1, ConcatEffect
    <3>3. QED
      BY <1>3, <3>2
  <2>2. Len(q) \in Nat /\ Len(a) = n - 1 /\ Len(b) = Len(q) - n /\ (n - 1) + (Len(q) - n) = Len(q) - 1
    BY <1>1, <1>2
  <2>3. QED
    BY <2>1, <2>2
<1>5. DOMAIN r = 1..(Len(q) - 1)
  BY <1>4
<1>6. ASSUME NEW k \in 1..(Len(q) - 1)
      PROVE  r[k] = IF k < n THEN q[k] ELSE q[k + 1]
  <2>1. CASE k < n
    <3>1. k \in 1..(n - 1)
      BY <2>1
    <3>2. QED
      BY <1>1, <1>4, <2>1, <3>1
  <2>2. CASE ~(k < n)
    <3> DEFINE m == k - (n - 1)
    <3>1. m \in 1..(Len(q) - n) /\ n + m = k + 1 /\ (n - 1) + m = k
      BY <1>4, <2>2
    <3> HIDE DEF m
    <3>2. r[k] = b[m] /\ b[m] = q[k + 1]
      BY <1>2, <1>4, <3>1
    <3>3. QED
      BY <2>2, <3>2
  <2>3. QED
    BY <2>1, <2>2
<1>7. QED
  BY <1>4, <1>5, <1>6 DEF a, b, r

\* What lbus_remove() leaves of the list: everything but one command.
LEMMA WithoutProperties ==
  ASSUME NEW S, NEW q \in Seq(S), IsInjective(q), NEW n \in 1..Len(q)
  PROVE  /\ Without(q, n) \in Seq(S)
         /\ Len(Without(q, n)) = Len(q) - 1
         /\ Range(Without(q, n)) = Range(q) \ {q[n]}
         /\ IsInjective(Without(q, n))
<1> DEFINE w == Without(q, n)
<1>1. /\ w \in Seq(S)
      /\ Len(w) = Len(q) - 1
      /\ \A k \in 1..Len(w) : w[k] = IF k < n THEN q[k] ELSE q[k + 1]
  <2> DEFINE r == SubSeq(q, 1, n - 1) \o SubSeq(q, n + 1, Len(q))
  <2>1. w = r
    BY DEF Without
  <2>2. /\ r \in Seq(S)
        /\ DOMAIN r = 1..(Len(q) - 1)
        /\ \A k \in DOMAIN r : r[k] = IF k < n THEN q[k] ELSE q[k + 1]
    BY RemoveAt
  <2>3. Len(q) - 1 \in Nat
    OBVIOUS
  <2> HIDE DEF r, w
  <2>4. Len(w) = Len(q) - 1
    BY <2>1, <2>2, <2>3
  <2>5. QED
    BY <2>1, <2>2, <2>4
<1>2. DOMAIN w = 1..(Len(q) - 1) /\ DOMAIN q = 1..Len(q)
  BY <1>1
<1> HIDE DEF w
<1>3. Range(w) \subseteq Range(q) \ {q[n]}
  BY <1>1, <1>2 DEF Range, IsInjective
<1>4. ASSUME NEW k \in 1..Len(q), k # n
      PROVE  q[k] \in Range(w)
  <2>1. CASE k < n
    BY <2>1, <1>1, <1>2 DEF Range
  <2>2. CASE k > n
    <3>1. k - 1 \in 1..Len(w) /\ w[k - 1] = q[k]
      BY <2>2, <1>1, <1>2
    <3>2. QED
      BY <3>1, <1>1 DEF Range
  <2>3. QED
    BY <1>4, <2>1, <2>2
<1>5. Range(q) \ {q[n]} \subseteq Range(w)
  BY <1>2, <1>4 DEF Range
<1>6. IsInjective(w)
  BY <1>1, <1>2 DEF IsInjective
<1>7. QED
  BY <1>1, <1>3, <1>5, <1>6 DEF w

\* What lbus_add() makes of the list.
LEMMA EnqueueProperties ==
  ASSUME NEW S, NEW q \in Seq(S), IsInjective(q), NEW e \in S, e \notin Range(q)
  PROVE  /\ Append(q, e) \in Seq(S)
         /\ Range(Append(q, e)) = Range(q) \union {e}
         /\ IsInjective(Append(q, e))
<1> DEFINE a == Append(q, e)
<1>1. /\ a \in Seq(S)
      /\ DOMAIN a = 1..(Len(q) + 1)
      /\ DOMAIN q = 1..Len(q)
      /\ \A k \in 1..Len(q) : a[k] = q[k]
      /\ a[Len(q) + 1] = e
  OBVIOUS
<1> HIDE DEF a
<1>2. Len(q) \in Nat
  OBVIOUS
<1>3. Range(a) = Range(q) \union {e}
  BY <1>1, <1>2 DEF Range
<1>4. IsInjective(a)
  BY <1>1, <1>2 DEF IsInjective, Range
<1>5. QED
  BY <1>1, <1>3, <1>4 DEF a

\* The order in which lbus_load() adds the pending rows does not matter.
LEMMA OrderProperties ==
  ASSUME NEW S, NEW n \in Nat, NEW q \in Bijection(1..n, S)
  PROVE  q \in Seq(S) /\ Range(q) = S /\ IsInjective(q)
  BY DEF Bijection, Injection, Surjection, Range, IsInjective

\* The position of a queued command, and the command behind it.
LEMMA IndexProperties ==
  ASSUME NEW i \in Queued, queue \in Seq(Id), IsInjective(queue)
  PROVE  /\ Index(i) \in 1..Len(queue)
         /\ queue[Index(i)] = i
         /\ Successor(i) \in (Queued \ {i}) \union {0}
<1>1. \E n \in 1..Len(queue) : queue[n] = i
  BY DEF Queued, Range
<1>2. Index(i) \in 1..Len(queue) /\ queue[Index(i)] = i
  BY <1>1 DEF Index
<1>3. Successor(i) \in (Queued \ {i}) \union {0}
  BY <1>2 DEF Successor, Queued, Range, IsInjective
<1>4. QED
  BY <1>2, <1>3

-----------------------------------------------------------------------------
(* The inductive invariant *)

LEMMA InitInvariant == Init => IInv
<1> SUFFICES ASSUME Init PROVE IInv
  OBVIOUS
<1>1. queue = <<>> /\ queue \in Seq(Id) /\ Queued = {} /\ IsInjective(queue)
  BY DEF Init, Queued, Range, IsInjective
<1>2. TypeOK
  BY <1>1 DEF Init, TypeOK, RowState, Cursors, Empty
<1>3. Pending = {}
  BY DEF Init, Pending
<1>4. QED
  BY <1>1, <1>2, <1>3 DEF Init, IInv, QueueIsPendingRows, CursorIsUsable,
     ReservationIsFresh, Control, Empty, Up

\* The parts of the invariant that setCmdHandled() could disturb.
LEMMA HandledProperties ==
  ASSUME IInv, Up, NEW i \in Queued, SetCmdHandled(i)
  PROVE  /\ rows' \in [Id -> RowState]
         /\ queue' \in Seq(Id)
         /\ cursor' \in Cursors
         /\ cid # 0 => rows'[cid] = rows[cid]
         /\ \A j \in Id : rows[j] = "absent" => rows'[j] = "absent"
         /\ QueueIsPendingRows'
         /\ CursorIsUsable'
<1>1. /\ queue \in Seq(Id) /\ IsInjective(queue)
      /\ rows \in [Id -> RowState]
      /\ Queued = Pending
      /\ fate = "up" /\ fate' = "up"
      /\ i \in Id /\ rows[i] = "pending"
  BY DEF IInv, TypeOK, QueueIsPendingRows, SetCmdHandled, Up, Pending
<1>2. /\ Index(i) \in 1..Len(queue)
      /\ queue[Index(i)] = i
      /\ Successor(i) \in (Queued \ {i}) \union {0}
  BY <1>1, IndexProperties
<1>3. /\ queue' \in Seq(Id)
      /\ Len(queue') = Len(queue) - 1
      /\ Queued' = Queued \ {i}
      /\ IsInjective(queue')
  BY <1>1, <1>2, WithoutProperties DEF SetCmdHandled, Queued
<1>4. rows' = [rows EXCEPT ![i] = "handled"]
  BY DEF SetCmdHandled
<1>5. rows' \in [Id -> RowState] /\ Pending' = Pending \ {i}
  BY <1>1, <1>4 DEF Pending, RowState
<1>6. QueueIsPendingRows'
  BY <1>1, <1>3, <1>5 DEF QueueIsPendingRows
<1>7. Queued \subseteq Id
  BY <1>1 DEF Pending
<1>8. \/ Len(queue) = 1 /\ cursor' = [at |-> "empty", id |-> 0] /\ queue' = <<>>
      \/ cursor' = [at |-> "freed", id |-> Successor(i)]
  <2>1. queue' # <<>> => Len(queue') \in Nat \ {0}
    BY <1>3, EmptySeq
  <2>2. Len(queue) = 1 => queue' = <<>>
    BY <1>3, <2>1
  <2>3. QED
    BY <2>2 DEF SetCmdHandled, Empty, Freed
<1>9. cursor' \in Cursors /\ CursorIsUsable'
  BY <1>2, <1>3, <1>7, <1>8 DEF Cursors, Empty, Freed, CursorIsUsable
<1>10. cid # 0 => rows'[cid] = rows[cid]
  BY <1>1, <1>4 DEF IInv, ReservationIsFresh, TypeOK
<1>11. \A j \in Id : rows[j] = "absent" => rows'[j] = "absent"
  BY <1>1, <1>4
<1>12. QED
  BY <1>3, <1>5, <1>6, <1>9, <1>10, <1>11

LEMMA ReservationKept ==
  ASSUME IInv, UNCHANGED cid,
         cid # 0 => rows'[cid] = rows[cid],
         \A j \in Id : rows[j] = "absent" => rows'[j] = "absent"
  PROVE  ReservationIsFresh'
  BY DEF IInv, ReservationIsFresh

\* A process that ends leaves nothing that the invariant speaks of, as long
\* as the table is only completed.
LEMMA DeathKeepsInvariant ==
  ASSUME IInv, NEW how \in {"off", "exit", "segv"}, Die(how),
         rows' \in [Id -> RowState], kind' = kind
  PROVE  IInv'
<1>1. queue' = <<>> /\ queue' \in Seq(Id)
  BY DEF Die
<1>2. TypeOK'
  BY <1>1 DEF Die, IInv, TypeOK, Cursors, Null
<1>3. ~Up' /\ cid' = 0 /\ cpc' = "idle" /\ mpc' = "idle"
  BY DEF Die, Up
<1>4. QED
  BY <1>1, <1>2, <1>3 DEF IInv, QueueIsPendingRows, CursorIsUsable,
     ReservationIsFresh, Control, Up

LEMMA CursorMoves ==
  ASSUME IInv, Up
  PROVE  /\ \/ First = Empty /\ queue = <<>>
            \/ First = Live(First.id) /\ First.id \in Queued
         /\ \/ Advance = Null
            \/ Advance = Live(Advance.id) /\ Advance.id \in Queued
<1>1. /\ queue \in Seq(Id) /\ IsInjective(queue) /\ Queued = Pending
      /\ Queued \subseteq Id
      /\ cursor.at = "live" => cursor.id \in Queued
      /\ cursor.at = "freed" => cursor.id \in Queued \union {0}
  BY DEF IInv, TypeOK, QueueIsPendingRows, CursorIsUsable, Pending
<1>2. queue # <<>> => queue[1] \in Queued
  BY <1>1 DEF Queued, Range
<1>3. cursor.at = "live" => Successor(cursor.id) \in Queued \union {0}
  BY <1>1, IndexProperties
<1>4. \/ First = Empty /\ queue = <<>>
      \/ First = Live(First.id) /\ First.id \in Queued
  BY <1>2 DEF First, Live
<1>5. \/ Advance = Null
      \/ Advance = Live(Advance.id) /\ Advance.id \in Queued
  <2>1. CASE cursor.at = "live"
    BY <2>1, <1>3 DEF Advance, Live
  <2>2. CASE cursor.at = "freed"
    BY <2>2, <1>1 DEF Advance, Live
  <2>3. CASE cursor.at \notin {"live", "freed"}
    BY <2>3 DEF Advance
  <2>4. QED
    BY <2>1, <2>2, <2>3
<1>6. QED
  BY <1>4, <1>5

\* The handler keeps the cursor on a queued command and changes nothing that
\* the invariant relates.
LEMMA CursorStepKeepsInvariant ==
  ASSUME IInv, Up, UNCHANGED <<rows, kind, fate, queue, cid>>,
         \/ cursor' = Null
         \/ cursor' = Empty /\ queue = <<>>
         \/ \E i \in Queued : cursor' = Live(i),
         visiting' \in BOOLEAN, next' \in [Id -> {"none", "later", "due"}],
         mpc' \in {"idle", "visit", "advance"},
         mpc' = "visit" => cursor'.at = "live",
         cpc' \in {"idle", "built", "first", "read", "print"},
         cpc' = "built" <=> cpc = "built",
         cptr' \in Id \union {0}
  PROVE  IInv'
<1>1. Queued' = Queued /\ Pending' = Pending /\ Up' /\ Queued \subseteq Id
  BY DEF IInv, QueueIsPendingRows, Queued, Pending, Up
<1>2. cursor' \in Cursors
  BY <1>1 DEF Cursors
<1>3. TypeOK'
  BY <1>2 DEF IInv, TypeOK
<1>4. QueueIsPendingRows'
  BY <1>1 DEF IInv, QueueIsPendingRows
<1>5. CursorIsUsable'
  BY <1>1 DEF CursorIsUsable, Null, Empty, Live
<1>6. ReservationIsFresh'
  BY DEF IInv, ReservationIsFresh
<1>7. Control'
  BY <1>1 DEF IInv, Control
<1>8. QED
  BY <1>3, <1>4, <1>5, <1>6, <1>7 DEF IInv

\* A command is handled and removed, the rest of the state follows.
LEMMA HandlingKeepsInvariant ==
  ASSUME IInv, Up, NEW i \in Queued, SetCmdHandled(i),
         visiting' \in BOOLEAN, mpc' \in {"idle", "advance"}, UNCHANGED coap
  PROVE  IInv'
<1>1. /\ rows' \in [Id -> RowState]
      /\ queue' \in Seq(Id)
      /\ cursor' \in Cursors
      /\ QueueIsPendingRows'
      /\ CursorIsUsable'
      /\ cid # 0 => rows'[cid] = rows[cid]
      /\ \A j \in Id : rows[j] = "absent" => rows'[j] = "absent"
  BY HandledProperties
<1>2. UNCHANGED <<kind, fate, next, cpc, cid, cptr>>
  BY DEF SetCmdHandled, coap
<1>3. TypeOK'
  BY <1>1, <1>2 DEF IInv, TypeOK
<1>4. ReservationIsFresh'
  BY <1>1, <1>2, ReservationKept
<1>5. Control'
  BY <1>2 DEF IInv, Control, Up
<1>6. QED
  BY <1>1, <1>3, <1>4, <1>5 DEF IInv

-----------------------------------------------------------------------------
(* One lemma per thread: its steps keep the invariant *)

LEMMA VisitedIsQueued ==
  ASSUME IInv, Up, NEW i \in Id, Target = Live(i)
  PROVE  i \in Queued
  BY CursorMoves DEF Target, Live, Empty, Null

LEMMA HandlerKeepsInvariant == IInv /\ Handler => IInv'
<1> SUFFICES ASSUME IInv, Handler PROVE IInv'
  OBVIOUS
<1>0. TypeOK /\ Control
  BY DEF IInv
<1>1. CASE HandlerIdle
  <2>1. Up /\ (cursor' = Null \/ (cursor' = Empty /\ queue = <<>>))
    BY <1>1, CursorMoves DEF HandlerIdle, Target, Live, Empty, Null
  <2>2. QED
    BY <1>0, <1>1, <2>1, CursorStepKeepsInvariant
    DEF HandlerIdle, TypeOK, Control, durable, coap
<1>2. ASSUME NEW i \in Id, HandlerWaits(i) \/ HandleStuck(i)
      PROVE  IInv'
  <2>1. Up /\ i \in Queued
    BY <1>2, VisitedIsQueued DEF HandlerWaits, HandleStuck, Visit
  <2>2. QED
    BY <1>0, <1>2, <2>1, CursorStepKeepsInvariant
    DEF HandlerWaits, HandleStuck, Visit, Keep, TypeOK, coap
<1>3. ASSUME NEW i \in Id, HandleDelOrUnknown(i)
      PROVE  IInv'
  <2>1. Up /\ i \in Queued
    BY <1>3, VisitedIsQueued DEF HandleDelOrUnknown, Visit
  <2>2. QED
    BY <1>3, <2>1, HandlingKeepsInvariant DEF HandleDelOrUnknown, Visit
<1>4. ASSUME NEW i \in Id, Up, i \in Queued, ChgCmd(i),
             visiting' \in BOOLEAN, mpc' \in {"idle", "advance"}, UNCHANGED coap
      PROVE  IInv'
  <2>1. CASE SetCmdHandled(i)
    BY <1>4, <2>1, HandlingKeepsInvariant
  <2>2. CASE /\ next' = [next EXCEPT ![i] = "later"]
             /\ cursor' = Live(i)
             /\ UNCHANGED <<rows, kind, fate, queue>>
    BY <1>0, <1>4, <2>2, CursorStepKeepsInvariant DEF TypeOK, coap
  <2>3. QED
    BY <1>4, <2>1, <2>2 DEF ChgCmd
<1>5. ASSUME NEW i \in Id, HandleChg(i)
      PROVE  IInv'
  <2>1. Up /\ i \in Queued
    BY <1>5, VisitedIsQueued DEF HandleChg, Visit
  <2>2. QED
    BY <1>4, <1>5, <2>1 DEF HandleChg, Visit
<1>6. ASSUME NEW i \in Id, ChgCmdFaults(i)
      PROVE  IInv'
  <2>1. rows' \in [Id -> RowState]
    BY <1>0, <1>6 DEF ChgCmdFaults, TypeOK, RowState
  <2>2. QED
    BY <1>6, <2>1, DeathKeepsInvariant DEF ChgCmdFaults
<1>7. ASSUME NEW i \in Id, HandleLogin(i)
      PROVE  IInv'
  <2>1. Up /\ i \in Queued
    BY <1>7, VisitedIsQueued DEF HandleLogin, Visit
  <2>2. /\ queue \in Seq(Id) /\ IsInjective(queue) /\ Queued = Pending
        /\ rows \in [Id -> RowState] /\ rows[i] = "pending"
    BY <2>1 DEF IInv, TypeOK, QueueIsPendingRows, Pending
  <2>3. Index(i) \in 1..Len(queue) /\ queue[Index(i)] = i
    BY <2>1, <2>2, IndexProperties
  <2>4. /\ queue' \in Seq(Id)
        /\ Queued' = Queued \ {i}
        /\ IsInjective(queue')
    <3>1. queue' = Without(queue, Index(i))
      BY <1>7 DEF HandleLogin
    <3>2. QED
      BY <2>2, <2>3, <3>1, WithoutProperties DEF Queued
  <2>5. rows' = [rows EXCEPT ![i] = "handled"]
    BY <1>7 DEF HandleLogin
  <2>6. rows' \in [Id -> RowState] /\ Pending' = Pending \ {i}
    BY <2>2, <2>5 DEF Pending, RowState
  <2>7. \/ queue' = <<>> /\ cursor' = Empty /\ mpc' = "idle"
        \/ queue' # <<>> /\ cursor' = Live(queue'[1]) /\ mpc' = "visit"
    BY <1>7 DEF HandleLogin
  <2>8. queue' # <<>> => queue'[1] \in Queued' /\ queue'[1] \in Id
    BY <2>4 DEF Queued, Range
  <2>9. UNCHANGED <<kind, fate, next, cpc, cid, cptr>> /\ visiting' = TRUE
    BY <1>7 DEF HandleLogin, Visit, coap
  <2>10. cursor' \in Cursors /\ CursorIsUsable'
    BY <2>7, <2>8 DEF Cursors, CursorIsUsable, Empty, Live
  <2>11. TypeOK'
    BY <1>0, <2>4, <2>6, <2>7, <2>9, <2>10 DEF TypeOK
  <2>12. QueueIsPendingRows'
    BY <2>2, <2>4, <2>6 DEF QueueIsPendingRows
  <2>13. ReservationIsFresh'
    BY <2>2, <2>5, <2>9, ReservationKept DEF IInv, TypeOK, ReservationIsFresh
  <2>14. Control'
    BY <1>0, <2>1, <2>7, <2>9 DEF Control, Live, Up
  <2>15. QED
    BY <2>10, <2>11, <2>12, <2>13, <2>14 DEF IInv
<1>8. CASE WalkPasses
  <2>1. TypeOK' /\ Queued' = Queued /\ Pending' = Pending
    BY <1>0, <1>8 DEF WalkPasses, durable, coap, TypeOK, Queued, Pending
  <2>2. QED
    BY <1>0, <1>8, <2>1 DEF WalkPasses, durable, coap, IInv, QueueIsPendingRows,
       CursorIsUsable, ReservationIsFresh, Control, Up
<1>9. CASE WalkHandles
  <2>1. Up /\ cursor.id \in Queued /\ cursor.id \in Id
    BY <1>0, <1>9 DEF WalkHandles, Control, IInv, CursorIsUsable,
       QueueIsPendingRows, Pending
  <2>2. QED
    BY <1>0, <1>4, <1>9, <2>1 DEF WalkHandles, TypeOK
<1>10. CASE WalkFaults
  <2>1. cursor.id \in Id
    BY <1>0, <1>10 DEF WalkFaults, Control, IInv, CursorIsUsable,
       QueueIsPendingRows, Pending
  <2>2. QED
    BY <1>6, <1>10, <2>1 DEF WalkFaults
<1>11. CASE WalkAdvances
  <2>1. /\ Up
        /\ \/ cursor' = Null /\ mpc' = "idle"
           \/ (\E i \in Queued : cursor' = Live(i)) /\ mpc' = "visit"
    <3>1. CASE Advance = Null
      BY <1>11, <3>1 DEF WalkAdvances
    <3>2. CASE Advance # Null
      BY <1>11, <3>2, CursorMoves DEF WalkAdvances
    <3>3. QED
      BY <3>1, <3>2
  <2>2. QED
    BY <1>0, <1>11, <2>1, CursorStepKeepsInvariant
    DEF WalkAdvances, durable, coap, TypeOK, Live
<1>12. CASE StaleLink
  BY <1>0, <1>12, DeathKeepsInvariant DEF StaleLink, durable, TypeOK
<1>13. ASSUME NEW i \in Id, HandleChgFaults(i)
       PROVE  IInv'
  BY <1>6, <1>13 DEF HandleChgFaults
<1>14. QED
  BY <1>1, <1>2, <1>3, <1>5, <1>7, <1>8, <1>9, <1>10, <1>11, <1>12, <1>13
  DEF Handler

LEMMA CoapKeepsInvariant == IInv /\ Coap => IInv'
<1> SUFFICES ASSUME IInv, Coap PROVE IInv'
  OBVIOUS
<1>0. TypeOK /\ Control
  BY DEF IInv
<1>1. ASSUME NEW i \in Id, PutCreate(i)
      PROVE  IInv'
  <2>1. /\ rows' = [rows EXCEPT ![i] = "empty"]
        /\ rows \in [Id -> RowState]
        /\ \A j \in Id : rows[j] # "absent" => j < i
    BY <1>0, <1>1 DEF PutCreate, NewId, TypeOK
  <2>2. rows[i] = "absent" /\ cid = 0
    BY <1>0, <1>1, <2>1 DEF PutCreate, NewId, Control, Id
  <2>3. rows' \in [Id -> RowState] /\ Pending' = Pending
    BY <2>1, <2>2 DEF Pending, RowState
  <2>4. UNCHANGED <<kind, fate, queue, cursor, next, visiting, mpc, cptr>>
    BY <1>1 DEF PutCreate, NewId, main
  <2>5. cid' = i /\ cpc' = "built" /\ Up
    BY <1>1 DEF PutCreate, NewId
  <2>6. TypeOK' /\ Queued' = Queued
    BY <1>0, <2>3, <2>4, <2>5 DEF TypeOK, Queued
  <2>7. ReservationIsFresh'
    BY <2>1, <2>5 DEF ReservationIsFresh, Id
  <2>8. Control'
    BY <1>0, <2>4, <2>5 DEF Control, Up, Id
  <2>9. QED
    BY <2>3, <2>4, <2>6, <2>7, <2>8 DEF IInv, QueueIsPendingRows, CursorIsUsable, Up
<1>2. CASE PutReject
  <2>1. TypeOK' /\ Queued' = Queued /\ Pending' = Pending
    BY <1>0, <1>2 DEF PutReject, durable, main, TypeOK, Queued, Pending
  <2>2. QED
    BY <1>0, <1>2, <2>1 DEF PutReject, durable, main, IInv, QueueIsPendingRows,
       CursorIsUsable, ReservationIsFresh, Control, Up
<1>3. ASSUME NEW k \in Kind, PutAdd(k)
      PROVE  IInv'
  <2>1. cid \in Id /\ rows[cid] = "empty" /\ Up
    BY <1>0, <1>3 DEF PutAdd, Control, TypeOK, IInv, ReservationIsFresh
  <2>2. /\ queue \in Seq(Id) /\ IsInjective(queue) /\ Queued = Pending
        /\ rows \in [Id -> RowState]
    BY <1>0, <2>1 DEF TypeOK, IInv, QueueIsPendingRows
  <2>3. cid \notin Range(queue)
    BY <2>1, <2>2 DEF Queued, Pending
  <2>4. queue' = Append(queue, cid) /\ rows' = [rows EXCEPT ![cid] = "pending"]
    BY <1>3 DEF PutAdd
  <2>5. /\ queue' \in Seq(Id)
        /\ Queued' = Queued \union {cid}
        /\ IsInjective(queue')
    BY <2>1, <2>2, <2>3, <2>4, EnqueueProperties DEF Queued
  <2>6. rows' \in [Id -> RowState] /\ Pending' = Pending \union {cid}
    BY <2>1, <2>2, <2>4 DEF Pending, RowState
  <2>7. /\ cursor' = Live(cid) /\ cid' = 0 /\ cpc' = "first"
        /\ kind' = [kind EXCEPT ![cid] = k]
        /\ mpc' = "idle"
        /\ UNCHANGED <<fate, next, visiting, mpc, cptr>>
    BY <1>3 DEF PutAdd, Unlocked, main
  <2>8. cursor' \in Cursors /\ CursorIsUsable'
    BY <2>1, <2>5, <2>7 DEF Cursors, CursorIsUsable, Live
  <2>9. TypeOK'
    BY <1>0, <2>5, <2>6, <2>7, <2>8, LbusAssumption DEF TypeOK
  <2>10. QED
    BY <1>0, <2>1, <2>2, <2>5, <2>6, <2>7, <2>8, <2>9
    DEF IInv, QueueIsPendingRows, ReservationIsFresh, Control, Up
<1>4. CASE PutExits
  BY <1>0, <1>4, DeathKeepsInvariant DEF PutExits, durable, TypeOK
<1>5. CASE GetStart
  <2>1. TypeOK' /\ Queued' = Queued /\ Pending' = Pending
    BY <1>0, <1>5 DEF GetStart, durable, main, TypeOK, Queued, Pending
  <2>2. QED
    BY <1>0, <1>5, <2>1 DEF GetStart, durable, main, IInv, QueueIsPendingRows,
       CursorIsUsable, ReservationIsFresh, Control, Up
<1>6. CASE WalkFirst
  <2>1. \/ cursor' = Empty /\ queue = <<>>
        \/ \E i \in Queued : cursor' = Live(i)
    BY <1>6, CursorMoves DEF WalkFirst
  <2>2. QED
    BY <1>0, <1>6, <2>1, CursorStepKeepsInvariant
    DEF WalkFirst, Unlocked, durable, main, TypeOK
<1>7. CASE ReadCursor
  <2>1. cptr' \in Id \union {0}
    BY <1>0, <1>7 DEF ReadCursor, IInv, CursorIsUsable, QueueIsPendingRows, Pending
  <2>2. cpc' \in {"idle", "print"} /\ cpc = "read"
    BY <1>7 DEF ReadCursor
  <2>3. UNCHANGED <<rows, kind, fate, queue, cursor, next, visiting, mpc, cid>>
    BY <1>7 DEF ReadCursor, durable, main
  <2>4. TypeOK' /\ Queued' = Queued /\ Pending' = Pending
    BY <1>0, <2>1, <2>2, <2>3 DEF TypeOK, Queued, Pending
  <2>5. QED
    BY <1>0, <2>2, <2>3, <2>4 DEF IInv, QueueIsPendingRows,
       CursorIsUsable, ReservationIsFresh, Control, Up
<1>8. CASE ReadFaults
  BY <1>0, <1>8, DeathKeepsInvariant DEF ReadFaults, durable, TypeOK
<1>9. CASE PrintThenNext
  <2>1. /\ Up
        /\ \/ cursor' = Null
           \/ \E i \in Queued : cursor' = Live(i)
    BY <1>9, CursorMoves DEF PrintThenNext
  <2>2. QED
    BY <1>0, <1>9, <2>1, CursorStepKeepsInvariant
    DEF PrintThenNext, Unlocked, durable, main, TypeOK
<1>10. QED
  BY <1>1, <1>2, <1>3, <1>4, <1>5, <1>6, <1>7, <1>8, <1>9 DEF Coap

LEMMA RestartKeepsInvariant == IInv /\ Restart => IInv'
<1> SUFFICES ASSUME IInv, Restart PROVE IInv'
  OBVIOUS
<1>1. TypeOK /\ Control
  BY DEF IInv
<1>2. /\ rows' = [i \in Id |-> IF rows[i] = "empty" THEN "absent" ELSE rows[i]]
      /\ UNCHANGED <<kind, next, visiting, mpc, cpc, cid, cptr>>
      /\ fate' = "up" /\ ~Up
  BY DEF Restart, Reload, main, coap
<1>3. rows' \in [Id -> RowState] /\ Pending' = Pending
  BY <1>1, <1>2 DEF TypeOK, Pending, RowState
<1>4. queue' \in Seq(Id) /\ Queued' = Pending /\ IsInjective(queue')
  <2>1. PICK n \in 0..MaxId : queue' \in Bijection(1..n, Pending)
    BY DEF Restart, Reload
  <2>2. queue' \in Seq(Pending) /\ Queued' = Pending /\ IsInjective(queue')
    BY <2>1, OrderProperties, LbusAssumption DEF Queued
  <2>3. Seq(Pending) \subseteq Seq(Id)
    BY SeqMonotonic DEF Pending
  <2>4. QED
    BY <2>2, <2>3
<1>5. cursor' = IF queue' = <<>> THEN Empty ELSE Live(queue'[Len(queue')])
  BY DEF Restart, Reload
<1>6. queue' # <<>> => queue'[Len(queue')] \in Queued' /\ queue'[Len(queue')] \in Id
  <2>1. queue' # <<>> => Len(queue') \in 1..Len(queue')
    BY <1>4, EmptySeq
  <2>2. QED
    BY <1>4, <2>1 DEF Queued, Range
<1>7. cursor' \in Cursors /\ CursorIsUsable'
  BY <1>5, <1>6 DEF Cursors, CursorIsUsable, Empty, Live
<1>8. TypeOK'
  BY <1>1, <1>2, <1>3, <1>4, <1>7 DEF TypeOK
<1>9. QED
  BY <1>1, <1>2, <1>3, <1>4, <1>7, <1>8
  DEF IInv, QueueIsPendingRows, ReservationIsFresh, Control, Up

LEMMA StepKeepsInvariant == IInv /\ [Next]_vars => IInv'
<1> SUFFICES ASSUME IInv, [Next]_vars PROVE IInv'
  OBVIOUS
<1>1. ASSUME NEW i \in Id, Tick(i)
      PROVE  IInv'
  <2>1. TypeOK' /\ Queued' = Queued /\ Pending' = Pending
    BY <1>1 DEF Tick, durable, main, coap, IInv, TypeOK, Queued, Pending
  <2>2. QED
    BY <1>1, <2>1 DEF Tick, durable, main, coap, IInv, QueueIsPendingRows,
       CursorIsUsable, ReservationIsFresh, Control, Up
<1>2. CASE Crash
  BY <1>2, DeathKeepsInvariant DEF Crash, durable, IInv, TypeOK
<1>3. CASE UNCHANGED vars
  <2>1. TypeOK' /\ Queued' = Queued /\ Pending' = Pending
    BY <1>3 DEF vars, IInv, TypeOK, Queued, Pending
  <2>2. QED
    BY <1>3, <2>1 DEF vars, IInv, QueueIsPendingRows,
       CursorIsUsable, ReservationIsFresh, Control, Up
<1>4. QED
  BY <1>1, <1>2, <1>3, HandlerKeepsInvariant, CoapKeepsInvariant,
     RestartKeepsInvariant DEF Next

-----------------------------------------------------------------------------
(* The theorems *)

\* The inductive invariant holds in every state of the command bus.
THEOREM Invariance == Spec => []IInv
  BY InitInvariant, StepKeepsInvariant, PTL DEF Spec

\* Every variable of the command bus keeps its type (lbus.c, whole file).
THEOREM TypeCorrect == Spec => []TypeOK
<1>1. IInv => TypeOK
  BY DEF IInv
<1>2. QED
  BY <1>1, Invariance, PTL

\* The list that lbus_add(), lbus_remove() and lbus_load() maintain holds
\* exactly the pending rows of table lbus, each once.
THEOREM ListMatchesTable == Spec => []QueueIsPendingRows
<1>1. IInv => QueueIsPendingRows
  BY DEF IInv
<1>2. QED
  BY <1>1, Invariance, PTL

\* lbusconPtr never leads to a command that has left the list, although
\* lbus_remove() does not move it and both threads use it.
THEOREM CursorStaysUsable == Spec => []CursorIsUsable
<1>1. IInv => CursorIsUsable
  BY DEF IInv
<1>2. QED
  BY <1>1, Invariance, PTL

\* The number that getNewId() gives to a new command is nobody else's.
THEOREM ReservationStaysFresh == Spec => []ReservationIsFresh
<1>1. IInv => ReservationIsFresh
  BY DEF IInv
<1>2. QED
  BY <1>1, Invariance, PTL

-----------------------------------------------------------------------------
(* Refinement: every step of Lbus is a step of CommandBus or leaves the    *)
(* table, the set of queued commands and the process alone                 *)

LEMMA HandledIsComplete ==
  ASSUME IInv, IInv', Up, NEW i \in Queued,
         rows' = [rows EXCEPT ![i] = "handled"], fate' = fate
  PROVE  Bus!Complete(i)
<1>1. rows \in [Id -> RowState] /\ Queued = Pending /\ Queued' = Pending' /\ Up'
  BY DEF IInv, TypeOK, QueueIsPendingRows, Up
<1>2. Pending' = Pending \ {i}
  BY <1>1 DEF Pending
<1>3. QED
  BY <1>1, <1>2 DEF Bus!Complete, Up

LEMMA DeathIsStop ==
  ASSUME IInv, Up, NEW how \in {"off", "exit", "segv"}, Die(how),
         \/ rows' = rows
         \/ \E i \in Queued : rows' = [rows EXCEPT ![i] = "handled"]
  PROVE  Bus!Stop
<1>1. Queued' = {}
  BY DEF Die, Queued, Range
<1>2. Up = TRUE /\ Up' = FALSE
  BY DEF Die, Up
<1>3. QED
  BY <1>1, <1>2 DEF Bus!Stop

LEMMA HandlerRefines ==
  ASSUME IInv, IInv', Handler
  PROVE  Bus!Next \/ UNCHANGED Bus!vars
<1>1. ASSUME NEW i \in Queued, Up, SetCmdHandled(i)
      PROVE  Bus!Next
  <2>1. Bus!Complete(i) /\ i \in Id
    BY <1>1, HandledIsComplete DEF SetCmdHandled, IInv, QueueIsPendingRows, Pending
  <2>2. QED
    BY <2>1 DEF Bus!Next, Bus!Id, Id
<1>2. ASSUME NEW i \in Queued, Up, ChgCmd(i)
      PROVE  Bus!Next \/ UNCHANGED Bus!vars
  <2>1. SetCmdHandled(i) \/ UNCHANGED <<rows, fate, queue>>
    BY <1>2 DEF ChgCmd
  <2>2. QED
    BY <1>1, <1>2, <2>1 DEF Bus!vars, Up, Queued
<1>3. ASSUME NEW i \in Queued, Up, ChgCmdFaults(i)
      PROVE  Bus!Next
  BY <1>3, DeathIsStop DEF ChgCmdFaults, Bus!Next
<1>4. ASSUME UNCHANGED <<rows, fate, queue>>
      PROVE  UNCHANGED Bus!vars
  BY <1>4 DEF Bus!vars, Up, Queued
<1>5. CASE HandlerIdle \/ WalkPasses \/ WalkAdvances
  BY <1>4, <1>5 DEF HandlerIdle, WalkPasses, WalkAdvances, durable
<1>6. ASSUME NEW i \in Id, HandlerWaits(i) \/ HandleStuck(i)
      PROVE  UNCHANGED Bus!vars
  BY <1>4, <1>6 DEF HandlerWaits, HandleStuck, Keep
<1>7. ASSUME NEW i \in Id, HandleDelOrUnknown(i) \/ HandleChg(i)
      PROVE  Bus!Next \/ UNCHANGED Bus!vars
  <2>1. Up /\ i \in Queued
    BY <1>7, VisitedIsQueued DEF HandleDelOrUnknown, HandleChg, Visit
  <2>2. QED
    BY <1>1, <1>2, <1>7, <2>1 DEF HandleDelOrUnknown, HandleChg
<1>8. ASSUME NEW i \in Id, HandleChgFaults(i)
      PROVE  Bus!Next
  <2>1. Up /\ i \in Queued
    BY <1>8, VisitedIsQueued DEF HandleChgFaults
  <2>2. QED
    BY <1>3, <1>8, <2>1 DEF HandleChgFaults
<1>9. ASSUME NEW i \in Id, HandleLogin(i)
      PROVE  Bus!Next
  <2>1. Up /\ i \in Queued
    BY <1>9, VisitedIsQueued DEF HandleLogin, Visit
  <2>2. rows' = [rows EXCEPT ![i] = "handled"] /\ fate' = fate
    BY <1>9 DEF HandleLogin
  <2>3. Bus!Complete(i)
    BY <2>1, <2>2, HandledIsComplete
  <2>4. QED
    BY <1>9, <2>3 DEF Bus!Next, Bus!Id, Id
<1>10. mpc = "visit" /\ Up => cursor.id \in Queued
  BY DEF IInv, Control, CursorIsUsable
<1>11. CASE WalkHandles
  BY <1>2, <1>10, <1>11 DEF WalkHandles
<1>12. CASE WalkFaults
  BY <1>3, <1>10, <1>12 DEF WalkFaults
<1>13. CASE StaleLink
  BY <1>13, DeathIsStop DEF StaleLink, durable, Bus!Next
<1>14. QED
  BY <1>5, <1>6, <1>7, <1>8, <1>9, <1>11, <1>12, <1>13 DEF Handler

LEMMA CoapRefines ==
  ASSUME IInv, IInv', Coap
  PROVE  Bus!Next \/ UNCHANGED Bus!vars
<1>1. ASSUME UNCHANGED <<rows, fate, queue>>
      PROVE  UNCHANGED Bus!vars
  BY <1>1 DEF Bus!vars, Up, Queued
<1>2. CASE PutReject \/ GetStart \/ WalkFirst \/ ReadCursor \/ PrintThenNext
  BY <1>1, <1>2 DEF PutReject, GetStart, WalkFirst, ReadCursor, PrintThenNext,
     durable
<1>3. ASSUME NEW i \in Id, PutCreate(i)
      PROVE  Bus!Next
  <2>1. \A j \in Id : j >= i => rows[j] = "absent"
    BY <1>3 DEF PutCreate, NewId, Id
  <2>2. Queued' = Queued /\ Up /\ Up'
    BY <1>3 DEF PutCreate, NewId, Queued, Up
  <2>3. Bus!Reserve(i)
    BY <1>3, <2>1, <2>2 DEF PutCreate, NewId, Bus!Reserve, Bus!Id, Id
  <2>4. QED
    BY <2>3 DEF Bus!Next, Bus!Id, Id
<1>4. ASSUME NEW k \in Kind, PutAdd(k)
      PROVE  Bus!Next
  <2>1. cid \in Id /\ rows[cid] = "empty" /\ Up /\ Up'
    BY <1>4 DEF PutAdd, Control, TypeOK, IInv, ReservationIsFresh, Up
  <2>2. rows' = [rows EXCEPT ![cid] = "pending"]
    BY <1>4 DEF PutAdd
  <2>3. Queued' = Pending' /\ Queued = Pending /\ rows \in [Id -> RowState]
    BY <2>1 DEF IInv, TypeOK, QueueIsPendingRows
  <2>4. Queued' = Queued \union {cid}
    BY <2>1, <2>2, <2>3 DEF Pending
  <2>5. Bus!Accept(cid)
    BY <2>1, <2>2, <2>4 DEF Bus!Accept
  <2>6. QED
    BY <2>1, <2>5 DEF Bus!Next, Bus!Id, Id
<1>5. CASE PutExits \/ ReadFaults
  BY <1>5, DeathIsStop DEF PutExits, ReadFaults, durable, Bus!Next
<1>6. QED
  BY <1>2, <1>3, <1>4, <1>5 DEF Coap

LEMMA StepRefines ==
  ASSUME IInv, IInv', [Next]_vars
  PROVE  Bus!Next \/ UNCHANGED Bus!vars
<1>1. CASE UNCHANGED vars
  BY <1>1 DEF vars, Bus!vars, Up, Queued
<1>2. ASSUME NEW i \in Id, Tick(i)
      PROVE  UNCHANGED Bus!vars
  BY <1>2 DEF Tick, durable, Bus!vars, Up, Queued
<1>3. CASE Crash
  BY <1>3, DeathIsStop DEF Crash, durable, Bus!Next
<1>4. CASE Restart
  <2>1. ~Up /\ Up'
    BY <1>4 DEF Restart, Reload, Up
  <2>2. rows' = [i \in Id |-> IF rows[i] = "empty" THEN "absent" ELSE rows[i]]
    BY <1>4 DEF Restart, Reload
  <2>3. Queued' = Pending' /\ rows \in [Id -> RowState]
    BY <2>1 DEF IInv, TypeOK, QueueIsPendingRows
  <2>4. Pending' = Pending
    BY <2>2, <2>3 DEF Pending
  <2>5. Bus!Start
    BY <2>1, <2>2, <2>3, <2>4 DEF Bus!Start, Bus!Id, Id, Pending
  <2>6. QED
    BY <2>5 DEF Bus!Next
<1>5. QED
  BY <1>1, <1>2, <1>3, <1>4, HandlerRefines, CoapRefines DEF Next

\* The lists, cursors and threads of lbus.c implement the durable bus of
\* numbered commands that CommandBus specifies.
THEOREM Refinement == Spec => ImplementsBus
<1>1. Init => Bus!Init
  BY DEF Init, Bus!Init, Bus!Id, Id, Up, Queued, Range
<1>2. IInv /\ IInv' /\ [Next]_vars => [Bus!Next]_(Bus!vars)
  BY StepRefines
<1>3. QED
  BY <1>1, <1>2, Invariance, PTL DEF Spec, ImplementsBus, Bus!Spec

\* No step of the gateway, restart included, takes back that a command was
\* handled, loses an accepted command or changes its content.
THEOREM RowsStayFinal == Spec => RowsAreFinal
<1>1. ASSUME IInv, IInv', [Next]_vars
      PROVE  RowsAdvance
  <2>1. rows \in [Id -> RowState] /\ Queued \subseteq Pending
    <3>1. ~Up => Queued = {}
      BY <1>1 DEF IInv, Control, Queued, Range
    <3>2. Up => Queued = Pending
      BY <1>1 DEF IInv, QueueIsPendingRows
    <3>3. rows \in [Id -> RowState]
      BY <1>1 DEF IInv, TypeOK
    <3>4. QED
      BY <3>1, <3>2, <3>3
  <2>2. \/ UNCHANGED rows
        \/ \E i \in Id : rows[i] = "absent" /\ rows' = [rows EXCEPT ![i] = "empty"]
        \/ \E i \in Id : rows[i] = "empty" /\ rows' = [rows EXCEPT ![i] = "pending"]
        \/ \E i \in Queued : rows' = [rows EXCEPT ![i] = "handled"]
        \/ rows' = [i \in Id |-> IF rows[i] = "empty" THEN "absent" ELSE rows[i]]
    <3>1. Bus!Next \/ UNCHANGED Bus!vars
      BY <1>1, StepRefines
    <3>2. CASE UNCHANGED Bus!vars
      BY <3>2 DEF Bus!vars
    <3>3. ASSUME NEW i \in Id, Bus!Reserve(i)
          PROVE  rows[i] = "absent" /\ rows' = [rows EXCEPT ![i] = "empty"]
      BY <3>3 DEF Bus!Reserve, Bus!Id, Id
    <3>4. ASSUME NEW i \in Id, Bus!Accept(i)
          PROVE  rows[i] = "empty" /\ rows' = [rows EXCEPT ![i] = "pending"]
      BY <3>4 DEF Bus!Accept
    <3>5. ASSUME NEW i \in Id, Bus!Complete(i)
          PROVE  i \in Queued /\ rows' = [rows EXCEPT ![i] = "handled"]
      BY <3>5 DEF Bus!Complete
    <3>6. CASE Bus!Stop
      BY <3>6 DEF Bus!Stop
    <3>7. CASE Bus!Start
      BY <3>7 DEF Bus!Start, Bus!Id, Id
    <3>8. QED
      BY <3>1, <3>2, <3>3, <3>4, <3>5, <3>6, <3>7 DEF Bus!Next, Bus!Id, Id
  <2>3. \A i \in Id :
          /\ rows[i] = "handled" => rows'[i] = "handled"
          /\ rows[i] = "pending" => rows'[i] \in {"pending", "handled"}
    BY <2>1, <2>2 DEF Pending
  <2>4. \A i \in Id : rows[i] \in {"pending", "handled"} => kind'[i] = kind[i]
    <3>1. ASSUME NEW k \in Kind, PutAdd(k)
          PROVE  /\ cid \in Id /\ rows[cid] = "empty"
                 /\ kind' = [kind EXCEPT ![cid] = k]
      BY <1>1, <3>1 DEF PutAdd, Control, TypeOK, IInv, ReservationIsFresh
    <3>2. UNCHANGED kind \/ \E k \in Kind : PutAdd(k)
      BY <1>1 DEF Next, vars, Handler, HandlerIdle, HandlerWaits,
         HandleDelOrUnknown, HandleStuck, HandleChg, HandleChgFaults,
         HandleLogin, WalkPasses, WalkHandles, WalkFaults, WalkAdvances,
         StaleLink, ChgCmd, ChgCmdFaults, SetCmdHandled, Keep, durable, Coap,
         PutCreate, PutReject, PutExits, GetStart, WalkFirst, ReadCursor,
         ReadFaults, PrintThenNext, Tick, Crash, Restart
    <3>3. kind \in [Id -> AllKinds \union {"none"}]
      BY <1>1 DEF IInv, TypeOK
    <3>4. QED
      BY <3>1, <3>2, <3>3
  <2>5. QED
    BY <2>3, <2>4 DEF RowsAdvance
<1>2. QED
  BY <1>1, Invariance, PTL DEF Spec, RowsAreFinal
=============================================================================

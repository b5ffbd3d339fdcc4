-------------------------- MODULE CommandBusProofs --------------------------
(* What CommandBus promises, and with it everything that implements it.     *)
EXTENDS CommandBus, TLAPS

IInv == TypeOK /\ NothingLost

\* A number that was given to a command stays with it: an accepted command
\* stays accepted or is carried out, a command that was carried out stays so.
Promise == \A i \in Id :
              /\ rows[i] = "pending" => rows'[i] \in {"pending", "handled"}
              /\ rows[i] = "handled" => rows'[i] = "handled"

LEMMA InitInvariant == Init => IInv
BY DEF Init, IInv, TypeOK, NothingLost, RowState

LEMMA NextInvariant == IInv /\ [Next]_vars => IInv'
<1> SUFFICES ASSUME IInv, [Next]_vars PROVE IInv'
  OBVIOUS
<1> USE DEF IInv, TypeOK, NothingLost, RowState
<1>1. ASSUME NEW i \in Id, Reserve(i) PROVE IInv'
  BY <1>1 DEF Reserve, Id
<1>2. ASSUME NEW i \in Id, Accept(i) PROVE IInv'
  BY <1>2 DEF Accept
<1>3. ASSUME NEW i \in Id, Complete(i) PROVE IInv'
  BY <1>3 DEF Complete
<1>4. CASE Stop
  BY <1>4 DEF Stop
<1>5. CASE Start
  BY <1>5 DEF Start
<1>6. CASE UNCHANGED vars
  BY <1>6 DEF vars
<1> QED
  BY <1>1, <1>2, <1>3, <1>4, <1>5, <1>6 DEF Next

\* While the gateway runs, it will visit exactly the pending rows: lbus_add()
\* and lbus_load() lose no command and bring back no handled one.
THEOREM NothingIsLost == Spec => []NothingLost
<1>1. IInv => NothingLost
  BY DEF IInv
<1> QED
  BY <1>1, InitInvariant, NextInvariant, PTL DEF Spec

LEMMA StepKeepsPromise == IInv /\ [Next]_vars => Promise
<1> SUFFICES ASSUME IInv, [Next]_vars, NEW k \in Id
             PROVE /\ rows[k] = "pending" => rows'[k] \in {"pending", "handled"}
                   /\ rows[k] = "handled" => rows'[k] = "handled"
  BY DEF Promise
<1> USE DEF IInv, TypeOK, NothingLost
<1>1. ASSUME NEW i \in Id, Reserve(i) \/ Accept(i) \/ Complete(i)
      PROVE /\ rows[k] = "pending" => rows'[k] \in {"pending", "handled"}
            /\ rows[k] = "handled" => rows'[k] = "handled"
  <2>1. CASE Reserve(i)
    <3>1. rows[i] = "absent"
      BY <2>1 DEF Reserve, Id
    <3> QED
      BY <3>1, <2>1 DEF Reserve
  <2>2. CASE Accept(i)
    BY <2>2 DEF Accept
  <2>3. CASE Complete(i)
    <3>1. rows[i] = "pending"
      BY <2>3 DEF Complete
    <3> QED
      BY <3>1, <2>3 DEF Complete
  <2> QED
    BY <1>1, <2>1, <2>2, <2>3
<1>2. CASE Stop
  BY <1>2 DEF Stop
<1>3. CASE Start
  BY <1>3 DEF Start
<1>4. CASE UNCHANGED vars
  BY <1>4 DEF vars
<1> QED
  BY <1>1, <1>2, <1>3, <1>4 DEF Next

\* No step, a crash or a restart included, forgets an accepted command or
\* brings back one that was carried out (setCmdHandled(), lbus_load()).
THEOREM PromiseIsKept == Spec => [][Promise]_vars
<1>1. Spec => []IInv
  BY InitInvariant, NextInvariant, PTL DEF Spec
<1>2. IInv /\ [Next]_vars => [Promise]_vars
  BY StepKeepsPromise
<1> QED
  BY <1>1, <1>2, PTL DEF Spec
=============================================================================

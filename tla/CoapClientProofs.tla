-------------------------- MODULE CoapClientProofs --------------------------
(***************************************************************************)
(* Proofs about the requests of the web interface, CoapClient.tla, for all *)
(* sets of requests, numbers of sockets and of transmissions, and any      *)
(* number of messages lost or delivered twice.                             *)
(***************************************************************************)
EXTENDS CoapClient, TLAPS

\* A request is transmitted only after it was handed over, and nothing is under way
\* before.
Order == /\ \A r \in Request :
              /\ caller[r] \in {"new", "connected"} =>
                   ~sendBuffer[r] /\ retransmissionCounter[r] = 0
              /\ sendBuffer[r] => retransmissionCounter[r] = 0
              /\ conMsg[r] => retransmissionCounter[r] # 0
         /\ \A m \in net : retransmissionCounter[m[1]] # 0

\* A request that was answered is confirmed before it is reported; one that is
\* reported as failed was given up.
Confirmed == \A r \in Request :
  /\ worker[r] = "responds" \/ recvState[r] = "ok" =>
       /\ retransmissionCounter[r] # 0 /\ ~conMsg[r]
       /\ payload[r] = "value" \/ r \in overtaken
  /\ recvState[r] = "failure" =>
       retransmissionCounter[r] = MAX_RETRANSMIT /\ ~conMsg[r]

IInv == TypeOK /\ Order /\ Confirmed /\ ErrorIsExplained

-----------------------------------------------------------------------------
(* The invariant is inductive *)

LEMMA InitHolds == Init => IInv
<1> SUFFICES ASSUME Init PROVE IInv
  OBVIOUS
<1>1. nevent \in 0..MaxEvents /\ 0 \in 0..MAX_RETRANSMIT
  BY ClientAssumption DEF Init
<1>2. TypeOK
  BY <1>1 DEF Init, TypeOK
<1>3. Order /\ Confirmed
  BY DEF Init, Order, Confirmed
<1>4. ErrorIsExplained
  BY DEF Init, ErrorIsExplained, Request
<1>5. QED
  BY <1>2, <1>3, <1>4 DEF IInv

LEMMA StepHolds == IInv /\ [Next]_vars => IInv'
<1> SUFFICES ASSUME IInv, [Next]_vars PROVE IInv'
  OBVIOUS
<1> USE DEF IInv
<1>1. ASSUME NEW r \in Request, Connect(r) PROVE IInv'
  <2>1. TypeOK'
    BY <1>1 DEF Connect, TypeOK
  <2>2. Order'
    BY <1>1 DEF Connect, Order
  <2>3. Confirmed'
    BY <1>1 DEF Connect, Confirmed
  <2>4. ErrorIsExplained'
    BY <1>1 DEF Connect, ErrorIsExplained
  <2>5. QED
    BY <2>1, <2>2, <2>3, <2>4
<1>2. ASSUME NEW r \in Request, ConnectFails(r) PROVE IInv'
  <2>1. TypeOK'
    BY <1>2, ClientAssumption DEF ConnectFails, thread, Event, Sent, TypeOK
  <2>2. Order'
    BY <1>2 DEF ConnectFails, thread, Sent, Order
  <2>3. Confirmed'
    BY <1>2 DEF ConnectFails, thread, Confirmed
  <2>4. ErrorIsExplained'
    BY <1>2 DEF ConnectFails, thread, ErrorIsExplained
  <2>5. QED
    BY <2>1, <2>2, <2>3, <2>4
<1>3. ASSUME NEW r \in Request, SendMessage(r) PROVE IInv'
  <2>1. TypeOK'
    BY <1>3 DEF SendMessage, TypeOK
  <2>2. Order'
    BY <1>3 DEF SendMessage, TypeOK, Order
  <2>3. Confirmed'
    BY <1>3 DEF SendMessage, Confirmed
  <2>4. ErrorIsExplained'
    BY <1>3 DEF SendMessage, ErrorIsExplained
  <2>5. QED
    BY <2>1, <2>2, <2>3, <2>4
<1>4. ASSUME NEW r \in Request, ClearPayload(r) PROVE IInv'
  <2>1. TypeOK'
    BY <1>4 DEF ClearPayload, thread, Sent, TypeOK
  <2>2. Order'
    BY <1>4 DEF ClearPayload, thread, Sent, Order
  <2>3. Confirmed'
    BY <1>4 DEF ClearPayload, thread, Confirmed
  <2>4. ErrorIsExplained'
    BY <1>4 DEF ClearPayload, thread, ErrorIsExplained
  <2>5. QED
    BY <2>1, <2>2, <2>3, <2>4
<1>5. ASSUME NEW r \in Request, Get(r) PROVE IInv'
  <2>1. TypeOK'
    BY <1>5 DEF Get, thread, TypeOK
  <2>2. Order'
    BY <1>5 DEF Get, thread, Order
  <2>3. Confirmed'
    BY <1>5 DEF Get, thread, Confirmed
  <2>4. ErrorIsExplained'
    BY <1>5 DEF Get, thread, TypeOK, Confirmed, ErrorIsExplained
  <2>5. QED
    BY <2>1, <2>2, <2>3, <2>4
<1>6. ASSUME NEW r \in Request, SendBufferedMessages(r) PROVE IInv'
  <2>0. /\ retransmissionCounter' \in [Request -> 0..MAX_RETRANSMIT]
        /\ retransmissionCounter'[r] # 0
        /\ \A q \in Request \ {r} : retransmissionCounter'[q] = retransmissionCounter[q]
        /\ net' \subseteq Request \X {"request", "response"} \X (1..MAX_RETRANSMIT)
        /\ \A m \in net' : m \in net \/ m[1] = r
        /\ conMsg' = [conMsg EXCEPT ![r] = TRUE] /\ timer' = [timer EXCEPT ![r] = TRUE]
    BY <1>6, ClientAssumption DEF SendBufferedMessages, Transmit, TypeOK, Order
  <2>1. TypeOK'
    BY <1>6, <2>0 DEF SendBufferedMessages, helper, TypeOK
  <2>2. Order'
    BY <1>6, <2>0 DEF SendBufferedMessages, helper, TypeOK, Order
  <2>3. Confirmed'
    BY <1>6, <2>0 DEF SendBufferedMessages, helper, Order, Confirmed
  <2>4. ErrorIsExplained'
    BY <1>6, <2>0 DEF SendBufferedMessages, helper, Order, ErrorIsExplained, Request
  <2>5. QED
    BY <2>1, <2>2, <2>3, <2>4
<1>7. ASSUME NEW r \in Request, Retransmit(r) PROVE IInv'
  <2>0. /\ retransmissionCounter' \in [Request -> 0..MAX_RETRANSMIT]
        /\ retransmissionCounter'[r] # 0
        /\ \A q \in Request \ {r} : retransmissionCounter'[q] = retransmissionCounter[q]
        /\ net' \subseteq Request \X {"request", "response"} \X (1..MAX_RETRANSMIT)
        /\ \A m \in net' : m \in net \/ m[1] = r
        /\ conMsg' = [conMsg EXCEPT ![r] = TRUE] /\ timer' = [timer EXCEPT ![r] = TRUE]
    BY <1>7, ClientAssumption DEF Retransmit, Transmit, TypeOK, maxRetransReached
  <2>1. TypeOK'
    BY <1>7, <2>0 DEF Retransmit, helper, TypeOK
  <2>2. Order'
    BY <1>7, <2>0 DEF Retransmit, helper, Order
  <2>3. Confirmed'
    BY <1>7, <2>0 DEF Retransmit, helper, Confirmed
  <2>4. ErrorIsExplained'
    BY <1>7, <2>0 DEF Retransmit, helper, ErrorIsExplained, Request
  <2>5. QED
    BY <2>1, <2>2, <2>3, <2>4
<1>8. ASSUME NEW r \in Request, LostConnection(r) PROVE IInv'
  <2>1. TypeOK'
    BY <1>8 DEF LostConnection, TypeOK
  <2>2. Order'
    BY <1>8 DEF LostConnection, Order
  <2>3. Confirmed'
    BY <1>8, ClientAssumption DEF LostConnection, maxRetransReached, TypeOK, Confirmed
  <2>4. ErrorIsExplained'
    BY <1>8 DEF LostConnection, ErrorIsExplained
  <2>5. QED
    BY <2>1, <2>2, <2>3, <2>4
<1>9. ASSUME NEW r \in Request, TimerOfConfirmed(r) PROVE IInv'
  <2>1. TypeOK'
    BY <1>9 DEF TimerOfConfirmed, helper, TypeOK
  <2>2. Order'
    BY <1>9 DEF TimerOfConfirmed, helper, Order
  <2>3. Confirmed'
    BY <1>9 DEF TimerOfConfirmed, helper, Confirmed
  <2>4. ErrorIsExplained'
    BY <1>9 DEF TimerOfConfirmed, helper, ErrorIsExplained
  <2>5. QED
    BY <2>1, <2>2, <2>3, <2>4
<1>10. ASSUME NEW r \in Request, Respond(r) PROVE IInv'
  <2>1. TypeOK'
    BY <1>10 DEF Respond, TypeOK
  <2>2. Order'
    BY <1>10 DEF Respond, Order
  <2>3. Confirmed'
    BY <1>10 DEF Respond, Confirmed
  <2>4. ErrorIsExplained'
    BY <1>10 DEF Respond, ErrorIsExplained
  <2>5. QED
    BY <2>1, <2>2, <2>3, <2>4
<1>11. ASSUME NEW m \in net, Receive(m) PROVE IInv'
  <2>1. TypeOK'
    BY <1>11, ClientAssumption DEF Receive, Taken, Event, TypeOK
  <2>2. Order'
    BY <1>11 DEF Receive, Taken, Order
  <2>3. Confirmed'
    BY <1>11 DEF Receive, TypeOK, Order, Confirmed
  <2>4. ErrorIsExplained'
    BY <1>11 DEF Receive, ErrorIsExplained
  <2>5. QED
    BY <2>1, <2>2, <2>3, <2>4
<1>12. ASSUME NEW m \in net, Answer(m) PROVE IInv'
  <2>1. TypeOK'
    BY <1>12, ClientAssumption DEF Answer, helper, thread, Event, TypeOK
  <2>2. Order'
    BY <1>12 DEF Answer, helper, thread, Order
  <2>3. Confirmed'
    BY <1>12 DEF Answer, helper, thread, Confirmed
  <2>4. ErrorIsExplained'
    BY <1>12 DEF Answer, helper, thread, ErrorIsExplained
  <2>5. QED
    BY <2>1, <2>2, <2>3, <2>4
<1>13. ASSUME NEW m \in net, Lose(m) PROVE IInv'
  <2>1. TypeOK'
    BY <1>13, ClientAssumption DEF Lose, helper, thread, Event, TypeOK
  <2>2. Order'
    BY <1>13 DEF Lose, helper, thread, Order
  <2>3. Confirmed'
    BY <1>13 DEF Lose, helper, thread, Confirmed
  <2>4. ErrorIsExplained'
    BY <1>13 DEF Lose, helper, thread, ErrorIsExplained
  <2>5. QED
    BY <2>1, <2>2, <2>3, <2>4
<1>14. CASE UNCHANGED vars
  BY <1>14 DEF vars, helper, thread, TypeOK, Order, Confirmed, ErrorIsExplained
<1>15. QED
  BY <1>1, <1>2, <1>3, <1>4, <1>5, <1>6, <1>7, <1>8, <1>9, <1>10, <1>11, <1>12, <1>13,
     <1>14 DEF Next, Ask, Work

-----------------------------------------------------------------------------
(* Theorems *)

\* The inductive invariant holds in every reachable state.
THEOREM Invariance == Spec => []IInv
<1>1. Init => IInv
  BY InitHolds
<1>2. IInv /\ [Next]_vars => IInv'
  BY StepHolds
<1>3. QED
  BY <1>1, <1>2, PTL DEF Spec

\* Type correctness of CoapClient; no request is transmitted more than
\* MAX_RETRANSMIT times.
THEOREM TypeCorrect == Spec => []TypeOK
<1>1. IInv => TypeOK
  BY DEF IInv
<1>2. QED
  BY <1>1, Invariance, PTL

\* LBusReceiver.get() reports an error only if no transmission was answered in time,
\* or the answer was overtaken by the clearing of the payload.
THEOREM ErrorsAreExplained == Spec => []ErrorIsExplained
<1>1. IInv => ErrorIsExplained
  BY DEF IInv
<1>2. QED
  BY <1>1, Invariance, PTL

\* Neither a timer of an earlier transmission nor a second answer takes back what
\* onResponse() has reported.
THEOREM SuccessStays == Spec => SuccessIsFinal
<1>1. IInv /\ [Next]_vars => [\A r \in Request : recvState[r] = "ok" => recvState'[r] = "ok"]_vars
  <2> SUFFICES ASSUME IInv, Next, NEW q \in Request, recvState[q] = "ok"
               PROVE  recvState'[q] = "ok"
    OBVIOUS
  <2>1. ASSUME NEW r \in Request, Connect(r) \/ ConnectFails(r) \/ Ask(r)
        PROVE  recvState' = recvState
    BY <2>1 DEF Connect, ConnectFails, Ask, SendMessage, ClearPayload, Get
  <2>2. ASSUME NEW r \in Request, Work(r)
        PROVE  recvState'[q] = "ok"
    <3>1. CASE SendBufferedMessages(r) \/ Retransmit(r) \/ TimerOfConfirmed(r)
      BY <3>1 DEF SendBufferedMessages, Retransmit, TimerOfConfirmed, helper
    <3>2. CASE Respond(r)
      BY <3>2 DEF Respond
    <3>3. CASE LostConnection(r)
      <4>1. r # q
        BY <3>3 DEF LostConnection, IInv, Confirmed
      <4>2. QED
        BY <3>3, <4>1 DEF LostConnection
    <3>4. QED
      BY <2>2, <3>1, <3>2, <3>3 DEF Work
  <2>3. ASSUME NEW m \in net, Receive(m) \/ Answer(m) \/ Lose(m)
        PROVE  recvState' = recvState
    BY <2>3 DEF Receive, Answer, Lose, helper
  <2>4. QED
    BY <2>1, <2>2, <2>3 DEF Next
<1>2. QED
  BY <1>1, Invariance, PTL DEF Spec, SuccessIsFinal
=============================================================================

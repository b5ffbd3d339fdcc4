------------------------------ MODULE CoapClient ------------------------------
(***************************************************************************)
(* Requests of the web interface to the gateway: LBusReceiver.get() and    *)
(* LBusSender.send() over CoapHelper (lieweb/src/lielas/core) and the CoAP *)
(* library in lieweb/src/org/ws4d/coap.                                    *)
(*                                                                         *)
(* Every request opens a socket with a worker thread of its own, neither   *)
(* of which ever ends.  The worker sends the request, sends it again if    *)
(* there is no answer in time, and calls back: onResponse() sets the       *)
(* payload and then recvState, onConnectionFailed() sets recvState.  The   *)
(* thread that asked polls recvState; it clears the payload after it has   *)
(* handed over the request.                                                *)
(*                                                                         *)
(* The handlers of the gateway, coapserver.c, fill the response that       *)
(* libcoap has made for the acknowledgement: each request is answered in   *)
(* one message.  What the client would do with a response of its own, an   *)
(* empty acknowledgement or a reset is therefore left out.                 *)
(*                                                                         *)
(* Writes are seen in the order of the program: what a virtual machine     *)
(* may make of the missing synchronisation is left out.                    *)
(***************************************************************************)
EXTENDS Integers, FiniteSets

CONSTANTS Gets,           \* requests for a value, by LBusReceiver
          Puts,           \* commands, by LBusSender
          MaxSockets,     \* sockets the process can open
          MAX_RETRANSMIT, \* transmissions of a request
          MaxEvents       \* bound: messages lost or delivered twice, names not resolved

Request == Gets \union Puts

ASSUME ClientAssumption == /\ Gets \cap Puts = {} /\ IsFiniteSet(Request)
                           /\ MAX_RETRANSMIT \in Nat \ {0}
                           /\ {MaxSockets, MaxEvents} \subseteq Nat

VARIABLES
  caller,     \* the thread that asks: new, connected, sent, waits, done
  recvState,  \* as in CoapHelper
  payload,    \* as in CoapHelper: the value of the answer or "empty"
  result,     \* what get() returned: the value or an error
  sendBuffer, \* the request is in the send buffer of its worker
  worker,     \* the worker: no socket, runs, or is in onResponse()
  conMsg,     \* the request is in timeoutConMsgMap
  timer,      \* the request is in timeoutQueue
  retransmissionCounter,
  net,        \* messages under way: request, direction, number of the transmission
  nevent,
  overtaken   \* history: the answer came before the payload was cleared

helper == <<caller, recvState, payload, result>>
thread == <<sendBuffer, worker, conMsg, timer, retransmissionCounter>>
vars == <<helper, thread, net, nevent, overtaken>>

TypeOK == /\ caller \in [Request -> {"new", "connected", "sent", "waits", "done"}]
          /\ recvState \in [Request -> {"pending", "ok", "failure"}]
          /\ payload \in [Request -> {"empty", "value"}]
          /\ result \in [Request -> {"none", "value", "error"}]
          /\ worker \in [Request -> {"none", "runs", "responds"}]
          /\ sendBuffer \in [Request -> BOOLEAN]
          /\ conMsg \in [Request -> BOOLEAN] /\ timer \in [Request -> BOOLEAN]
          /\ retransmissionCounter \in [Request -> 0..MAX_RETRANSMIT]
          /\ net \subseteq Request \X {"request", "response"} \X (1..MAX_RETRANSMIT)
          /\ nevent \in 0..MaxEvents
          /\ overtaken \subseteq Request

Init == /\ caller = [r \in Request |-> "new"]
        /\ recvState = [r \in Request |-> "pending"]
        /\ payload = [r \in Request |-> "empty"]
        /\ result = [r \in Request |-> "none"]
        /\ sendBuffer = [r \in Request |-> FALSE]
        /\ worker = [r \in Request |-> "none"]
        /\ conMsg = [r \in Request |-> FALSE]
        /\ timer = [r \in Request |-> FALSE]
        /\ retransmissionCounter = [r \in Request |-> 0]
        /\ net = {} /\ nevent = 0 /\ overtaken = {}

Event == nevent < MaxEvents /\ nevent' = nevent + 1

-----------------------------------------------------------------------------
(* The thread that asks: CoapHelper.send, then LBusReceiver.get *)

\* send() returns; a command is not waited for.
Sent(r) == caller' = [caller EXCEPT ![r] = IF r \in Gets THEN "waits" ELSE "done"]

Sockets == Cardinality({r \in Request : worker[r] # "none"})

Connect(r) == /\ caller[r] = "new" /\ Sockets < MaxSockets
              /\ worker' = [worker EXCEPT ![r] = "runs"]
              /\ caller' = [caller EXCEPT ![r] = "connected"]
              /\ UNCHANGED <<recvState, payload, result, sendBuffer, conMsg, timer,
                             retransmissionCounter, net, nevent, overtaken>>

\* No socket, or no address: the exception is caught, recvState stays as it is.
ConnectFails(r) == /\ caller[r] = "new"
                   /\ IF Sockets < MaxSockets THEN Event ELSE UNCHANGED nevent
                   /\ Sent(r)
                   /\ UNCHANGED <<recvState, payload, result, thread, net, overtaken>>

SendMessage(r) == /\ caller[r] = "connected"
                  /\ sendBuffer' = [sendBuffer EXCEPT ![r] = TRUE]
                  /\ caller' = [caller EXCEPT ![r] = "sent"]
                  /\ UNCHANGED <<recvState, payload, result, worker, conMsg, timer,
                                 retransmissionCounter, net, nevent, overtaken>>

\* Mutated: recvState is reset after the request was handed over.
ClearStateToo(r) == /\ caller[r] = "sent"
                    /\ payload' = [payload EXCEPT ![r] = "empty"]
                    /\ recvState' = [recvState EXCEPT ![r] = "pending"]
                    /\ Sent(r)
                    /\ overtaken' = overtaken \union {q \in {r} : payload[r] # "empty"}
                    /\ UNCHANGED <<result, thread, net, nevent>>

ClearPayload(r) == /\ caller[r] = "sent"
                   /\ payload' = [payload EXCEPT ![r] = "empty"]
                   /\ Sent(r)
                   /\ overtaken' = overtaken \union {q \in {r} : payload[r] # "empty"}
                   /\ UNCHANGED <<recvState, result, thread, net, nevent>>

\* An empty payload has no attribute: an error as well.
Get(r) == /\ caller[r] = "waits" /\ recvState[r] # "pending"
          /\ result' = [result EXCEPT ![r] =
               IF recvState[r] = "ok" /\ payload[r] # "empty" THEN "value" ELSE "error"]
          /\ caller' = [caller EXCEPT ![r] = "done"]
          /\ UNCHANGED <<recvState, payload, thread, net, nevent, overtaken>>

-----------------------------------------------------------------------------
(* The worker thread *)

\* sendUdpMsg, before the last transmission
Transmit(r) == LET n == retransmissionCounter[r] + 1
               IN /\ retransmissionCounter' = [retransmissionCounter EXCEPT ![r] = n]
                  /\ conMsg' = [conMsg EXCEPT ![r] = TRUE]
                  /\ timer' = [timer EXCEPT ![r] = TRUE]
                  /\ net' = net \union {<<r, "request", n>>}

SendBufferedMessages(r) == /\ worker[r] = "runs" /\ sendBuffer[r]
                           /\ sendBuffer' = [sendBuffer EXCEPT ![r] = FALSE]
                           /\ Transmit(r)
                           /\ UNCHANGED <<helper, worker, nevent, overtaken>>

\* Mutated: one transmission too few.
maxRetransReachedEarly(r) == retransmissionCounter[r] >= MAX_RETRANSMIT - 1

maxRetransReached(r) == retransmissionCounter[r] >= MAX_RETRANSMIT

\* Mutated: one transmission too many.
RetransmitOnceMore(r) == /\ worker[r] = "runs" /\ timer[r] /\ conMsg[r]
                         /\ retransmissionCounter[r] <= MAX_RETRANSMIT
                         /\ Transmit(r)
                         /\ UNCHANGED <<helper, sendBuffer, worker, nevent, overtaken>>

\* handleTimeouts
Retransmit(r) == /\ worker[r] = "runs" /\ timer[r] /\ conMsg[r]
                 /\ ~maxRetransReached(r)
                 /\ Transmit(r)
                 /\ UNCHANGED <<helper, sendBuffer, worker, nevent, overtaken>>

\* onConnectionFailed
LostConnection(r) == /\ worker[r] = "runs" /\ timer[r] /\ conMsg[r]
                     /\ maxRetransReached(r)
                     /\ conMsg' = [conMsg EXCEPT ![r] = FALSE]
                     /\ timer' = [timer EXCEPT ![r] = FALSE]
                     /\ recvState' = [recvState EXCEPT ![r] = "failure"]
                     /\ UNCHANGED <<caller, payload, result, sendBuffer, worker,
                                    retransmissionCounter, net, nevent, overtaken>>

TimerOfConfirmed(r) == /\ worker[r] = "runs" /\ timer[r] /\ ~conMsg[r]
                       /\ timer' = [timer EXCEPT ![r] = FALSE]
                       /\ UNCHANGED <<helper, sendBuffer, worker, conMsg,
                                      retransmissionCounter, net, nevent, overtaken>>

\* A message is taken from the net, or will come once more.
Taken(m) == \/ net' = net \ {m} /\ UNCHANGED nevent
            \/ net' = net /\ Event

\* Mutated: the request is not taken for confirmed.
ReceiveUnconfirmed(m) == LET r == m[1] IN
  /\ m[2] = "response" /\ worker[r] = "runs"
  /\ payload' = [payload EXCEPT ![r] = "value"]
  /\ worker' = [worker EXCEPT ![r] = "responds"]
  /\ Taken(m)
  /\ UNCHANGED <<caller, recvState, result, sendBuffer, conMsg, timer,
                 retransmissionCounter, overtaken>>

\* handleIncommingMessage, handleMessage and the first half of onResponse.  Nothing
\* is ever put into duplicateHostMap: an answer that comes twice is handled twice.
Receive(m) == LET r == m[1] IN
  /\ m[2] = "response" /\ worker[r] = "runs"
  /\ conMsg' = [conMsg EXCEPT ![r] = FALSE]
  /\ payload' = [payload EXCEPT ![r] = "value"]
  /\ worker' = [worker EXCEPT ![r] = "responds"]
  /\ Taken(m)
  /\ UNCHANGED <<caller, recvState, result, sendBuffer, timer,
                 retransmissionCounter, overtaken>>

\* The second half
Respond(r) == /\ worker[r] = "responds"
              /\ recvState' = [recvState EXCEPT ![r] = "ok"]
              /\ worker' = [worker EXCEPT ![r] = "runs"]
              /\ UNCHANGED <<caller, payload, result, sendBuffer, conMsg, timer,
                             retransmissionCounter, net, nevent, overtaken>>

-----------------------------------------------------------------------------
(* The gateway and the network (external) *)

Answer(m) == /\ m[2] = "request"
             /\ \/ /\ net' = (net \ {m}) \union {<<m[1], "response", m[3]>>}
                   /\ UNCHANGED nevent
                \/ /\ net' = net \union {<<m[1], "response", m[3]>>}
                   /\ Event
             /\ UNCHANGED <<helper, thread, overtaken>>

Lose(m) == /\ Event
           /\ net' = net \ {m}
           /\ UNCHANGED <<helper, thread, overtaken>>

Ask(r) == SendMessage(r) \/ ClearPayload(r) \/ Get(r)

Work(r) == \/ SendBufferedMessages(r) \/ Respond(r)
           \/ Retransmit(r) \/ LostConnection(r) \/ TimerOfConfirmed(r)

Next == \/ \E r \in Request : Connect(r) \/ ConnectFails(r) \/ Ask(r) \/ Work(r)
        \/ \E m \in net : Receive(m) \/ Answer(m) \/ Lose(m)

Spec == Init /\ [][Next]_vars

\* Threads run, and timers expire.  Nothing is asked of the network.
FairSpec == Spec /\ \A r \in Request : WF_vars(Ask(r)) /\ WF_vars(Work(r))

-----------------------------------------------------------------------------
(* Properties *)

\* Once a request was answered no timer of an earlier transmission makes a failure
\* of it, whichever of its copies was answered.
SuccessIsFinal == [][\A r \in Request : recvState[r] = "ok" => recvState'[r] = "ok"]_vars

\* get() polls without a limit of its own.  It returns whatever the network does, if
\* only there was a socket to send from.
GetReturns == \A r \in Gets : caller[r] = "connected" ~> caller[r] = "done"

\* get() reports an error only for a request whose every transmission went without
\* an answer in time, or whose answer came before the payload was cleared.
ErrorIsExplained == \A r \in Gets :
  result[r] = "error" => \/ r \in overtaken
                         \/ retransmissionCounter[r] = MAX_RETRANSMIT /\ ~conMsg[r]
=============================================================================

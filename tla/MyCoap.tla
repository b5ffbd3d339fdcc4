-------------------------------- MODULE MyCoap --------------------------------
(***************************************************************************)
(* Requests of the gateway to its devices: coap_send_cmd() in              *)
(* liegw/src/coap/mycoap.c over libcoap and UDP.                           *)
(*                                                                         *)
(* A call makes up to Retries attempts.  Each attempt opens a socket, sends *)
(* the options collected in optlist and then, for each answer that         *)
(* announces more, the request for the next block.  Two seconds without an *)
(* answer end an attempt.  Nothing is sent again within an attempt.        *)
(*                                                                         *)
(* Messages get lost, are delivered twice and arrive late, also after the  *)
(* socket of their attempt was closed.  Addresses and sockets may fail.    *)
(*                                                                         *)
(* libcoap is external.  Devices are taken to answer in the acknowledgement *)
(* of a request: its queue then holds the first request of an attempt until *)
(* the first answer, and coap_can_exit() never keeps a call that is ready. *)
(***************************************************************************)
EXTENDS Integers, Sequences

CONSTANTS Uri,       \* resources of devices
          Blocks,    \* of each resource: the number of blocks of its content
          BufSize,   \* blocks that fit into the buffer of the caller
          Retries,   \* coap_retries
          MaxEvents  \* bound: faults

ASSUME CoapAssumption == /\ Blocks \in [Uri -> Nat \ {0}]
                         /\ BufSize \in Nat \ {0} /\ Retries \in Nat \ {0}
                         /\ MaxEvents \in Nat

VARIABLES
  pc,        \* no call, before an attempt, waiting for answers
  uri,       \* the resource of the call; of the last one
  tries,     \* attempts before this one
  optlist,   \* the resources the collected options are made of
  buf,       \* what the buffer cb->buf holds
  status,    \* cb->status: none, content or error
  net,       \* messages under way
  nevent,
  dup        \* history: a message of this call was delivered twice

caller == <<pc, uri, tries>>
vars == <<caller, optlist, buf, status, net, nevent, dup>>

\* A request names its options and a block.  Its answer has the block, of a
\* content that was made since the call began or before.  What was not sent to or
\* from the socket that is open will not be read.
Request(opts, n) == [type |-> "request", opts |-> opts, n |-> n, open |-> TRUE]
Response(r, k) == [type |-> "response", uri |-> r, n |-> k, new |-> TRUE]
Error == [type |-> "error", new |-> TRUE]
Changed == [type |-> "changed", new |-> TRUE]
Reset == [type |-> "reset", new |-> TRUE]
IsRequest(m) == m.type = "request"

TypeOK == /\ pc \in {"idle", "attempt", "wait"}
          /\ uri \in Uri /\ tries \in 0..(Retries - 1)
          /\ optlist \in Seq(Uri)
          /\ buf \in Seq([uri : Uri, n : Nat, new : BOOLEAN]) /\ Len(buf) <= BufSize
          /\ status \in {"none", "content", "error"}
          /\ \A m \in net : \/ IsRequest(m) /\ m.open \in BOOLEAN
                            \/ m.type \in {"error", "changed", "reset"}
                            \/ m.type = "response" /\ m.n < Blocks[m.uri]
          /\ nevent \in 0..MaxEvents /\ dup \in BOOLEAN

Init == /\ pc = "idle" /\ uri \in Uri /\ tries = 0
        /\ optlist = <<>> /\ buf = <<>> /\ status = "content"
        /\ net = {} /\ nevent = 0 /\ dup = FALSE

Event == nevent < MaxEvents /\ nevent' = nevent + 1

-----------------------------------------------------------------------------
(* The call *)

\* Whatever was made before is old from now on.
Call(u) == /\ pc = "idle"
           /\ pc' = "attempt" /\ uri' = u /\ tries' = 0
           /\ status' = "none" /\ buf' = <<>>
           /\ net' = {IF IsRequest(m) THEN m ELSE [m EXCEPT !.new = FALSE] : m \in net}
           /\ dup' = FALSE
           /\ UNCHANGED <<optlist, nevent>>

\* The options of the uri behind what is in the list.
AddOptions == optlist' = Append(optlist, uri)

\* coap_send_cmd: one attempt has ended without a status.
NextTry == IF tries + 1 < Retries
           THEN pc' = "attempt" /\ tries' = tries + 1 /\ uri' = uri
           ELSE pc' = "idle" /\ UNCHANGED <<tries, uri>>

\* The name cannot be resolved, or there is no socket: the options are kept.
AttemptFails == /\ pc = "attempt"
                /\ Event
                /\ AddOptions
                /\ buf' = <<>> /\ status' = "none"
                /\ NextTry
                /\ UNCHANGED <<net, dup>>

SendFails == /\ pc = "attempt"
             /\ Event
             /\ optlist' = <<>>
             /\ buf' = <<>> /\ status' = "none"
             /\ NextTry
             /\ UNCHANGED <<net, dup>>

\* A new socket: answers to the old one are lost.
Opened == {[m EXCEPT !.open = FALSE] : m \in {r \in net : IsRequest(r)}}

\* Mutated: the socket of the attempt before.
SendOverOldSocket == /\ pc = "attempt"
                     /\ optlist' = Append(optlist, uri)
                     /\ net' = net \union {Request(optlist', 0)}
                     /\ buf' = <<>> /\ status' = "none"
                     /\ pc' = "wait"
                     /\ UNCHANGED <<uri, tries, nevent, dup>>

\* Mutated: appends to what an attempt before has received.
SendWithoutReset == /\ pc = "attempt"
                    /\ optlist' = Append(optlist, uri)
                    /\ net' = Opened \union {Request(optlist', 0)}
                    /\ status' = "none" /\ buf' = buf
                    /\ pc' = "wait"
                    /\ UNCHANGED <<uri, tries, nevent, dup>>

Send == /\ pc = "attempt"
        /\ AddOptions
        /\ net' = Opened \union {Request(optlist', 0)}
        /\ buf' = <<>> /\ status' = "none"
        /\ pc' = "wait"
        /\ UNCHANGED <<uri, tries, nevent, dup>>

-----------------------------------------------------------------------------
(* message_handler *)

\* Mutated: without regard to the size of the buffer.
KeptUnbounded(m) == Append(buf, [uri |-> m.uri, n |-> m.n, new |-> m.new])

\* The data of an answer behind what is there, as far as they fit.
Kept(m) == IF Len(buf) < BufSize
           THEN Append(buf, [uri |-> m.uri, n |-> m.n, new |-> m.new])
           ELSE buf

More(m) == m.n + 1 < Blocks[m.uri]

\* The message is taken from the net, or will come once more.
Taken(m) == \/ net' = net \ {m} /\ UNCHANGED <<nevent, dup>>
            \/ net' = net /\ dup' = TRUE /\ Event

\* Mutated: the status is set with the first block.
ReceiveFirstOnly(m) == /\ pc = "wait" /\ m.type = "response" /\ More(m)
                       /\ buf' = Kept(m) /\ status' = "content"
                       /\ optlist' = <<>> /\ pc' = "idle"
                       /\ Taken(m)
                       /\ UNCHANGED <<uri, tries>>

\* The next block is asked for with the options of optlist.
ReceiveMore(m) == /\ pc = "wait" /\ m.type = "response" /\ More(m)
                  /\ buf' = Kept(m) /\ status' = "none"
                  /\ \/ /\ net' = (net \ {m}) \union {Request(optlist, m.n + 1)}
                        /\ UNCHANGED <<nevent, dup>>
                     \/ /\ net' = net \union {Request(optlist, m.n + 1)}
                        /\ dup' = TRUE /\ Event
                  /\ UNCHANGED <<caller, optlist>>

\* Mutated: the options are kept.
ReceiveLastKeepsOptions(m) == /\ pc = "wait" /\ m.type = "response" /\ ~More(m)
                              /\ buf' = Kept(m) /\ status' = "content"
                              /\ pc' = "idle" /\ Taken(m)
                              /\ UNCHANGED <<uri, tries, optlist>>

\* ready is set; the loop of handle_send_cmd ends.
ReceiveLast(m) == /\ pc = "wait" /\ m.type = "response" /\ ~More(m)
                  /\ buf' = Kept(m) /\ status' = "content"
                  /\ optlist' = <<>> /\ pc' = "idle"
                  /\ Taken(m)
                  /\ UNCHANGED <<uri, tries>>

ReceiveError(m) == /\ pc = "wait" /\ m.type = "error"
                   /\ status' = "error"
                   /\ optlist' = <<>> /\ pc' = "idle"
                   /\ Taken(m)
                   /\ UNCHANGED <<uri, tries, buf>>

\* A success code other than 2.05: ready is set and the status is not.
ReceiveChanged(m) == /\ pc = "wait" /\ m.type = "changed"
                     /\ optlist' = <<>>
                     /\ NextTry
                     /\ Taken(m)
                     /\ UNCHANGED <<buf, status>>

ReceiveReset(m) == /\ pc = "wait" /\ m.type = "reset"
                   /\ Taken(m)
                   /\ UNCHANGED <<caller, optlist, buf, status>>

Receive(m) == \/ ReceiveMore(m) \/ ReceiveLast(m) \/ ReceiveError(m)
              \/ ReceiveChanged(m) \/ ReceiveReset(m)

\* What can still be answered in this attempt.
Awaited == {m \in net : IsRequest(m) => m.open}

\* Mutated: goes on waiting.
SilenceIgnored == /\ pc = "wait"
                  /\ UNCHANGED vars

\* Two seconds without an answer: nothing is under way, or it takes longer.
Silence == /\ pc = "wait"
           /\ IF Awaited = {} THEN UNCHANGED nevent ELSE Event
           /\ optlist' = <<>>
           /\ NextTry
           /\ UNCHANGED <<buf, status, net, dup>>

-----------------------------------------------------------------------------
(* The devices and the network (external) *)

\* The answer of a device: to clean options the block, to any other ones an error.
Answer(m) == IF Len(m.opts) = 1 /\ m.n < Blocks[m.opts[1]]
             THEN Response(m.opts[1], m.n) ELSE Error

\* A request may be delivered twice.  Its answer goes to the socket it came from.
Serve(m) == /\ IsRequest(m)
            /\ \E rest \in {net \ {m}, net} :
                 /\ net' = IF m.open THEN rest \union {Answer(m)} ELSE rest
                 /\ IF m \in rest THEN Event /\ dup' = TRUE ELSE UNCHANGED <<nevent, dup>>
            /\ UNCHANGED <<caller, optlist, buf, status>>

\* A device that does not know the request, or answers without content.
ServeWithout(m) == /\ IsRequest(m) /\ m.open
                   /\ Event
                   /\ \E a \in {Changed, Reset} : net' = (net \ {m}) \union {a}
                   /\ UNCHANGED <<caller, optlist, buf, status, dup>>

Lose(m) == /\ Event
           /\ net' = net \ {m}
           /\ UNCHANGED <<caller, optlist, buf, status, dup>>

Attempt == AttemptFails \/ SendFails \/ Send

Next == \/ \E u \in Uri : Call(u)
        \/ Attempt \/ Silence
        \/ \E m \in net : Receive(m) \/ Serve(m) \/ ServeWithout(m) \/ Lose(m)

Spec == Init /\ [][Next]_vars

\* select() returns for an answer or after two seconds, and messages arrive.
FairSpec == /\ Spec
            /\ WF_vars(Attempt)
            /\ WF_vars(pc = "wait" /\ (Silence \/ \E m \in net : Receive(m) \/ Serve(m)))

-----------------------------------------------------------------------------
(* Properties *)

\* The status "content" is never reported for a part of the content, even if
\* blocks are delivered twice and late: unless the buffer is full, all of them
\* are in it.
ContentIsComplete ==
  pc = "idle" /\ status = "content" /\ buf # <<>> /\ Len(buf) < BufSize =>
    \A k \in 0..(Blocks[uri] - 1) : \E i \in DOMAIN buf : buf[i].n = k

\* Without a message that was delivered twice the buffer holds each block once
\* and in order, whatever the attempts before had received.
ContentIsExact ==
  status = "content" /\ buf # <<>> /\ ~dup =>
    buf = [i \in 1..(IF Blocks[uri] <= BufSize THEN Blocks[uri] ELSE BufSize) |->
             [uri |-> uri, n |-> i - 1, new |-> TRUE]]

\* A call never takes an answer to another call for its own: requests have no
\* token that would tell them apart.
AnswersAreOwn == \A i \in DOMAIN buf : buf[i].uri = uri /\ buf[i].new

\* Every call returns.
CallReturns == pc # "idle" ~> pc = "idle"

\* Options left behind by an attempt that failed spoil the next one and are then
\* shed: once faults stop, calls get their content again.
WorksAgain == []<>(pc = "attempt") => <>[](pc = "idle" => status = "content")
=============================================================================

---------------------------- MODULE MyCoapProofs ----------------------------
(***************************************************************************)
(* Proofs about the requests of the gateway, MyCoap.tla, for all resources *)
(* and their sizes, every size of the caller's buffer, every number of     *)
(* attempts, and any number of messages lost, late or delivered twice.     *)
(***************************************************************************)
EXTENDS MyCoap, TLAPS

USE DEF AddOptions

Requests == [type : {"request"}, opts : Seq(Uri), n : Nat, open : BOOLEAN]
Responses == [type : {"response"}, uri : Uri, n : Nat, new : BOOLEAN]
Errors == [type : {"error", "changed", "reset"}, new : BOOLEAN]

\* TypeOK without the messages.
Ranges == /\ pc \in {"idle", "attempt", "wait"}
          /\ uri \in Uri
          /\ tries \in 0..(Retries - 1)
          /\ optlist \in Seq(Uri)
          /\ buf \in Seq([uri : Uri, n : Nat, new : BOOLEAN])
          /\ Len(buf) <= BufSize
          /\ status \in {"none", "content", "error"}
          /\ nevent \in 0..MaxEvents
          /\ dup \in BOOLEAN

Messages == \A m \in net : \/ m \in Requests \/ m \in Errors
                           \/ m \in Responses /\ m.n < Blocks[m.uri]

IsResponse(m) == m.type = "response"
HasBlock(m) == m.type \in {"request", "response"}

\* What is under way in an attempt was sent in it: its requests carry the options of
\* the attempt, and its responses are those to clean options.
Attempts ==
  /\ pc # "idle" => status = "none"
  /\ pc = "wait" =>
       /\ Len(optlist) > 0 /\ optlist[Len(optlist)] = uri
       /\ \A m \in net : IsRequest(m) /\ m.open => m.opts = optlist
       /\ \A m \in net : IsResponse(m) => m.uri = uri /\ m.new

\* The blocks before one that is under way have been received.
BlocksBefore ==
  pc = "wait" /\ Len(buf) < BufSize =>
    \A m \in net : (IsRequest(m) /\ m.open) \/ IsResponse(m) =>
      \A k \in 0..(m.n - 1) : \E i \in 1..Len(buf) : buf[i].n = k

\* b holds the first k blocks of the resource r, as far as they fit.
Block(r, k) == [uri |-> r, n |-> k, new |-> TRUE]
Holds(b, r, k) == /\ Len(b) = IF k <= BufSize THEN k ELSE BufSize
                  /\ \A i \in 1..Len(b) : b[i] = Block(r, i - 1)

\* As long as nothing was delivered twice, one message at most is under way.
OneUnderWay ==
  pc = "wait" /\ ~dup =>
    /\ \A m1, m2 \in Awaited : m1 = m2
    /\ \A m \in Awaited : HasBlock(m) => Holds(buf, uri, m.n)

Received == status = "content" /\ buf # <<>> /\ ~dup => Holds(buf, uri, Blocks[uri])

IInv == /\ Ranges /\ Messages /\ Attempts /\ AnswersAreOwn
        /\ BlocksBefore /\ ContentIsComplete
        /\ OneUnderWay /\ Received
-----------------------------------------------------------------------------
(* Messages and the buffer *)

LEMMA Numbers ==
  /\ BufSize \in Nat /\ BufSize > 0
  /\ Retries \in Nat /\ Retries > 0
  /\ MaxEvents \in Nat
  BY CoapAssumption

LEMMA Empty ==
  <<>> \in Seq(Uri) /\ <<>> \in Seq([uri : Uri, n : Nat, new : BOOLEAN]) /\ Len(<<>>) = 0
  OBVIOUS

LEMMA EventKept == ASSUME Ranges, Event PROVE nevent' \in 0..MaxEvents
  BY Numbers DEF Ranges, Event

LEMMA Kinds ==
  /\ \A m \in Requests : /\ m.type = "request" /\ m.opts \in Seq(Uri)
                          /\ m.n \in Nat /\ m.open \in BOOLEAN
  /\ \A m \in Responses : m.type = "response" /\ m.uri \in Uri /\ m.n \in Nat /\ m.new \in BOOLEAN
  /\ \A m \in Errors : m.type \in {"error", "changed", "reset"} /\ m.new \in BOOLEAN
  BY DEF Requests, Responses, Errors

LEMMA Made ==
  /\ \A o \in Seq(Uri), n \in Nat :
       /\ Request(o, n) \in Requests
       /\ Request(o, n).opts = o /\ Request(o, n).n = n /\ Request(o, n).open = TRUE
  /\ \A r \in Uri, k \in Nat :
       /\ Response(r, k) \in Responses
       /\ Response(r, k).uri = r /\ Response(r, k).n = k /\ Response(r, k).new = TRUE
  /\ Error \in Errors /\ Changed \in Errors /\ Reset \in Errors
  BY DEF Request, Requests, Response, Responses, Error, Changed, Reset, Errors

LEMMA AnswerKind ==
  ASSUME NEW m \in Requests
  PROVE  \/ Answer(m) = Error
         \/ /\ Len(m.opts) = 1 /\ m.opts[1] \in Uri /\ m.n < Blocks[m.opts[1]]
            /\ Answer(m) = Response(m.opts[1], m.n)
  <1>1. m.opts \in Seq(Uri) /\ m.n \in Nat
    BY Kinds
  <1>2. Len(m.opts) = 1 => m.opts[1] \in Uri
    BY <1>1
  <1>3. QED
    BY <1>2 DEF Answer

\* What the buffer holds after an answer was copied.
LEMMA KeptEffect ==
  ASSUME Ranges, NEW m \in Responses
  PROVE  /\ Kept(m) \in Seq([uri : Uri, n : Nat, new : BOOLEAN]) /\ Len(Kept(m)) <= BufSize
         /\ Len(buf) < BufSize =>
              /\ Len(Kept(m)) = Len(buf) + 1
              /\ \A i \in 1..Len(buf) : Kept(m)[i] = buf[i]
              /\ Kept(m)[Len(buf) + 1] = [uri |-> m.uri, n |-> m.n, new |-> m.new]
         /\ ~(Len(buf) < BufSize) => Kept(m) = buf
  <1> DEFINE b == [uri |-> m.uri, n |-> m.n, new |-> m.new]
  <1>1. b \in [uri : Uri, n : Nat, new : BOOLEAN]
    BY Kinds
  <1>2. Kept(m) = IF Len(buf) < BufSize THEN Append(buf, b) ELSE buf
    BY DEF Kept
  <1>3. buf \in Seq([uri : Uri, n : Nat, new : BOOLEAN]) /\ Len(buf) <= BufSize
    BY DEF Ranges
  <1> HIDE DEF b
  <1>4. CASE Len(buf) < BufSize
    <2>1. Kept(m) = Append(buf, b)
      BY <1>2, <1>4
    <2>2. /\ Len(Append(buf, b)) = Len(buf) + 1
          /\ \A i \in 1..Len(buf) : Append(buf, b)[i] = buf[i]
          /\ Append(buf, b)[Len(buf) + 1] = b
          /\ Append(buf, b) \in Seq([uri : Uri, n : Nat, new : BOOLEAN])
      BY <1>1, <1>3
    <2>3. Len(buf) + 1 <= BufSize
      BY <1>4, CoapAssumption
    <2>4. QED
      BY <1>4, <2>1, <2>2, <2>3 DEF b
  <1>5. CASE ~(Len(buf) < BufSize)
    BY <1>2, <1>3, <1>5
  <1>6. QED
    BY <1>4, <1>5

\* An answer that comes in order leaves the first blocks in the buffer.
LEMMA KeptInOrder ==
  ASSUME Ranges, NEW m \in Responses, m.uri = uri, m.new = TRUE, Holds(buf, uri, m.n)
  PROVE  Holds(Kept(m), uri, m.n + 1)
  <1>1. m.n \in Nat /\ Len(buf) \in Nat /\ BufSize \in Nat
    BY Kinds, CoapAssumption DEF Ranges
  <1>2. Len(buf) = IF m.n <= BufSize THEN m.n ELSE BufSize
    BY DEF Holds
  <1>3. \A i \in 1..Len(buf) : buf[i] = Block(uri, i - 1)
    BY DEF Holds
  <1>4. CASE Len(buf) < BufSize
    <2>0. Len(Kept(m)) = Len(buf) + 1
      BY <1>4, KeptEffect
    <2>1. /\ Len(buf) = m.n /\ Len(Kept(m)) = m.n + 1 /\ m.n + 1 <= BufSize
      BY <1>1, <1>2, <1>4, <2>0
    <2>2. Kept(m)[m.n + 1] = Block(uri, m.n)
      BY <1>4, <2>1, KeptEffect DEF Block
    <2>3. ASSUME NEW i \in 1..(m.n + 1) PROVE Kept(m)[i] = Block(uri, i - 1)
      <3>1. CASE i = m.n + 1
        <4>1. i - 1 = m.n
          BY <1>1, <3>1
        <4>2. QED
          BY <2>2, <4>1
      <3>2. CASE i # m.n + 1
        <4>1. i \in 1..Len(buf)
          BY <2>1, <3>2
        <4>2. QED
          BY <1>3, <4>1, KeptEffect
      <3>3. QED
        BY <3>1, <3>2
    <2>4. QED
      BY <2>1, <2>3 DEF Holds
  <1>5. CASE ~(Len(buf) < BufSize)
    <2>1. Len(buf) = BufSize /\ ~(m.n + 1 <= BufSize)
      BY <1>1, <1>2, <1>5
    <2>2. QED
      BY <1>5, <2>1, KeptEffect DEF Holds
  <1>6. QED
    BY <1>4, <1>5

-----------------------------------------------------------------------------
(* The invariant is inductive *)

LEMMA InitHolds == Init => IInv
<1> SUFFICES ASSUME Init PROVE IInv
  OBVIOUS
<1> USE DEF Init
<1>1. Ranges
  <2>1. uri \in Uri /\ tries \in 0..(Retries - 1) /\ nevent \in 0..MaxEvents
    BY Numbers
  <2>2. optlist \in Seq(Uri) /\ buf \in Seq([uri : Uri, n : Nat, new : BOOLEAN])
    OBVIOUS
  <2>3. Len(buf) <= BufSize
    BY Numbers
  <2>4. QED
    BY <2>1, <2>2, <2>3 DEF Ranges
<1>2. Messages /\ Attempts /\ AnswersAreOwn /\ BlocksBefore /\ OneUnderWay
  BY DEF Messages, Attempts, AnswersAreOwn, BlocksBefore, OneUnderWay
<1>3. ContentIsComplete /\ Received
  BY DEF ContentIsComplete, Received
<1>4. QED
  BY <1>1, <1>2, <1>3 DEF IInv

LEMMA StepHolds == IInv /\ [Next]_vars => IInv'
<1> SUFFICES ASSUME IInv, [Next]_vars PROVE IInv'
  OBVIOUS
<1> USE DEF IInv
<1>1. ASSUME NEW u \in Uri, Call(u) PROVE IInv'
  <2>1. /\ pc' = "attempt" /\ uri' = u /\ tries' = 0 /\ status' = "none" /\ buf' = <<>>
        /\ dup' = FALSE /\ UNCHANGED <<optlist, nevent>>
    BY <1>1 DEF Call
  <2>2. ASSUME NEW r \in net'
        PROVE  r \in Requests \/ r \in Errors \/ (r \in Responses /\ r.n < Blocks[r.uri])
    <3>1. PICK p \in net : r = IF IsRequest(p) THEN p ELSE [p EXCEPT !.new = FALSE]
      BY <1>1 DEF Call
    <3>2. CASE p \in Requests
      BY <3>1, <3>2, Kinds DEF IsRequest
    <3>3. CASE p \in Errors
      BY <3>1, <3>3 DEF IsRequest, Errors
    <3>4. CASE p \in Responses /\ p.n < Blocks[p.uri]
      <4>1. r = [p EXCEPT !.new = FALSE]
        BY <3>1, <3>4, Kinds DEF IsRequest
      <4>2. r \in Responses /\ r.n = p.n /\ r.uri = p.uri
        BY <3>4, <4>1 DEF Responses
      <4>3. QED
        BY <3>4, <4>2
    <3>5. QED
      BY <3>2, <3>3, <3>4 DEF Messages
  <2>3. Messages'
    BY <2>2 DEF Messages
  <2>4. Ranges'
    <3>1. tries' \in 0..(Retries - 1) /\ Len(buf') <= BufSize
      BY <2>1, Numbers
    <3>2. optlist' \in Seq(Uri) /\ buf' \in Seq([uri : Uri, n : Nat, new : BOOLEAN])
      BY <2>1 DEF Ranges
    <3>3. QED
      BY <2>1, <3>1, <3>2 DEF Ranges
  <2>5. Attempts'
    BY <1>1 DEF Call, Attempts
  <2>6. AnswersAreOwn'
    BY <1>1 DEF Call, AnswersAreOwn
  <2>7. BlocksBefore'
    BY <1>1 DEF Call, BlocksBefore
  <2>8. ContentIsComplete'
    BY <1>1 DEF Call, ContentIsComplete
  <2>9. OneUnderWay'
    BY <1>1 DEF Call, OneUnderWay
  <2>10. Received'
    BY <1>1 DEF Call, Received
  <2>11. QED
    BY <2>3, <2>4, <2>5, <2>6, <2>7, <2>8, <2>9, <2>10
<1>2. ASSUME AttemptFails PROVE IInv'
  <2>1. Messages'
    BY <1>2 DEF AttemptFails, Messages
  <2>2. Ranges'
    BY <1>2, EventKept, Numbers DEF AttemptFails, NextTry, Ranges
  <2>3. Attempts'
    BY <1>2 DEF AttemptFails, NextTry, Attempts
  <2>4. AnswersAreOwn'
    BY <1>2 DEF AttemptFails, AnswersAreOwn
  <2>5. BlocksBefore'
    BY <1>2 DEF AttemptFails, NextTry, BlocksBefore
  <2>6. ContentIsComplete'
    BY <1>2 DEF AttemptFails, ContentIsComplete
  <2>7. OneUnderWay'
    BY <1>2 DEF AttemptFails, NextTry, OneUnderWay
  <2>8. Received'
    BY <1>2 DEF AttemptFails, Received
  <2>9. QED
    BY <2>1, <2>2, <2>3, <2>4, <2>5, <2>6, <2>7, <2>8
<1>3. ASSUME SendFails PROVE IInv'
  <2>1. Messages'
    BY <1>3 DEF SendFails, Messages
  <2>2. Ranges'
    BY <1>3, EventKept, Numbers DEF SendFails, NextTry, Ranges
  <2>3. Attempts'
    BY <1>3 DEF SendFails, NextTry, Attempts
  <2>4. AnswersAreOwn'
    BY <1>3 DEF SendFails, AnswersAreOwn
  <2>5. BlocksBefore'
    BY <1>3 DEF SendFails, NextTry, BlocksBefore
  <2>6. ContentIsComplete'
    BY <1>3 DEF SendFails, ContentIsComplete
  <2>7. OneUnderWay'
    BY <1>3 DEF SendFails, NextTry, OneUnderWay
  <2>8. Received'
    BY <1>3 DEF SendFails, Received
  <2>9. QED
    BY <2>1, <2>2, <2>3, <2>4, <2>5, <2>6, <2>7, <2>8
<1>4. ASSUME Send PROVE IInv'
  <2> DEFINE q == Request(optlist', 0)
  <2>1. /\ optlist' \in Seq(Uri) /\ Len(optlist') > 0 /\ optlist'[Len(optlist')] = uri
        /\ net' = Opened \union {q}
        /\ pc' = "wait" /\ status' = "none" /\ buf' = <<>>
        /\ UNCHANGED <<uri, tries, nevent, dup>>
    BY <1>4 DEF Send, Ranges
  <2>2. q \in Requests /\ q.opts = optlist' /\ q.n = 0 /\ q.open = TRUE
    BY <2>1, Made
  <2>3. ASSUME NEW r \in Opened PROVE r \in Requests /\ r.open = FALSE
    <3>1. PICK p \in net : IsRequest(p) /\ r = [p EXCEPT !.open = FALSE]
      BY DEF Opened
    <3>2. p \in Requests
      BY <3>1, Kinds DEF Messages, IsRequest
    <3>3. QED
      BY <3>1, <3>2 DEF Requests
  <2>4. \A r \in net' : r \in Requests /\ (r.open => r = q)
    BY <2>1, <2>2, <2>3
  <2> HIDE DEF q
  <2>5. Messages'
    BY <2>4 DEF Messages
  <2>6. Ranges'
    BY <1>4, Numbers DEF Send, Ranges
  <2>7. Attempts'
    BY <2>1, <2>2, <2>4, Kinds DEF Attempts, IsResponse
  <2>8. AnswersAreOwn'
    BY <1>4 DEF Send, AnswersAreOwn
  <2>9. BlocksBefore'
    <3>1. \A r \in net' : (IsRequest(r) /\ r.open) \/ IsResponse(r) => r.n = 0
      BY <2>2, <2>4, Kinds DEF IsRequest, IsResponse
    <3>2. QED
      BY <3>1 DEF BlocksBefore
  <2>10. ContentIsComplete'
    BY <1>4 DEF Send, ContentIsComplete
  <2>11. OneUnderWay'
    <3>1. \A r \in Awaited' : r = q
      BY <2>4, Kinds DEF Awaited, IsRequest
    <3>2. Holds(buf', uri', q.n)
      <4>1. Len(buf') = 0 /\ q.n = 0 /\ q.n <= BufSize
        BY <2>1, <2>2, Numbers
      <4>2. QED
        BY <4>1 DEF Holds
    <3>3. QED
      BY <3>1, <3>2 DEF OneUnderWay
  <2>12. Received'
    BY <1>4 DEF Send, Received
  <2>13. QED
    BY <2>5, <2>6, <2>7, <2>8, <2>9, <2>10, <2>11, <2>12
<1>5. ASSUME Silence PROVE IInv'
  <2>1. Messages'
    BY <1>5 DEF Silence, Messages
  <2>2. Ranges'
    BY <1>5, EventKept, Numbers DEF Silence, NextTry, Ranges
  <2>3. Attempts'
    BY <1>5 DEF Silence, NextTry, Attempts
  <2>4. AnswersAreOwn'
    BY <1>5 DEF Silence, NextTry, AnswersAreOwn
  <2>5. BlocksBefore'
    BY <1>5 DEF Silence, BlocksBefore
  <2>6. ContentIsComplete'
    BY <1>5 DEF Silence, ContentIsComplete, Attempts
  <2>7. OneUnderWay'
    BY <1>5 DEF Silence, NextTry, OneUnderWay
  <2>8. Received'
    BY <1>5 DEF Silence, Received, Attempts
  <2>9. QED
    BY <2>1, <2>2, <2>3, <2>4, <2>5, <2>6, <2>7, <2>8
<1>6. ASSUME NEW m \in net, ReceiveMore(m) PROVE IInv'
  <2>1. /\ pc = "wait" /\ m.type = "response" /\ buf' = Kept(m)
        /\ UNCHANGED uri
    BY <1>6 DEF ReceiveMore, caller
  <2>2. m \in Responses /\ m.n < Blocks[m.uri] /\ m.uri = uri /\ m.new = TRUE /\ m.n \in Nat
    <3>1. m \in Responses /\ m.n < Blocks[m.uri]
      BY <2>1, Kinds DEF Messages
    <3>2. m.uri = uri /\ m.new = TRUE /\ m.n \in Nat
      BY <2>1, <3>1, Kinds DEF Attempts, IsResponse
    <3>3. QED
      BY <3>1, <3>2
  <2>3. m \in Awaited
    BY <2>1 DEF Awaited, IsRequest
  <2>4. ASSUME Len(buf') < BufSize, NEW k \in 0..m.n
        PROVE  \E i \in 1..Len(buf') : buf'[i].n = k
    <3>1. buf' \in Seq([uri : Uri, n : Nat, new : BOOLEAN]) /\ Len(buf) \in Nat
      <4>1. buf' \in Seq([uri : Uri, n : Nat, new : BOOLEAN])
        BY <2>1, <2>2, KeptEffect
      <4>2. Len(buf) \in Nat
        BY DEF Ranges
      <4>3. QED
        BY <4>1
    <3>2. /\ Len(buf) < BufSize /\ Len(buf') = Len(buf) + 1
          /\ \A i \in 1..Len(buf) : buf'[i] = buf[i]
          /\ buf'[Len(buf) + 1].n = m.n
      <4>1. Len(buf) < BufSize
        BY <2>1, <2>2, <2>4, KeptEffect
      <4>2. Kept(m)[Len(buf) + 1] = [uri |-> m.uri, n |-> m.n, new |-> m.new]
        BY <2>2, <4>1, KeptEffect
      <4>3. buf'[Len(buf) + 1].n = m.n
        BY <2>1, <4>2
      <4>4. QED
        BY <2>1, <2>2, <4>1, <4>3, KeptEffect
    <3>3. CASE k = m.n
      BY <3>2, <3>3
    <3>4. CASE k # m.n
      <4>1. PICK i \in 1..Len(buf) : buf[i].n = k
        <5>1. k \in 0..(m.n - 1)
          BY <2>2, <3>4
        <5>2. QED
          BY <2>1, <3>2, <5>1 DEF BlocksBefore, IsResponse
      <4>2. i \in 1..Len(buf')
        BY <3>2
      <4>3. QED
        BY <3>2, <4>1
    <3>5. QED
      BY <3>3, <3>4
  <2> DEFINE q == Request(optlist, m.n + 1)
  <2>5. q \in Requests /\ q.opts = optlist /\ q.n = m.n + 1 /\ q.open = TRUE
    BY <2>2, Made DEF Ranges
  <2>6. /\ pc' = "wait" /\ status' = "none" /\ UNCHANGED <<tries, optlist>>
        /\ q \in net' /\ \A r \in net' : r \in net \/ r = q
        /\ ~dup' => ~dup /\ net' = (net \ {m}) \union {q}
    BY <1>6 DEF ReceiveMore, caller
  <2>7. nevent' \in 0..MaxEvents
    BY <1>6, EventKept DEF ReceiveMore, Ranges
  <2>8. dup' \in BOOLEAN
    BY <1>6 DEF ReceiveMore, Ranges
  <2> HIDE DEF q
  <2>9. Messages'
    BY <2>5, <2>6 DEF Messages
  <2>10. Ranges'
    <3>1. buf' \in Seq([uri : Uri, n : Nat, new : BOOLEAN]) /\ Len(buf') <= BufSize
      BY <2>1, <2>2, KeptEffect
    <3>2. QED
      BY <2>1, <2>6, <2>7, <2>8, <3>1 DEF Ranges
  <2>11. Attempts'
    BY <2>1, <2>5, <2>6, Kinds DEF Attempts, IsResponse
  <2>12. AnswersAreOwn'
    <3>1. buf \in Seq([uri : Uri, n : Nat, new : BOOLEAN])
      BY DEF Ranges
    <3>2. CASE Len(buf) < BufSize
      <4>1. DOMAIN Kept(m) = 1..(Len(buf) + 1)
        <5>1. Len(Kept(m)) = Len(buf) + 1
          BY <2>2, <3>2, KeptEffect
        <5>2. Kept(m) \in Seq([uri : Uri, n : Nat, new : BOOLEAN])
          BY <2>2, KeptEffect
        <5>3. QED
          BY <5>1
      <4>2. ASSUME NEW i \in 1..(Len(buf) + 1) PROVE Kept(m)[i].uri = uri /\ Kept(m)[i].new
        <5>1. CASE i \in 1..Len(buf)
          <6>1. Kept(m)[i] = buf[i]
            BY <2>2, <5>1, KeptEffect
          <6>2. i \in DOMAIN buf
            BY <5>1
          <6>3. QED
            BY <6>1, <6>2 DEF AnswersAreOwn
        <5>2. CASE i = Len(buf) + 1
          <6>1. Kept(m)[Len(buf) + 1] = [uri |-> m.uri, n |-> m.n, new |-> m.new]
            BY <2>2, <3>2, KeptEffect
          <6>2. QED
            BY <2>2, <5>2, <6>1
        <5>3. QED
          BY <5>1, <5>2
      <4>3. QED
        BY <2>1, <4>1, <4>2 DEF AnswersAreOwn
    <3>3. CASE ~(Len(buf) < BufSize)
      BY <2>1, <2>2, <3>3, KeptEffect DEF AnswersAreOwn
    <3>4. QED
      BY <3>2, <3>3
  <2>13. BlocksBefore'
    <3>1. SUFFICES ASSUME Len(buf') < BufSize, NEW r \in net',
                           (IsRequest(r) /\ r.open) \/ IsResponse(r), NEW k \in 0..(r.n - 1)
                    PROVE  \E i \in 1..Len(buf') : buf'[i].n = k
      BY DEF BlocksBefore
    <3>2. CASE r = q
      <4>1. k \in 0..m.n
        BY <2>2, <2>5, <3>2
      <4>2. QED
        BY <2>4, <3>1, <4>1
    <3>3. CASE r \in net
      <4>1. /\ Len(buf) < BufSize /\ Len(buf') = Len(buf) + 1
            /\ \A i \in 1..Len(buf) : buf'[i] = buf[i]
        BY <2>1, <2>2, <3>1, KeptEffect
      <4>2. PICK i \in 1..Len(buf) : buf[i].n = k
        BY <2>1, <3>1, <3>3, <4>1 DEF BlocksBefore
      <4>3. i \in 1..Len(buf') /\ buf'[i].n = k
        BY <4>1, <4>2 DEF Ranges
      <4>4. QED
        BY <4>3
    <3>4. QED
      BY <2>6, <3>2, <3>3
  <2>14. ContentIsComplete'
    BY <1>6 DEF ReceiveMore, ContentIsComplete
  <2>15. OneUnderWay'
    <3>1. SUFFICES ASSUME ~dup'
                    PROVE  /\ \A m1, m2 \in Awaited' : m1 = m2
                           /\ \A r \in Awaited' : HasBlock(r) => Holds(buf', uri', r.n)
      BY DEF OneUnderWay
    <3>2. Holds(buf, uri, m.n) /\ \A r \in Awaited : r = m
      BY <2>1, <2>3, <2>6, <3>1 DEF OneUnderWay, HasBlock
    <3>3. \A r \in Awaited' : r = q
      BY <2>6, <3>1, <3>2 DEF Awaited
    <3>4. Holds(buf', uri', q.n)
      BY <2>1, <2>2, <2>5, <3>2, KeptInOrder
    <3>5. QED
      BY <3>3, <3>4
  <2>16. Received'
    BY <1>6 DEF ReceiveMore, Received
  <2>17. QED
    BY <2>9, <2>10, <2>11, <2>12, <2>13, <2>14, <2>15, <2>16
<1>7. ASSUME NEW m \in net, ReceiveLast(m) PROVE IInv'
  <2>1. /\ pc = "wait" /\ m.type = "response" /\ buf' = Kept(m)
        /\ UNCHANGED uri
    BY <1>7 DEF ReceiveLast
  <2>2. m \in Responses /\ m.n < Blocks[m.uri] /\ m.uri = uri /\ m.new = TRUE /\ m.n \in Nat
    <3>1. m \in Responses /\ m.n < Blocks[m.uri]
      BY <2>1, Kinds DEF Messages
    <3>2. m.uri = uri /\ m.new = TRUE /\ m.n \in Nat
      BY <2>1, <3>1, Kinds DEF Attempts, IsResponse
    <3>3. QED
      BY <3>1, <3>2
  <2>3. m \in Awaited
    BY <2>1 DEF Awaited, IsRequest
  <2>4. ASSUME Len(buf') < BufSize, NEW k \in 0..m.n
        PROVE  \E i \in 1..Len(buf') : buf'[i].n = k
    <3>1. buf' \in Seq([uri : Uri, n : Nat, new : BOOLEAN]) /\ Len(buf) \in Nat
      <4>1. buf' \in Seq([uri : Uri, n : Nat, new : BOOLEAN])
        BY <2>1, <2>2, KeptEffect
      <4>2. Len(buf) \in Nat
        BY DEF Ranges
      <4>3. QED
        BY <4>1
    <3>2. /\ Len(buf) < BufSize /\ Len(buf') = Len(buf) + 1
          /\ \A i \in 1..Len(buf) : buf'[i] = buf[i]
          /\ buf'[Len(buf) + 1].n = m.n
      <4>1. Len(buf) < BufSize
        BY <2>1, <2>2, <2>4, KeptEffect
      <4>2. Kept(m)[Len(buf) + 1] = [uri |-> m.uri, n |-> m.n, new |-> m.new]
        BY <2>2, <4>1, KeptEffect
      <4>3. buf'[Len(buf) + 1].n = m.n
        BY <2>1, <4>2
      <4>4. QED
        BY <2>1, <2>2, <4>1, <4>3, KeptEffect
    <3>3. CASE k = m.n
      BY <3>2, <3>3
    <3>4. CASE k # m.n
      <4>1. PICK i \in 1..Len(buf) : buf[i].n = k
        <5>1. k \in 0..(m.n - 1)
          BY <2>2, <3>4
        <5>2. QED
          BY <2>1, <3>2, <5>1 DEF BlocksBefore, IsResponse
      <4>2. i \in 1..Len(buf')
        BY <3>2
      <4>3. QED
        BY <3>2, <4>1
    <3>5. QED
      BY <3>3, <3>4
  <2>5. m.n + 1 = Blocks[uri] /\ Blocks[uri] \in Nat
    <3>1. ~(m.n + 1 < Blocks[m.uri])
      BY <1>7 DEF ReceiveLast, More
    <3>2. QED
      BY <2>2, <3>1, CoapAssumption DEF Ranges
  <2>6. /\ pc' = "idle" /\ status' = "content" /\ optlist' = <<>> /\ UNCHANGED tries
        /\ net' \subseteq net /\ (~dup' => ~dup)
    BY <1>7 DEF ReceiveLast, Taken
  <2>7. nevent' \in 0..MaxEvents
    BY <1>7, EventKept DEF ReceiveLast, Taken, Ranges
  <2>8. dup' \in BOOLEAN
    BY <1>7 DEF ReceiveLast, Taken, Ranges
  <2>9. Messages'
    BY <2>6 DEF Messages
  <2>10. Ranges'
    <3>1. buf' \in Seq([uri : Uri, n : Nat, new : BOOLEAN]) /\ Len(buf') <= BufSize
      BY <2>1, <2>2, KeptEffect
    <3>2. QED
      BY <2>1, <2>6, <2>7, <2>8, <3>1 DEF Ranges
  <2>11. Attempts'
    BY <1>7 DEF ReceiveLast, Attempts
  <2>12. AnswersAreOwn'
    <3>1. buf \in Seq([uri : Uri, n : Nat, new : BOOLEAN])
      BY DEF Ranges
    <3>2. CASE Len(buf) < BufSize
      <4>1. DOMAIN Kept(m) = 1..(Len(buf) + 1)
        <5>1. Len(Kept(m)) = Len(buf) + 1
          BY <2>2, <3>2, KeptEffect
        <5>2. Kept(m) \in Seq([uri : Uri, n : Nat, new : BOOLEAN])
          BY <2>2, KeptEffect
        <5>3. QED
          BY <5>1
      <4>2. ASSUME NEW i \in 1..(Len(buf) + 1) PROVE Kept(m)[i].uri = uri /\ Kept(m)[i].new
        <5>1. CASE i \in 1..Len(buf)
          <6>1. Kept(m)[i] = buf[i]
            BY <2>2, <5>1, KeptEffect
          <6>2. i \in DOMAIN buf
            BY <5>1
          <6>3. QED
            BY <6>1, <6>2 DEF AnswersAreOwn
        <5>2. CASE i = Len(buf) + 1
          <6>1. Kept(m)[Len(buf) + 1] = [uri |-> m.uri, n |-> m.n, new |-> m.new]
            BY <2>2, <3>2, KeptEffect
          <6>2. QED
            BY <2>2, <5>2, <6>1
        <5>3. QED
          BY <5>1, <5>2
      <4>3. QED
        BY <2>1, <4>1, <4>2 DEF AnswersAreOwn
    <3>3. CASE ~(Len(buf) < BufSize)
      BY <2>1, <2>2, <3>3, KeptEffect DEF AnswersAreOwn
    <3>4. QED
      BY <3>2, <3>3
  <2>13. BlocksBefore'
    BY <1>7 DEF ReceiveLast, BlocksBefore
  <2>14. ContentIsComplete'
    <3>1. buf' \in Seq([uri : Uri, n : Nat, new : BOOLEAN])
      BY <2>1, <2>2, KeptEffect
    <3>2. SUFFICES ASSUME Len(buf') < BufSize, NEW k \in 0..(Blocks[uri] - 1)
                    PROVE  \E i \in 1..Len(buf') : buf'[i].n = k
      BY <2>1 DEF ContentIsComplete
    <3>3. k \in 0..m.n
      BY <2>2, <2>5
    <3>4. QED
      BY <2>4, <3>2, <3>3
  <2>15. OneUnderWay'
    BY <1>7 DEF ReceiveLast, OneUnderWay
  <2>16. Received'
    <3>1. SUFFICES ASSUME ~dup' PROVE Holds(buf', uri', Blocks[uri'])
      BY DEF Received
    <3>2. Holds(buf, uri, m.n)
      BY <2>1, <2>3, <2>6, <3>1 DEF OneUnderWay, HasBlock
    <3>3. QED
      BY <2>1, <2>2, <2>5, <3>2, KeptInOrder
  <2>17. QED
    BY <2>9, <2>10, <2>11, <2>12, <2>13, <2>14, <2>15, <2>16
<1>8. ASSUME NEW m \in net, ReceiveError(m) PROVE IInv'
  <2>1. /\ pc' = "idle" /\ status' = "error" /\ optlist' = <<>> /\ UNCHANGED <<uri, tries, buf>>
        /\ net' \subseteq net
    BY <1>8 DEF ReceiveError, Taken
  <2>2. nevent' \in 0..MaxEvents
    BY <1>8, EventKept DEF ReceiveError, Taken, Ranges
  <2>3. dup' \in BOOLEAN
    BY <1>8 DEF ReceiveError, Taken, Ranges
  <2>4. Messages'
    BY <2>1 DEF Messages
  <2>5. Ranges'
    BY <2>1, <2>2, <2>3 DEF Ranges
  <2>6. Attempts'
    BY <1>8 DEF ReceiveError, Attempts
  <2>7. AnswersAreOwn'
    BY <1>8 DEF ReceiveError, AnswersAreOwn
  <2>8. BlocksBefore'
    BY <1>8 DEF ReceiveError, BlocksBefore
  <2>9. ContentIsComplete'
    BY <1>8 DEF ReceiveError, ContentIsComplete
  <2>10. OneUnderWay'
    BY <1>8 DEF ReceiveError, OneUnderWay
  <2>11. Received'
    BY <1>8 DEF ReceiveError, Received
  <2>12. QED
    BY <2>4, <2>5, <2>6, <2>7, <2>8, <2>9, <2>10, <2>11
<1>9. ASSUME NEW m \in net, Serve(m) PROVE IInv'
  <2>1. /\ IsRequest(m)
        /\ \A r \in net' : r \in net \/ (m.open /\ r = Answer(m))
        /\ ~dup' => ~dup /\ net' = (net \ {m}) \union (IF m.open THEN {Answer(m)} ELSE {})
        /\ UNCHANGED <<pc, uri, tries, optlist, buf, status>>
    BY <1>9 DEF Serve, caller
  <2>2. nevent' \in 0..MaxEvents
    BY <1>9, EventKept DEF Serve, Ranges
  <2>3. dup' \in BOOLEAN
    BY <1>9 DEF Serve, Ranges
  <2>4. m \in Requests
    BY <2>1, Kinds DEF Messages, IsRequest
  <2>5. \/ Answer(m) \in Errors
        \/ /\ Answer(m) \in Responses /\ Answer(m).n = m.n /\ Len(m.opts) = 1
           /\ Answer(m).uri = m.opts[1] /\ Answer(m).new = TRUE /\ m.n < Blocks[m.opts[1]]
    BY <2>4, AnswerKind, Made, Kinds
  <2>6. Messages'
    BY <2>1, <2>5 DEF Messages
  <2>7. Ranges'
    BY <2>1, <2>2, <2>3 DEF Ranges
  <2>8. Attempts'
    BY <2>1, <2>5, Kinds DEF Attempts, IsRequest, IsResponse
  <2>9. AnswersAreOwn'
    BY <1>9 DEF Serve, caller, AnswersAreOwn
  <2>10. BlocksBefore'
    BY <2>1, <2>5, Kinds DEF BlocksBefore, IsRequest, IsResponse
  <2>11. ContentIsComplete'
    BY <1>9 DEF Serve, caller, ContentIsComplete
  <2>12. OneUnderWay'
    <3>1. SUFFICES ASSUME pc = "wait", ~dup'
                    PROVE  /\ \A m1, m2 \in Awaited' : m1 = m2
                           /\ \A r \in Awaited' : HasBlock(r) => Holds(buf, uri, r.n)
      BY <2>1 DEF OneUnderWay
    <3>2. /\ \A m1, m2 \in Awaited : m1 = m2
          /\ \A r \in Awaited : HasBlock(r) => Holds(buf, uri, r.n)
      BY <2>1, <3>1 DEF OneUnderWay
    <3>3. CASE m.open
      <4>1. m \in Awaited /\ HasBlock(m)
        BY <2>1, <3>3 DEF Awaited, IsRequest, HasBlock
      <4>2. \A r \in Awaited' : r = Answer(m)
        BY <2>1, <3>1, <3>2, <4>1 DEF Awaited
      <4>3. HasBlock(Answer(m)) => Holds(buf, uri, Answer(m).n)
        BY <2>5, <3>2, <4>1, Kinds DEF HasBlock
      <4>4. QED
        BY <4>2, <4>3
    <3>4. CASE ~m.open
      BY <2>1, <3>2, <3>4 DEF Awaited
    <3>5. QED
      BY <3>3, <3>4
  <2>13. Received'
    BY <1>9 DEF Serve, caller, Received
  <2>14. QED
    BY <2>6, <2>7, <2>8, <2>9, <2>10, <2>11, <2>12, <2>13
<1>10. ASSUME NEW m \in net, Lose(m) PROVE IInv'
  <2>1. Messages'
    BY <1>10 DEF Lose, Messages
  <2>2. Ranges'
    BY <1>10, EventKept DEF Lose, caller, Ranges
  <2>3. Attempts'
    BY <1>10 DEF Lose, caller, Attempts
  <2>4. AnswersAreOwn'
    BY <1>10 DEF Lose, caller, AnswersAreOwn
  <2>5. BlocksBefore'
    BY <1>10 DEF Lose, caller, BlocksBefore
  <2>6. ContentIsComplete'
    BY <1>10 DEF Lose, caller, ContentIsComplete
  <2>7. OneUnderWay'
    BY <1>10 DEF Lose, caller, OneUnderWay, Awaited
  <2>8. Received'
    BY <1>10 DEF Lose, caller, Received
  <2>9. QED
    BY <2>1, <2>2, <2>3, <2>4, <2>5, <2>6, <2>7, <2>8
<1>11. ASSUME NEW m \in net, ServeWithout(m) PROVE IInv'
  <2>1. PICK a \in {Changed, Reset} : net' = (net \ {m}) \union {a}
    BY <1>11 DEF ServeWithout
  <2>2. a \in Errors /\ ~IsRequest(a) /\ ~IsResponse(a) /\ ~HasBlock(a)
    BY Made, Kinds DEF IsRequest, IsResponse, HasBlock
  <2>3. /\ UNCHANGED <<pc, uri, tries, optlist, buf, status, dup>>
        /\ IsRequest(m) /\ m.open
    BY <1>11 DEF ServeWithout, caller
  <2>4. Messages'
    BY <2>1, <2>2 DEF Messages
  <2>5. Ranges'
    BY <1>11, <2>3, EventKept DEF ServeWithout, Ranges
  <2>6. Attempts'
    BY <2>1, <2>2, <2>3 DEF Attempts
  <2>7. AnswersAreOwn'
    BY <2>3 DEF AnswersAreOwn
  <2>8. BlocksBefore'
    BY <2>1, <2>2, <2>3 DEF BlocksBefore
  <2>9. ContentIsComplete'
    BY <2>3 DEF ContentIsComplete
  <2>10. OneUnderWay'
    <3>1. SUFFICES ASSUME pc = "wait", ~dup
                   PROVE  /\ \A m1, m2 \in Awaited' : m1 = m2
                          /\ \A r \in Awaited' : HasBlock(r) => Holds(buf, uri, r.n)
      BY <2>3 DEF OneUnderWay
    <3>2. m \in Awaited /\ \A m1, m2 \in Awaited : m1 = m2
      BY <2>3, <3>1 DEF OneUnderWay, Awaited
    <3>3. \A r \in Awaited' : r = a
      BY <2>1, <3>2 DEF Awaited
    <3>4. QED
      BY <2>2, <3>3
  <2>11. Received'
    BY <2>3 DEF Received
  <2>12. QED
    BY <2>4, <2>5, <2>6, <2>7, <2>8, <2>9, <2>10, <2>11
<1>12. ASSUME NEW m \in net, ReceiveChanged(m) \/ ReceiveReset(m) PROVE IInv'
  <2>1. /\ pc = "wait" /\ UNCHANGED <<uri, buf, status>> /\ net' \subseteq net
        /\ ~dup' => ~dup
    BY <1>12 DEF ReceiveChanged, ReceiveReset, NextTry, Taken, caller
  <2>2. \/ pc' = "wait" /\ optlist' = optlist /\ tries' = tries
        \/ pc' # "wait"
    BY <1>12 DEF ReceiveChanged, ReceiveReset, NextTry, caller
  <2>3. nevent' \in 0..MaxEvents
    BY <1>12, EventKept DEF ReceiveChanged, ReceiveReset, Taken, Ranges
  <2>4. dup' \in BOOLEAN
    BY <1>12 DEF ReceiveChanged, ReceiveReset, Taken, Ranges
  <2>5. /\ pc' \in {"idle", "attempt", "wait"} /\ tries' \in 0..(Retries - 1)
        /\ optlist' \in Seq(Uri)
    <3>1. CASE ReceiveChanged(m)
      <4>1. optlist' \in Seq(Uri)
        BY <3>1, Empty DEF ReceiveChanged
      <4>2. pc' \in {"idle", "attempt", "wait"}
        BY <3>1 DEF ReceiveChanged, NextTry
      <4>3. tries' \in 0..(Retries - 1)
        BY <3>1, Numbers DEF ReceiveChanged, NextTry, Ranges
      <4>4. QED
        BY <4>1, <4>2, <4>3
    <3>2. CASE ReceiveReset(m)
      BY <3>2 DEF ReceiveReset, caller, Ranges
    <3>3. QED
      BY <1>12, <3>1, <3>2
  <2>6. Messages'
    BY <2>1 DEF Messages
  <2>7. Ranges'
    BY <2>1, <2>3, <2>4, <2>5 DEF Ranges
  <2>8. Attempts'
    BY <2>1, <2>2 DEF Attempts
  <2>9. AnswersAreOwn'
    BY <2>1 DEF AnswersAreOwn
  <2>10. BlocksBefore'
    BY <2>1, <2>2 DEF BlocksBefore
  <2>11. ContentIsComplete'
    BY <2>1 DEF ContentIsComplete, Attempts
  <2>12. OneUnderWay'
    BY <2>1 DEF OneUnderWay, Awaited
  <2>13. Received'
    BY <2>1 DEF Received
  <2>14. QED
    BY <2>6, <2>7, <2>8, <2>9, <2>10, <2>11, <2>12, <2>13
<1>13. CASE UNCHANGED vars
  BY <1>13 DEF vars, caller, Awaited, Messages, Ranges, Attempts, AnswersAreOwn,
     BlocksBefore, ContentIsComplete, OneUnderWay, Received
<1>14. QED
  BY <1>1, <1>2, <1>3, <1>4, <1>5, <1>6, <1>7, <1>8, <1>9, <1>10, <1>11, <1>12, <1>13 DEF Next, Attempt,
     Receive

-----------------------------------------------------------------------------
(* Theorems *)

\* The inductive invariant holds in every reachable state.
THEOREM Invariance == Spec => []IInv
<1>1. Init => IInv
  BY InitHolds
<1>2. IInv /\ [Next]_vars => IInv'
  BY StepHolds
<1>3. QED
  BY <1>1, <1>2, PTL DEF Spec

\* Type correctness of MyCoap; the buffer of the caller is never overrun.
THEOREM TypeCorrect == Spec => []TypeOK
<1>1. IInv => TypeOK
  <2> SUFFICES ASSUME IInv PROVE TypeOK
    OBVIOUS
  <2>1. ASSUME NEW m \in net
        PROVE  \/ IsRequest(m) /\ m.open \in BOOLEAN
               \/ m.type \in {"error", "changed", "reset"}
               \/ m.type = "response" /\ m.n < Blocks[m.uri]
    BY Kinds DEF IInv, Messages, IsRequest
  <2>2. QED
    BY <2>1 DEF IInv, Ranges, TypeOK
<1>2. QED
  BY <1>1, Invariance, PTL

\* What coap_send_cmd() copies to the buffer of a call was sent for this call and
\* for its resource, however late the answers to other calls arrive.
THEOREM OwnAnswers == Spec => []AnswersAreOwn
<1>1. IInv => AnswersAreOwn
  BY DEF IInv
<1>2. QED
  BY <1>1, Invariance, PTL

\* message_handler() sets the status "content" only after every block was copied, as
\* far as they fit, also when blocks are delivered twice.
THEOREM CompleteContent == Spec => []ContentIsComplete
<1>1. IInv => ContentIsComplete
  BY DEF IInv
<1>2. QED
  BY <1>1, Invariance, PTL

\* Without a message that was delivered twice the buffer is exactly the content, or
\* as much of it as fits.
THEOREM ExactContent == Spec => []ContentIsExact
<1>1. IInv => ContentIsExact
  <2> DEFINE size == IF Blocks[uri] <= BufSize THEN Blocks[uri] ELSE BufSize
  <2> SUFFICES ASSUME IInv, status = "content", buf # <<>>, ~dup
               PROVE  buf = [i \in 1..size |-> [uri |-> uri, n |-> i - 1, new |-> TRUE]]
    BY DEF ContentIsExact
  <2>1. Len(buf) = size /\ \A i \in 1..Len(buf) : buf[i] = Block(uri, i - 1)
    BY DEF IInv, Received, Holds
  <2>2. buf \in Seq([uri : Uri, n : Nat, new : BOOLEAN])
    BY DEF IInv, Ranges
  <2>3. buf = [i \in 1..size |-> buf[i]]
    BY <2>1, <2>2
  <2>4. \A i \in 1..size : buf[i] = [uri |-> uri, n |-> i - 1, new |-> TRUE]
    BY <2>1 DEF Block
  <2> HIDE DEF size
  <2>5. QED
    BY <2>3, <2>4
<1>2. QED
  BY <1>1, Invariance, PTL
=============================================================================

--------------------------- MODULE NetChangeProofs ---------------------------
(***************************************************************************)
(* Proofs about the change of network settings, for any number of          *)
(* sessions, configurations, commands and power failures: when a cleared   *)
(* netTypeChanged can be trusted, and that no change is kept outside of    *)
(* the walk of a login.                                                    *)
(***************************************************************************)
EXTENDS NetChange, TLAPS

USE DEF GetSettings

\* TypeOK in two parts: what the program counters and the list range over,
\* and what the files, the settings and the web interface hold.
Shape == /\ queue \in Seq(Command)
         /\ sent \in Seq(Message)
         /\ netTypeChanged \in {0, 1}
         /\ cmd \in Nat /\ walk \in Nat
         /\ pc \in {"idle"} \union Applying \union Resetting \union Keeping

Data == /\ new \in Rows /\ std \in Rows /\ args \in Rows
        /\ {interfaces, backup, confirmed} \subseteq File
        /\ resolv \in Value \union {"lease"}
        /\ eth \in File \union {"down"}
        /\ web \in [Session -> {"out", "in", "type", "adr", "dns", "send"}]
        /\ want \in [Session -> Config]
        /\ nsent \in 0..MaxSent /\ nnet \in 0..MaxNet /\ nreboot \in 0..MaxReboot

\* While a change is being applied its command is in the list, and during a
\* walk it is the command the walk has come to.
AppliesQueued == pc \in Applying => /\ cmd \in DOMAIN queue
                                    /\ queue[cmd].kind = "net"
                                    /\ walk # 0 => cmd = walk

\* With netTypeChanged cleared, no command that the walk has passed waits,
\* and outside of a walk no command at all.
NoneWaits == netTypeChanged = 0 =>
               \A n \in DOMAIN queue :
                  walk = 0 \/ n < walk => queue[n].next = "none"

\* Only a change ever waits.
LoginsReady == \A n \in DOMAIN queue :
                  queue[n].kind = "login" => queue[n].next = "none"

IInv == Shape /\ AppliesQueued /\ NoneWaits /\ LoginsReady

-----------------------------------------------------------------------------
(* Lists *)

\* Two lists, one behind the other.
LEMMA ConcatEffect ==
  ASSUME NEW S, NEW s \in Seq(S), NEW t \in Seq(S)
  PROVE  /\ s \o t \in Seq(S) /\ Len(s \o t) = Len(s) + Len(t)
         /\ Len(s) \in Nat /\ Len(t) \in Nat
         /\ \A k \in 1..Len(s) : (s \o t)[k] = s[k]
         /\ \A k \in 1..Len(t) : (s \o t)[Len(s) + k] = t[k]
  OBVIOUS

\* What is left of a list without the entry at position n.
LEMMA RemoveAt ==
  ASSUME NEW S, NEW q \in Seq(S), NEW n \in 1..Len(q)
  PROVE  LET r == SubSeq(q, 1, n - 1) \o SubSeq(q, n + 1, Len(q))
         IN /\ r \in Seq(S)
            /\ DOMAIN r = 1..(Len(q) - 1)
            /\ \A k \in DOMAIN r : r[k] = IF k < n THEN q[k] ELSE q[k + 1]
<1> DEFINE a == SubSeq(q, 1, n - 1)
           b == SubSeq(q, n + 1, Len(q))
           r == a \o b
<1>1. /\ a \in Seq(S) /\ Len(a) = n - 1
      /\ \A k \in 1..(n - 1) : a[k] = q[k]
  OBVIOUS
<1>2. /\ b \in Seq(S) /\ Len(b) = Len(q) - n
      /\ \A k \in 1..(Len(q) - n) : b[k] = q[n + k]
  OBVIOUS
<1>3. r = a \o b
  OBVIOUS
<1> HIDE DEF a, b, r
<1>4. /\ r \in Seq(S) /\ Len(r) = Len(q) - 1 /\ Len(q) \in Nat
      /\ \A k \in 1..(n - 1) : r[k] = a[k]
      /\ \A k \in 1..(Len(q) - n) : r[(n - 1) + k] = b[k]
  <2>1. /\ r \in Seq(S) /\ Len(r) = Len(a) + Len(b)
        /\ \A k \in 1..Len(a) : r[k] = a[k]
        /\ \A k \in 1..Len(b) : r[Len(a) + k] = b[k]
    <3>1. a \in Seq(S) /\ b \in Seq(S)
      BY <1>1, <1>2
    <3>2. /\ a \o b \in Seq(S) /\ Len(a \o b) = Len(a) + Len(b)
          /\ \A k \in 1..Len(a) : (a \o b)[k] = a[k]
          /\ \A k \in 1..Len(b) : (a \o b)[Len(a) + k] = b[k]
      BY <3>1, ConcatEffect
    <3>3. QED
      BY <1>3, <3>2
  <2>2. Len(q) \in Nat /\ Len(a) = n - 1 /\ Len(b) = Len(q) - n /\ (n - 1) + (Len(q) - n) = Len(q) - 1
    BY <1>1, <1>2
  <2>3. QED
    BY <2>1, <2>2
<1>5. DOMAIN r = 1..(Len(q) - 1)
  BY <1>4
<1>6. ASSUME NEW k \in 1..(Len(q) - 1)
      PROVE  r[k] = IF k < n THEN q[k] ELSE q[k + 1]
  <2>1. CASE k < n
    <3>1. k \in 1..(n - 1)
      BY <2>1
    <3>2. QED
      BY <1>1, <1>4, <2>1, <3>1
  <2>2. CASE ~(k < n)
    <3> DEFINE m == k - (n - 1)
    <3>1. m \in 1..(Len(q) - n) /\ n + m = k + 1 /\ (n - 1) + m = k
      BY <1>4, <2>2
    <3> HIDE DEF m
    <3>2. r[k] = b[m] /\ b[m] = q[k + 1]
      BY <1>2, <1>4, <3>1
    <3>3. QED
      BY <2>2, <3>2
  <2>3. QED
    BY <2>1, <2>2
<1>7. QED
  BY <1>4, <1>5, <1>6 DEF a, b, r

-----------------------------------------------------------------------------
\* Handling a command the walk has come to, or any command outside of a
\* walk, leaves NoneWaits as it is.
LEMMA RemoveKeeps ==
  ASSUME Shape, NoneWaits, LoginsReady, NEW n \in DOMAIN queue, SetCmdHandled(n),
         walk = 0 \/ n = walk
  PROVE  /\ queue' \in Seq(Command)
         /\ LoginsReady'
         /\ netTypeChanged = 0 =>
              \A k \in DOMAIN queue' :
                 walk = 0 \/ k < walk => queue'[k].next = "none"
<1>1. /\ queue' \in Seq(Command)
      /\ DOMAIN queue' = 1..(Len(queue) - 1)
      /\ \A k \in DOMAIN queue' :
            queue'[k] = IF k < n THEN queue[k] ELSE queue[k + 1]
  <2>1. queue \in Seq(Command) /\ n \in 1..Len(queue)
    BY DEF Shape
  <2>2. QED
    BY <2>1, RemoveAt DEF SetCmdHandled
<1>2. DOMAIN queue = 1..Len(queue) /\ Len(queue) \in Nat
  BY DEF Shape
<1>3. ASSUME netTypeChanged = 0, NEW k \in DOMAIN queue', walk = 0 \/ k < walk
      PROVE  queue'[k].next = "none"
  <2>1. CASE k < n
    BY <1>1, <1>2, <1>3, <2>1 DEF NoneWaits, Shape
  <2>2. CASE ~(k < n)
    <3>1. walk = 0
      BY <1>1, <1>2, <1>3, <2>2 DEF Shape
    <3>2. k + 1 \in DOMAIN queue /\ queue'[k] = queue[k + 1]
      BY <1>1, <1>2, <1>3, <2>2
    <3>3. QED
      BY <1>3, <3>1, <3>2 DEF NoneWaits
  <2>3. QED
    BY <2>1, <2>2
<1>4. LoginsReady'
  BY <1>1, <1>2 DEF LoginsReady
<1>5. QED
  BY <1>1, <1>3, <1>4

-----------------------------------------------------------------------------
(* The steps of the main thread *)

LEMMA ReadNewKeeps ==
  ASSUME IInv, NEW n \in DOMAIN queue, pc = "idle", ReadNew(n),
         queue[n].kind = "net", walk = 0 \/ n = walk
  PROVE  IInv'
<1>1. UNCHANGED <<sent, netTypeChanged, walk>> /\ cmd' = n
  BY DEF ReadNew, site, net, count
<1>2. n \in Nat
  BY DEF IInv, Shape
<1>3. CASE queue' = queue /\ pc' \in {"dns", "backup"}
  BY <1>1, <1>2, <1>3 DEF IInv, Shape, AppliesQueued, NoneWaits, LoginsReady, Applying
<1>4. CASE SetCmdHandled(n) /\ pc' = "idle"
  <2>1. /\ queue' \in Seq(Command)
        /\ LoginsReady'
        /\ netTypeChanged = 0 =>
             \A k \in DOMAIN queue' :
                walk = 0 \/ k < walk => queue'[k].next = "none"
    BY <1>4, RemoveKeeps DEF IInv
  <2>2. QED
    BY <1>1, <1>2, <1>4, <2>1 DEF IInv, Shape, AppliesQueued, NoneWaits, LoginsReady, Applying
<1>5. QED
  BY <1>3, <1>4 DEF ReadNew

LEMMA DecideKeeps ==
  ASSUME IInv, NEW n \in DOMAIN queue, pc = "idle", Decide(n),
         walk = 0 \/ n = walk
  PROVE  IInv'
<1>1. UNCHANGED <<sent, netTypeChanged, walk, cmd>>
  BY DEF Decide, site, net, count
<1>2. pc' \in {"restore", "keep_type"}
  BY DEF Decide
<1>3. /\ queue' \in Seq(Command)
      /\ LoginsReady'
      /\ netTypeChanged = 0 =>
           \A k \in DOMAIN queue' :
              walk = 0 \/ k < walk => queue'[k].next = "none"
  BY RemoveKeeps DEF IInv, Decide
<1>4. QED
  BY <1>1, <1>2, <1>3
  DEF IInv, Shape, AppliesQueued, NoneWaits, Applying, Resetting, Keeping

LEMMA ApplyDoneKeeps ==
  ASSUME IInv, ApplyDone
  PROVE  IInv'
<1>1. /\ cmd \in DOMAIN queue /\ queue[cmd].kind = "net"
      /\ pc' = "idle" /\ netTypeChanged' = 1
  BY DEF IInv, AppliesQueued, ApplyDone, Applying
<1>2. UNCHANGED <<sent, cmd>> /\ walk' \in Nat
  BY DEF IInv, Shape, ApplyDone
<1>3. queue' \in Seq(Command)
  <2>1. [queue[cmd] EXCEPT !.next = "later"] \in Command
    <3>1. queue[cmd] \in Command
      BY <1>1 DEF IInv, Shape
    <3>2. QED
      BY <3>1 DEF Command
  <2>2. queue' = [queue EXCEPT ![cmd] = [queue[cmd] EXCEPT !.next = "later"]]
    BY DEF ApplyDone
  <2>3. QED
    BY <1>1, <2>1, <2>2 DEF IInv, Shape
<1>4. LoginsReady'
  BY <1>1 DEF IInv, AppliesQueued, LoginsReady, ApplyDone, Shape, Applying
<1>5. QED
  BY <1>1, <1>2, <1>3, <1>4 DEF IInv, Shape, AppliesQueued, NoneWaits, LoginsReady, Applying

LEMMA ApplyFailsKeeps ==
  ASSUME IInv, ApplyFails
  PROVE  IInv'
<1>1. pc \in Applying /\ pc' = "idle" /\ SetCmdHandled(cmd)
  BY DEF ApplyFails, Goto
<1>2. UNCHANGED <<sent, netTypeChanged, walk, cmd>>
  BY DEF ApplyFails, Goto
<1>3. cmd \in DOMAIN queue /\ (walk = 0 \/ cmd = walk)
  BY <1>1 DEF IInv, AppliesQueued
<1>4. /\ queue' \in Seq(Command)
      /\ LoginsReady'
      /\ netTypeChanged = 0 =>
           \A k \in DOMAIN queue' :
              walk = 0 \/ k < walk => queue'[k].next = "none"
  BY <1>1, <1>3, RemoveKeeps DEF IInv
<1>5. QED
  BY <1>1, <1>2, <1>4 DEF IInv, Shape, AppliesQueued, NoneWaits, LoginsReady, Applying

\* The steps of ipchanger move pc inside of the list of one command.
LEMMA IpchangerKeeps ==
  ASSUME IInv,
         \/ SetDns \/ SaveBackup \/ WriteInterfaces \/ RestoreBackup
         \/ IfDown \/ ResetDone \/ ResetFails \/ Keep
  PROVE  IInv'
<1>1. UNCHANGED <<sent, queue, netTypeChanged, walk, cmd>>
  BY DEF SetDns, SaveBackup, WriteInterfaces, RestoreBackup, IfDown, ResetDone,
         ResetFails, Keep, KeepRow, Goto, bus
<1>2. /\ pc' \in {"idle"} \union Applying \union Resetting \union Keeping
      /\ pc' \in Applying => pc \in Applying
  BY DEF SetDns, SaveBackup, WriteInterfaces, RestoreBackup, IfDown, ResetDone,
         ResetFails, Keep, KeepRow, Goto, Applying, Resetting, Keeping
<1>3. QED
  BY <1>1, <1>2 DEF IInv, Shape, AppliesQueued, NoneWaits, LoginsReady

LEMMA HandleLoginKeeps ==
  ASSUME IInv, NEW n \in DOMAIN queue, HandleLogin(n)
  PROVE  IInv'
<1>1. /\ UNCHANGED <<sent, cmd, pc>>
      /\ walk' = 1 /\ netTypeChanged' = 0 /\ pc = "idle"
      /\ SetCmdHandled(n)
  BY DEF HandleLogin, Unlocked
<1>2. queue' \in Seq(Command) /\ LoginsReady'
  <2>1. /\ queue' \in Seq(Command)
        /\ DOMAIN queue' = 1..(Len(queue) - 1)
        /\ \A k \in DOMAIN queue' :
              queue'[k] = IF k < n THEN queue[k] ELSE queue[k + 1]
    <3>1. queue \in Seq(Command) /\ n \in 1..Len(queue)
      BY DEF IInv, Shape
    <3>2. QED
      BY <1>1, <3>1, RemoveAt DEF SetCmdHandled
  <2>2. DOMAIN queue = 1..Len(queue) /\ Len(queue) \in Nat
    BY DEF IInv, Shape
  <2>3. LoginsReady'
    BY <2>1, <2>2 DEF IInv, LoginsReady
  <2>4. QED
    BY <2>1, <2>3
<1>3. \A k \in DOMAIN queue' : ~(k < 1)
  BY <1>2
<1>4. QED
  BY <1>1, <1>2, <1>3 DEF IInv, Shape, AppliesQueued, NoneWaits, LoginsReady, Applying

LEMMA WalkKeeps ==
  ASSUME IInv, WalkPasses \/ WalkEnds
  PROVE  IInv'
<1>1. UNCHANGED <<sent, queue, netTypeChanged, cmd, pc>> /\ pc = "idle"
  BY DEF WalkPasses, WalkEnds, bus
<1>2. DOMAIN queue = 1..Len(queue) /\ Len(queue) \in Nat /\ walk \in Nat
  BY DEF IInv, Shape
<1>3. CASE WalkPasses
  <2>1. walk' = walk + 1 /\ walk \in DOMAIN queue /\ queue[walk].kind = "login"
    BY <1>3 DEF WalkPasses
  <2>2. QED
    BY <1>1, <1>2, <2>1
    DEF IInv, Shape, AppliesQueued, NoneWaits, LoginsReady, Applying
<1>4. CASE WalkEnds
  <2>1. walk' = 0 /\ walk > Len(queue)
    BY <1>4 DEF WalkEnds
  <2>2. QED
    BY <1>1, <1>2, <2>1 DEF IInv, Shape, AppliesQueued, NoneWaits, LoginsReady, Applying
<1>5. QED
  BY <1>3, <1>4

-----------------------------------------------------------------------------
(* The other actors *)

\* The web interface only sends; what it sends waits outside of the list.
LEMMA WebKeeps ==
  ASSUME IInv, Data, Web
  PROVE  IInv'
<1>1. UNCHANGED <<queue, netTypeChanged, pc, cmd, walk>>
  BY DEF Web, LogIn, Save, WriteRow, SendChange, main, bus
<1>2. sent' \in Seq(Message)
  <2>1. CASE sent' = sent
    BY <2>1 DEF IInv, Shape
  <2>2. ASSUME NEW k \in {"net", "login"}, Send(k)
        PROVE  sent' \in Seq(Message)
    <3>1. [kind |-> k, via |-> eth] \in Message
      BY DEF Message, Data
    <3>2. QED
      BY <2>2, <3>1 DEF IInv, Shape, Send
  <2>3. QED
    BY <2>1, <2>2 DEF Web, LogIn, Save, WriteRow, SendChange, bus
<1>3. QED
  BY <1>1, <1>2 DEF IInv, Shape, AppliesQueued, NoneWaits, LoginsReady

\* A new command stands at the end of the list and does not wait.
LEMMA PutKeeps ==
  ASSUME IInv, Put
  PROVE  IInv'
<1> DEFINE c == [kind |-> Head(sent).kind, via |-> Head(sent).via, next |-> "none"]
<1>1. UNCHANGED <<netTypeChanged, pc, cmd, walk>> /\ pc = "idle"
  BY DEF Put, Unlocked, main
<1>2. sent \in Seq(Message) /\ sent # <<>> /\ sent' = Tail(sent)
  BY DEF IInv, Shape, Put
<1>3. Head(sent) \in Message /\ sent' \in Seq(Message)
  BY <1>2
<1>4. c \in Command /\ c.next = "none"
  BY <1>3 DEF Message, Command
<1>5. queue' = Append(queue, c)
  BY DEF Put
<1> HIDE DEF c
<1>6. /\ queue' \in Seq(Command)
      /\ DOMAIN queue' = 1..(Len(queue) + 1)
      /\ \A k \in DOMAIN queue' :
            \/ k \in DOMAIN queue /\ queue'[k] = queue[k]
            \/ queue'[k] = c
  BY <1>4, <1>5 DEF IInv, Shape
<1>7. QED
  BY <1>1, <1>3, <1>4, <1>6
  DEF IInv, Shape, AppliesQueued, NoneWaits, LoginsReady, Applying

LEMMA TickKeeps ==
  ASSUME IInv, NEW n \in DOMAIN queue, Tick(n)
  PROVE  IInv'
<1>1. UNCHANGED <<sent, netTypeChanged, pc, cmd, walk>> /\ pc = "idle"
  BY DEF Tick, Unlocked, main
<1>2. queue[n].next = "later" /\ walk = 0
  BY DEF Tick, Unlocked
<1>3. queue[n] \in Command
  BY DEF IInv, Shape
<1>4. [queue[n] EXCEPT !.next = "due"] \in Command
  BY <1>3 DEF Command
<1>5. queue' = [queue EXCEPT ![n] = [queue[n] EXCEPT !.next = "due"]]
  BY DEF Tick
<1>6. queue' \in Seq(Command) /\ DOMAIN queue' = DOMAIN queue
  BY <1>4, <1>5 DEF IInv, Shape
<1>7. queue[n].kind # "login" /\ netTypeChanged # 0
  BY <1>2 DEF IInv, LoginsReady, NoneWaits
<1>8. LoginsReady'
  BY <1>3, <1>5, <1>6, <1>7 DEF IInv, LoginsReady, Command
<1>9. QED
  BY <1>1, <1>6, <1>7, <1>8
  DEF IInv, Shape, AppliesQueued, NoneWaits, Applying

LEMMA RebootKeeps ==
  ASSUME IInv, Reboot
  PROVE  IInv'
<1>1. /\ sent' = <<>> /\ netTypeChanged' = 1
      /\ pc' = "idle" /\ cmd' = 0 /\ walk' = 0
  BY DEF Reboot
<1>2. PICK order \in Bijection(DOMAIN queue, DOMAIN queue) :
        queue' = [n \in DOMAIN queue |-> [queue[order[n]] EXCEPT !.next = "none"]]
  BY DEF Reboot
<1>3. \A n \in DOMAIN queue : [queue[order[n]] EXCEPT !.next = "none"]
                                 \in {c \in Command : c.next = "none"}
  <2>1. \A n \in DOMAIN queue : order[n] \in DOMAIN queue
    BY DEF Bijection, Injection
  <2>2. \A n \in DOMAIN queue : queue[order[n]] \in Command
    BY <2>1 DEF IInv, Shape
  <2>3. QED
    BY <2>2 DEF Command
<1>4. queue' \in Seq(Command)
  <2>1. DOMAIN queue = 1..Len(queue) /\ Len(queue) \in Nat
    BY DEF IInv, Shape
  <2>2. /\ DOMAIN queue' = 1..Len(queue)
        /\ \A n \in 1..Len(queue) : queue'[n] \in Command
    BY <1>2, <1>3, <2>1
  <2>3. queue' = [n \in 1..Len(queue) |-> queue'[n]]
    BY <1>2, <2>1
  <2>4. QED
    BY <2>1, <2>2, <2>3
<1>5. \A n \in DOMAIN queue' : queue'[n].next = "none"
  BY <1>2, <1>3
<1>6. QED
  BY <1>1, <1>4, <1>5
  DEF IInv, Shape, AppliesQueued, NoneWaits, LoginsReady, Applying

-----------------------------------------------------------------------------
(* What the files and settings hold *)

LEMMA WebKeepsData ==
  ASSUME Data, Web
  PROVE  Data'
<1>0. UNCHANGED <<std, args, interfaces, backup, confirmed, resolv, eth, nreboot>>
  BY DEF Web, LogIn, Save, WriteRow, SendChange, net, main, count
<1> SUFFICES ASSUME NEW s \in Session,
                    \/ LogIn(s)
                    \/ \E c \in Config : Save(s, c)
                    \/ WriteRow(s)
                    \/ SendChange(s)
             PROVE  Data'
  BY DEF Web
<1>1. CASE LogIn(s)
  BY <1>0, <1>1, NetChangeAssumption DEF LogIn, Send, Data
<1>2. ASSUME NEW c \in Config, Save(s, c)
      PROVE  Data'
  BY <1>0, <1>2, NetChangeAssumption DEF Save, Data
<1>3. CASE WriteRow(s)
  <2>1. UNCHANGED <<want, nsent, nnet>>
    BY <1>3 DEF WriteRow, count
  <2>2. web' \in [Session -> {"out", "in", "type", "adr", "dns", "send"}]
    BY <1>3 DEF WriteRow, Data
  <2>3. new' \in Rows
    <3>1. Asked(want[s]) \in Rows /\ new \in Rows
      BY DEF Asked, Rows, Value, Data, Config
    <3>2. CASE new' = new
      BY <3>1, <3>2
    <3>3. CASE web[s] = "type" /\ new' = [new EXCEPT !["type"] = Asked(want[s])["type"]]
      BY <3>1, <3>3 DEF Rows
    <3>4. CASE web[s] = "adr" /\ new' = [new EXCEPT !["adr"] = Asked(want[s])["adr"]]
      BY <3>1, <3>4 DEF Rows
    <3>5. CASE web[s] = "dns" /\ new' = [new EXCEPT !["dns"] = Asked(want[s])["dns"]]
      BY <3>1, <3>5 DEF Rows
    <3>6. QED
      BY <1>3, <3>2, <3>3, <3>4, <3>5 DEF WriteRow
  <2>4. QED
    BY <1>0, <2>1, <2>2, <2>3 DEF Data
<1>4. CASE SendChange(s)
  BY <1>0, <1>4, NetChangeAssumption DEF SendChange, Send, Data
<1>5. QED
  BY <1>1, <1>2, <1>3, <1>4

LEMMA IpchangerKeepsData ==
  ASSUME Data,
         \/ SetDns \/ SaveBackup \/ WriteInterfaces \/ RestoreBackup
         \/ IfDown \/ ResetDone \/ ApplyDone \/ ApplyFails \/ ResetFails
  PROVE  Data'
<1>1. UNCHANGED <<new, web, want, std, args, confirmed, nsent, nnet, nreboot>>
  BY DEF SetDns, SaveBackup, WriteInterfaces, RestoreBackup, IfDown, ResetDone,
         ApplyDone, ApplyFails, ResetFails, Goto, site, count
<1>2. args.adr \in Value /\ args.dns \in Value
  BY DEF Data, Rows
<1>3. Value \subseteq File /\ "dhcp" \in File
  BY DEF Value, File, Config
<1>4. interfaces' \in File /\ backup' \in File
  BY <1>2, <1>3
  DEF SetDns, SaveBackup, WriteInterfaces, RestoreBackup, IfDown, ResetDone,
      ApplyDone, IfUp, ApplyFails, ResetFails, net, Data
<1>5. eth' \in File \union {"down"} /\ resolv' \in Value \union {"lease"}
  BY <1>2
  DEF SetDns, SaveBackup, WriteInterfaces, RestoreBackup, IfDown, ResetDone,
      ApplyDone, IfUp, ApplyFails, ResetFails, net, Data
<1>6. QED
  BY <1>1, <1>4, <1>5 DEF Data

LEMMA KeepKeepsData ==
  ASSUME Data, Keep
  PROVE  Data'
<1>1. UNCHANGED <<new, web, want, args, interfaces, backup, confirmed, resolv, eth,
                  nsent, nnet, nreboot>>
  BY DEF Keep, KeepRow, site, net, count
<1>2. args \in Rows /\ std \in Rows
  BY DEF Data
<1>3. CASE std' = std
  BY <1>2, <1>1, <1>3 DEF Data
<1>4. CASE std' = [std EXCEPT !["type"] = args["type"]]
  <2>1. std' \in Rows
    BY <1>2, <1>4 DEF Rows
  <2>2. QED
    BY <1>1, <2>1 DEF Data
<1>5. CASE std' = [std EXCEPT !["adr"] = args["adr"]]
  <2>1. std' \in Rows
    BY <1>2, <1>5 DEF Rows
  <2>2. QED
    BY <1>1, <2>1 DEF Data
<1>6. CASE std' = [std EXCEPT !["dns"] = args["dns"]]
  <2>1. std' \in Rows
    BY <1>2, <1>6 DEF Rows
  <2>2. QED
    BY <1>1, <2>1 DEF Data
<1>7. QED
  BY <1>3, <1>4, <1>5, <1>6 DEF Keep, KeepRow

\* The steps that start or end the handling of a command, requests and time.
LEMMA HandlerKeepsData ==
  ASSUME Data,
         \/ \E n \in DOMAIN queue : HandleNet(n) \/ HandleLogin(n) \/ Tick(n)
         \/ WalkPasses \/ WalkHandles \/ WalkEnds \/ Put \/ Reboot
  PROVE  Data'
<1>1. /\ UNCHANGED <<new, std, interfaces, backup, want, nsent, nnet>>
      /\ resolv' \in {resolv, "lease"}
  BY DEF HandleNet, ReadNew, Decide, HandleLogin, Tick, WalkPasses, WalkHandles,
         WalkEnds, Put, Reboot, IfUp, site, net, count
<1>2. args' \in Rows /\ confirmed' \in File /\ eth' \in File \union {"down"}
  <2>1. Delivered \in Rows
    BY DEF Delivered, Rows, Value
  <2>2. args' \in {args, new, Delivered}
    BY DEF HandleNet, ReadNew, Decide, HandleLogin, Tick, WalkPasses, WalkHandles,
           WalkEnds, Put, Reboot, main
  <2>3. confirmed' \in {confirmed, interfaces} /\ eth' \in {eth, interfaces}
    BY DEF HandleNet, ReadNew, Decide, HandleLogin, Tick, WalkPasses, WalkHandles,
           WalkEnds, Put, Reboot, IfUp, net
  <2>4. QED
    BY <2>1, <2>2, <2>3 DEF Data
<1>3. /\ web' \in [Session -> {"out", "in", "type", "adr", "dns", "send"}]
      /\ nreboot' \in 0..MaxReboot
  BY NetChangeAssumption
  DEF HandleNet, ReadNew, Decide, HandleLogin, Tick, WalkPasses, WalkHandles,
      WalkEnds, Put, Reboot, site, count, Data
<1>4. QED
  BY <1>1, <1>2, <1>3 DEF Data

-----------------------------------------------------------------------------
(* The theorems *)

LEMMA InitHolds == Init => IInv /\ Data
  BY NetChangeAssumption
  DEF Init, IInv, Shape, AppliesQueued, NoneWaits, LoginsReady, Data, Applying,
      Delivered, Rows, Value, File, Config

LEMMA StepKeeps ==
  ASSUME IInv, Data, [Next]_vars
  PROVE  IInv' /\ Data'
<1>1. CASE Web
  BY <1>1, WebKeeps, WebKeepsData
<1>2. CASE Put
  BY <1>2, PutKeeps, HandlerKeepsData
<1>3. ASSUME NEW n \in DOMAIN queue, HandleNet(n)
      PROVE  IInv' /\ Data'
  <2>1. pc = "idle" /\ walk = 0 /\ queue[n].kind = "net"
    BY <1>3 DEF HandleNet, Unlocked
  <2>2. ReadNew(n) \/ Decide(n)
    BY <1>3 DEF HandleNet
  <2>3. QED
    BY <1>3, <2>1, <2>2, ReadNewKeeps, DecideKeeps, HandlerKeepsData
<1>4. ASSUME NEW n \in DOMAIN queue, HandleLogin(n)
      PROVE  IInv' /\ Data'
  BY <1>4, HandleLoginKeeps, HandlerKeepsData
<1>5. CASE WalkPasses \/ WalkEnds
  BY <1>5, WalkKeeps, HandlerKeepsData
<1>6. CASE WalkHandles
  <2>1. pc = "idle" /\ walk \in DOMAIN queue /\ queue[walk].kind = "net"
    BY <1>6 DEF WalkHandles
  <2>2. ReadNew(walk) \/ Decide(walk)
    BY <1>6 DEF WalkHandles
  <2>3. QED
    BY <1>6, <2>1, <2>2, ReadNewKeeps, DecideKeeps, HandlerKeepsData
<1>7. CASE \/ SetDns \/ SaveBackup \/ WriteInterfaces \/ RestoreBackup
           \/ IfDown \/ ResetDone \/ ResetFails
  BY <1>7, IpchangerKeeps, IpchangerKeepsData
<1>8. CASE Keep
  BY <1>8, IpchangerKeeps, KeepKeepsData
<1>9. CASE ApplyDone
  BY <1>9, ApplyDoneKeeps, IpchangerKeepsData
<1>10. CASE ApplyFails
  BY <1>10, ApplyFailsKeeps, IpchangerKeepsData
<1>11. ASSUME NEW n \in DOMAIN queue, Tick(n)
       PROVE  IInv' /\ Data'
  BY <1>11, TickKeeps, HandlerKeepsData
<1>12. CASE Reboot
  BY <1>12, RebootKeeps, HandlerKeepsData
<1>13. CASE UNCHANGED vars
  BY <1>13 DEF vars, IInv, Shape, AppliesQueued, NoneWaits, LoginsReady, Data
<1>14. CASE HandlerIdle
  BY <1>13, <1>14 DEF HandlerIdle
<1>15. QED
  BY <1>1, <1>2, <1>3, <1>4, <1>5, <1>6, <1>7, <1>8, <1>9, <1>10, <1>11, <1>12,
     <1>13, <1>14 DEF Next, Gateway

THEOREM Invariance == Spec => [](IInv /\ Data)
<1>1. IInv /\ Data /\ [Next]_vars => (IInv /\ Data)'
  BY StepKeeps
<1>2. QED
  BY <1>1, InitHolds, PTL DEF Spec

\* The types of TypeOK hold in every behaviour.
THEOREM TypeCorrect == Spec => []TypeOK
<1>1. IInv /\ Data => TypeOK
  BY DEF IInv, Shape, Data, TypeOK
<1>2. QED
  BY <1>1, Invariance, PTL

\* Whatever fails and however often the power does: changes are kept only
\* inside the walk of a login.
THEOREM KeptAtLogin == Spec => []KeptOnlyAtLogin
<1>1. IInv => KeptOnlyAtLogin
  BY DEF IInv, NoneWaits, KeptOnlyAtLogin, Unlocked
<1>2. QED
  BY <1>1, Invariance, PTL

-----------------------------------------------------------------------------
\* Without failing commands, a reset starts only with netTypeChanged set; so
\* that the flag is still set when the interfaces file has been rewritten.
FlagInv == /\ FlagMeansConfirmed
           /\ pc \in Resetting => netTypeChanged = 1

LEMMA FlagStep ==
  ASSUME ~Faulty, Shape, FlagInv, [Next]_vars
  PROVE  FlagInv'
<1> USE DEF FlagInv, FlagMeansConfirmed, Applying, Resetting, Keeping
<1>1. CASE Web
  <2>1. UNCHANGED <<pc, netTypeChanged, interfaces, confirmed>>
    BY <1>1 DEF Web, LogIn, Save, WriteRow, SendChange, net, main
  <2>2. QED
    BY <2>1
<1>2. CASE \/ Put \/ WalkPasses \/ WalkEnds
           \/ \E n \in DOMAIN queue : Tick(n)
  <2>1. UNCHANGED <<pc, netTypeChanged, interfaces, confirmed>>
    BY <1>2 DEF Put, WalkPasses, WalkEnds, Tick, net, main
  <2>2. QED
    BY <2>1
<1>3. ASSUME NEW n, pc = "idle", ReadNew(n)
      PROVE  FlagInv'
  <2>1. /\ UNCHANGED <<netTypeChanged, interfaces, confirmed>>
        /\ pc' \in {"idle", "dns", "backup"}
    BY <1>3 DEF ReadNew, net
  <2>2. QED
    BY <1>3, <2>1
<1>4. ASSUME NEW n, pc = "idle", Decide(n)
      PROVE  FlagInv'
  <2>1. /\ UNCHANGED <<netTypeChanged, interfaces, confirmed>>
        /\ pc' = IF netTypeChanged = 1 THEN "restore" ELSE "keep_type"
    BY <1>4 DEF Decide, net
  <2>2. QED
    BY <1>4, <2>1
<1>5. ASSUME NEW n, HandleLogin(n)
      PROVE  FlagInv'
  <2>1. UNCHANGED <<pc, interfaces>> /\ confirmed' = interfaces /\ pc = "idle"
    BY <1>5 DEF HandleLogin, Unlocked, net
  <2>2. QED
    BY <2>1
<1>6. CASE ApplyDone
  <2>1. netTypeChanged' = 1
    BY <1>6 DEF ApplyDone
  <2>2. QED
    BY <2>1
<1>7. CASE \/ SetDns \/ SaveBackup \/ WriteInterfaces \/ RestoreBackup
           \/ IfDown \/ ResetDone
  <2>1. UNCHANGED <<netTypeChanged, confirmed>>
    BY <1>7 DEF SetDns, SaveBackup, WriteInterfaces, RestoreBackup, IfDown,
                ResetDone, Goto
  <2>2. /\ pc' \notin {"idle"} \union Keeping \/ pc = "rifup"
        /\ pc' \in Resetting => pc \in Resetting
        /\ pc = "rifup" => pc' = "idle"
    BY <1>7 DEF SetDns, SaveBackup, WriteInterfaces, RestoreBackup, IfDown,
                ResetDone, Goto
  <2>3. QED
    BY <2>1, <2>2
<1>8. CASE Keep
  <2>1. /\ UNCHANGED <<netTypeChanged, interfaces, confirmed>>
        /\ pc \in Keeping /\ pc' \in {"idle"} \union Keeping
    BY <1>8 DEF Keep, KeepRow, net
  <2>2. QED
    BY <2>1
<1>9. CASE Reboot
  <2>1. netTypeChanged' = 1
    BY <1>9 DEF Reboot
  <2>2. QED
    BY <2>1
<1>10. CASE UNCHANGED vars
  <2>1. UNCHANGED <<pc, netTypeChanged, interfaces, confirmed>>
    BY <1>10 DEF vars
  <2>2. QED
    BY <2>1
<1>11. ~ApplyFails /\ ~ResetFails
  BY DEF ApplyFails, ResetFails
<1>12. QED
  BY <1>1, <1>2, <1>3, <1>4, <1>5, <1>6, <1>7, <1>8, <1>9, <1>10, <1>11
  DEF Next, Gateway, HandleNet, WalkHandles, HandlerIdle, Unlocked

\* As long as SQL, cp, ifdown and ifup succeed, a cleared netTypeChanged means
\* that a handled login has confirmed the settings in force.
THEOREM FlagIsSound == ~Faulty => (Spec => []FlagMeansConfirmed)
<1> SUFFICES ASSUME ~Faulty
             PROVE  Spec => []FlagMeansConfirmed
  OBVIOUS
<1>1. Init => FlagInv
  BY DEF Init, FlagInv, FlagMeansConfirmed, Resetting
<1>2. IInv /\ Data /\ FlagInv /\ [Next]_vars => FlagInv'
  BY FlagStep DEF IInv
<1>3. FlagInv => FlagMeansConfirmed
  BY DEF FlagInv
<1>4. QED
  BY <1>1, <1>2, <1>3, Invariance, PTL DEF Spec

-----------------------------------------------------------------------------
(* A single change *)

\* At most one change, and the power has not failed since the first start.
Single == nnet <= 1 /\ nreboot = 0

\* Where the one change may be: a session saves its settings, its message is on
\* the way, it is in the list of commands, it waits there for its second visit.
Saving(s) == web[s] \in {"type", "adr", "dns", "send"}
Typing == \E s \in Session : Saving(s)
Sending == \E n \in DOMAIN sent : sent[n].kind = "net"
Queued == \E n \in DOMAIN queue : queue[n].kind = "net"
Waiting == \E n \in DOMAIN queue : queue[n].next # "none"

OneSaving == \A s, t \in Session : Saving(s) /\ Saving(t) => s = t
OneSent == \A n, m \in DOMAIN sent :
              sent[n].kind = "net" /\ sent[m].kind = "net" => n = m
OneQueued == \A n, m \in DOMAIN queue :
                queue[n].kind = "net" /\ queue[m].kind = "net" => n = m

\* It is in one place at a time, and no longer in the list when it has been
\* decided on.
InOnePlace ==
  /\ OneSaving /\ OneSent /\ OneQueued
  /\ Typing => ~Sending /\ ~Queued /\ pc = "idle"
  /\ Sending => ~Queued /\ pc = "idle"
  /\ pc \in Resetting \union Keeping => ~Queued
  /\ pc \in Applying => ~Waiting
  /\ nnet = 0 => ~Typing /\ ~Sending /\ ~Queued /\ pc = "idle"

\* The delivered interfaces file is in force until the change is written, and it is
\* what the backup holds and what a reset will find confirmed.
FilesOfOne ==
  /\ backup = "dhcp"
  /\ \/ nnet = 0 \/ Typing \/ Sending
     \/ Queued /\ ~Waiting /\ pc \notin {"ifdown", "ifup"}
     => interfaces = "dhcp" /\ confirmed = "dhcp"
  /\ (Waiting /\ netTypeChanged = 1) \/ pc \in {"ifdown", "ifup", "restore"}
     => confirmed = "dhcp"

\* The interfaces file that a group of settings asks for.
FileOf(r) == IF r.type = "static" THEN r.adr ELSE "dhcp"

\* When nothing fails: the settings NET_* are the delivered ones until the change
\* is kept, the file follows the settings that were read, and nobody changes these
\* before they are read again.
SettingsOfOne ==
  /\ nnet = 0 \/ Typing \/ Sending \/ Queued \/ pc \in Resetting \union {"keep_type"}
     => std = Delivered
  /\ pc \in Applying => args = new /\ args.type # "DHCP"
  /\ pc \in {"ifdown", "ifup"} \union Keeping => interfaces = FileOf(args)
  /\ Waiting => interfaces = FileOf(new)
  /\ pc \in {"keep_adr", "keep_dns"} => std.type = args.type
  /\ pc = "keep_dns" => std.adr = args.adr
  /\ pc \in {"rifdown", "rifup"} => interfaces = "dhcp"
  /\ pc = "idle" /\ ~Queued => interfaces = FileOf(std)

OneChange == InOnePlace /\ FilesOfOne /\ (~Faulty => SettingsOfOne)
OneInv == Single => OneChange

-----------------------------------------------------------------------------
(* Where a step leaves the change *)

\* What was unchanged at that place stays there.
LEMMA SameWeb ==
  ASSUME web' = web
  PROVE  (Typing' <=> Typing) /\ (OneSaving' <=> OneSaving)
  BY DEF Typing, OneSaving, Saving

LEMMA SameSent ==
  ASSUME sent' = sent
  PROVE  (Sending' <=> Sending) /\ (OneSent' <=> OneSent)
  BY DEF Sending, OneSent

LEMMA SameQueue ==
  ASSUME queue' = queue
  PROVE  (Queued' <=> Queued) /\ (Waiting' <=> Waiting) /\ (OneQueued' <=> OneQueued)
  BY DEF Queued, Waiting, OneQueued

\* A session logs in, or writes one of its rows.
LEMMA SameSaving ==
  ASSUME NEW s \in Session, NEW v, web' = [web EXCEPT ![s] = v], Data,
         v \in {"type", "adr", "dns", "send"} <=> Saving(s)
  PROVE  (Typing' <=> Typing) /\ (OneSaving' <=> OneSaving)
<1>1. \A t \in Session : Saving(t)' <=> Saving(t)
  BY DEF Saving, Data
<1>2. QED
  BY <1>1 DEF Typing, OneSaving

\* A message follows the ones that are on the way.
LEMMA SendEffect ==
  ASSUME Shape, Data, NEW k \in {"net", "login"}, Send(k)
  PROVE  /\ Sending' <=> Sending \/ k = "net"
         /\ OneSent /\ (k = "login" \/ ~Sending) => OneSent'
<1> DEFINE m == [kind |-> k, via |-> eth]
<1>1. m \in Message /\ m.kind = k
  BY DEF Message, Data
<1>2. sent' = Append(sent, m) /\ sent \in Seq(Message)
  BY DEF Send, Shape
<1> HIDE DEF m
<1>3. /\ DOMAIN sent' = 1..(Len(sent) + 1) /\ DOMAIN sent = 1..Len(sent)
      /\ Len(sent) \in Nat
      /\ \A n \in DOMAIN sent : sent'[n] = sent[n]
      /\ sent'[Len(sent) + 1] = m
  BY <1>1, <1>2
<1>4. Sending' <=> Sending \/ k = "net"
  BY <1>1, <1>3 DEF Sending
<1>5. ASSUME OneSent, k = "login" \/ ~Sending
      PROVE  OneSent'
  BY <1>1, <1>3, <1>5 DEF OneSent, Sending
<1>6. QED
  BY <1>4, <1>5

\* A command is handled and leaves the list.
LEMMA HandledEffect ==
  ASSUME Shape, LoginsReady, NEW n \in DOMAIN queue, SetCmdHandled(n)
  PROVE  /\ OneQueued => OneQueued'
         /\ OneQueued /\ queue[n].kind = "net" => ~Queued' /\ ~Waiting'
         /\ queue[n].kind = "login" => (Queued' <=> Queued) /\ (Waiting' <=> Waiting)
<1>1. /\ queue' \in Seq(Command)
      /\ DOMAIN queue' = 1..(Len(queue) - 1)
      /\ \A k \in DOMAIN queue' : queue'[k] = IF k < n THEN queue[k] ELSE queue[k + 1]
  <2>1. queue \in Seq(Command) /\ n \in 1..Len(queue)
    BY DEF Shape
  <2>2. QED
    BY <2>1, RemoveAt DEF SetCmdHandled
<1>2. DOMAIN queue = 1..Len(queue) /\ Len(queue) \in Nat
  BY DEF Shape
<1>3. \A k \in DOMAIN queue : queue[k].kind \in {"net", "login"}
  <2>1. \A k \in DOMAIN queue : queue[k] \in Command
    BY DEF Shape
  <2>2. QED
    BY <2>1 DEF Command
<1>4. ASSUME OneQueued
      PROVE  OneQueued'
  BY <1>1, <1>2, <1>4 DEF OneQueued
<1>5. \A k \in DOMAIN queue' :
         \E m \in DOMAIN queue : m # n /\ queue'[k] = queue[m]
  <2> TAKE k \in DOMAIN queue'
  <2>1. CASE k < n
    BY <1>1, <1>2, <2>1
  <2>2. CASE ~(k < n)
    <3>1. k + 1 \in DOMAIN queue /\ k + 1 # n /\ queue'[k] = queue[k + 1]
      BY <1>1, <1>2, <2>2
    <3>2. QED
      BY <3>1
  <2>3. QED
    BY <2>1, <2>2
<1>6. \A m \in DOMAIN queue : m # n =>
         \E k \in DOMAIN queue' : queue'[k] = queue[m]
  <2> SUFFICES ASSUME NEW m \in DOMAIN queue, m # n
               PROVE  \E k \in DOMAIN queue' : queue'[k] = queue[m]
    OBVIOUS
  <2>1. CASE m < n
    BY <1>1, <1>2, <2>1
  <2>2. CASE ~(m < n)
    <3>1. m - 1 \in DOMAIN queue' /\ ~(m - 1 < n) /\ (m - 1) + 1 = m
      BY <1>1, <1>2, <2>2
    <3>2. QED
      BY <1>1, <3>1
  <2>3. QED
    BY <2>1, <2>2
<1>7. ASSUME OneQueued, queue[n].kind = "net"
      PROVE  ~Queued' /\ ~Waiting'
  <2>1. \A m \in DOMAIN queue : m # n => queue[m].kind # "net" /\ queue[m].next = "none"
    BY <1>3, <1>7 DEF OneQueued, LoginsReady
  <2>2. QED
    BY <1>5, <2>1 DEF Queued, Waiting
<1>8. ASSUME queue[n].kind = "login"
      PROVE  (Queued' <=> Queued) /\ (Waiting' <=> Waiting)
  <2>1. queue[n].kind # "net" /\ queue[n].next = "none"
    BY <1>8 DEF LoginsReady
  <2>2. QED
    BY <1>5, <1>6, <2>1 DEF Queued, Waiting
<1>9. QED
  BY <1>4, <1>7, <1>8

\* A command in the list waits, or has waited long enough.
LEMMA WaitEffect ==
  ASSUME Shape, NEW n \in DOMAIN queue, NEW next \in {"later", "due"},
         queue' = [queue EXCEPT ![n].next = next]
  PROVE  Waiting' /\ (Queued' <=> Queued) /\ (OneQueued' <=> OneQueued)
<1>1. /\ DOMAIN queue' = DOMAIN queue
      /\ \A k \in DOMAIN queue : queue'[k].kind = queue[k].kind
      /\ queue'[n].next = next
  <2>1. queue[n] \in Command
    BY DEF Shape
  <2>2. /\ [queue[n] EXCEPT !.next = next].kind = queue[n].kind
        /\ [queue[n] EXCEPT !.next = next].next = next
    BY <2>1 DEF Command
  <2>3. QED
    BY <2>2
<1>2. QED
  BY <1>1 DEF Waiting, Queued, OneQueued

\* The first message becomes the last command.
LEMMA PutEffect ==
  ASSUME Shape, Put
  PROVE  /\ Waiting' <=> Waiting
         /\ OneSent => OneSent'
         /\ \/ (Sending' <=> Sending) /\ (Queued' <=> Queued) /\ (OneQueued => OneQueued')
            \/ /\ Sending /\ Queued' /\ (OneSent => ~Sending')
               /\ OneQueued /\ ~Queued => OneQueued'
<1> DEFINE h == Head(sent)
           c == [kind |-> h.kind, via |-> h.via, next |-> "none"]
<1>1. /\ sent \in Seq(Message) /\ queue \in Seq(Command)
      /\ sent # <<>> /\ sent' = Tail(sent) /\ queue' = Append(queue, c)
  BY DEF Shape, Put
<1>2. h = sent[1] /\ 1 \in DOMAIN sent /\ h \in Message
  BY <1>1
<1>3. c.next = "none" /\ c.kind = h.kind /\ c \in Command
  BY <1>2 DEF Command, Message
<1> HIDE DEF h, c
<1>4. /\ DOMAIN sent = 1..Len(sent) /\ Len(sent) \in Nat
      /\ DOMAIN sent' = 1..(Len(sent) - 1)
      /\ \A k \in DOMAIN sent' : sent'[k] = sent[k + 1]
  BY <1>1
<1>5. /\ DOMAIN queue = 1..Len(queue) /\ Len(queue) \in Nat
      /\ DOMAIN queue' = 1..(Len(queue) + 1)
      /\ \A k \in DOMAIN queue : queue'[k] = queue[k]
      /\ queue'[Len(queue) + 1] = c
  BY <1>1, <1>3
<1>6. Waiting' <=> Waiting
  BY <1>3, <1>5 DEF Waiting
<1>7. OneSent => OneSent'
  BY <1>4 DEF OneSent
<1>8. CASE h.kind = "net"
  <2>1. Sending /\ Queued'
    BY <1>2, <1>3, <1>5, <1>8 DEF Sending, Queued
  <2>2. OneSent => ~Sending'
    BY <1>2, <1>4, <1>8 DEF OneSent, Sending
  <2>3. OneQueued /\ ~Queued => OneQueued'
    BY <1>5 DEF OneQueued, Queued
  <2>4. QED
    BY <1>6, <1>7, <2>1, <2>2, <2>3
<1>9. CASE h.kind # "net"
  <2>1. Sending' <=> Sending
    <3>1. Sending => Sending'
      <4> SUFFICES ASSUME NEW n \in DOMAIN sent, sent[n].kind = "net"
                   PROVE  Sending'
        BY DEF Sending
      <4>1. n - 1 \in DOMAIN sent' /\ sent'[n - 1] = sent[n]
        BY <1>2, <1>4, <1>9
      <4>2. QED
        BY <4>1 DEF Sending
    <3>2. Sending' => Sending
      BY <1>4 DEF Sending
    <3>3. QED
      BY <3>1, <3>2
  <2>2. Queued' <=> Queued
    BY <1>3, <1>5, <1>9 DEF Queued
  <2>3. OneQueued => OneQueued'
    BY <1>3, <1>5, <1>9 DEF OneQueued
  <2>4. QED
    BY <1>6, <1>7, <2>1, <2>2, <2>3
<1>10. QED
  BY <1>8, <1>9

-----------------------------------------------------------------------------
(* The steps of a single change *)

\* Only changes wait, a change that is applied is in the list, and if the one in
\* the list is ready none waits.
LEMMA InTheList ==
  ASSUME IInv
  PROVE  /\ Waiting => Queued
         /\ pc \in Applying => Queued
         /\ \A n \in DOMAIN queue :
               /\ queue[n].kind = "net" => Queued
               /\ queue[n].next # "none" => queue[n].kind = "net" /\ Waiting
               /\ OneQueued /\ queue[n].kind = "net" /\ queue[n].next = "none" => ~Waiting
<1>1. \A n \in DOMAIN queue : queue[n].kind \in {"net", "login"}
  <2>1. \A n \in DOMAIN queue : queue[n] \in Command
    BY DEF IInv, Shape
  <2>2. QED
    BY <2>1 DEF Command
<1>2. \A n \in DOMAIN queue : queue[n].next # "none" => queue[n].kind = "net"
  BY <1>1 DEF IInv, LoginsReady
<1>3. QED
  BY <1>2 DEF Waiting, Queued, OneQueued, IInv, AppliesQueued

\* What the session, the messages and the commands do not touch.
LEMMA LogInKeepsOne ==
  ASSUME IInv, Data, OneChange, NEW s \in Session, LogIn(s)
  PROVE  OneChange'
<1>1. /\ UNCHANGED <<new, std, args, interfaces, backup, confirmed, netTypeChanged, pc,
                     nnet, queue>>
      /\ Send("login") /\ web' = [web EXCEPT ![s] = "in"] /\ web[s] = "out"
  BY DEF LogIn, net, main
<1>2. (Typing' <=> Typing) /\ (OneSaving' <=> OneSaving)
  BY <1>1, SameSaving DEF Saving
<1>3. (Sending' <=> Sending) /\ (OneSent => OneSent')
  BY <1>1, SendEffect DEF IInv
<1>4. (Queued' <=> Queued) /\ (Waiting' <=> Waiting) /\ (OneQueued' <=> OneQueued)
  BY <1>1, SameQueue
<1>5. QED
  BY <1>1, <1>2, <1>3, <1>4
  DEF OneChange, InOnePlace, FilesOfOne, SettingsOfOne, FileOf

\* The first change: the session starts to save its settings.
LEMMA SaveKeepsOne ==
  ASSUME IInv, Data, OneChange, Single', NEW s \in Session, NEW c \in Config, Save(s, c)
  PROVE  OneChange'
<1>1. /\ UNCHANGED <<new, std, args, interfaces, backup, confirmed, netTypeChanged, pc,
                     queue, sent>>
      /\ nnet' = nnet + 1 /\ web' = [web EXCEPT ![s] = "type"]
  BY DEF Save, net, main, bus
<1>2. nnet = 0 /\ nnet' # 0
  BY <1>1, NetChangeAssumption DEF Single, Data
<1>3. ~Typing /\ ~Sending /\ ~Queued /\ ~Waiting /\ pc = "idle"
  BY <1>2, InTheList DEF OneChange, InOnePlace
<1>4. Typing' /\ OneSaving'
  <2>1. Saving(s)' /\ \A t \in Session : Saving(t)' => t = s
    BY <1>1, <1>3 DEF Typing, Saving, Data
  <2>2. QED
    BY <2>1 DEF Typing, OneSaving
<1>5. (Sending' <=> Sending) /\ (OneSent' <=> OneSent)
  BY <1>1, SameSent
<1>6. (Queued' <=> Queued) /\ (Waiting' <=> Waiting) /\ (OneQueued' <=> OneQueued)
  BY <1>1, SameQueue
<1>7. QED
  BY <1>1, <1>2, <1>3, <1>4, <1>5, <1>6
  DEF OneChange, InOnePlace, FilesOfOne, SettingsOfOne, FileOf, Applying, Resetting, Keeping

\* A row is written: nobody has read the settings yet.
LEMMA WriteRowKeepsOne ==
  ASSUME IInv, Data, OneChange, NEW s \in Session, WriteRow(s)
  PROVE  OneChange'
<1>1. /\ UNCHANGED <<std, args, interfaces, backup, confirmed, netTypeChanged, pc, nnet,
                     queue, sent>>
      /\ Saving(s)
      /\ \E v \in {"adr", "dns", "send"} : web' = [web EXCEPT ![s] = v]
  BY DEF WriteRow, net, main, bus, count, Saving
<1>2. (Typing' <=> Typing) /\ (OneSaving' <=> OneSaving) /\ Typing
  BY <1>1, SameSaving DEF Typing
<1>3. (Sending' <=> Sending) /\ (OneSent' <=> OneSent)
  BY <1>1, SameSent
<1>4. (Queued' <=> Queued) /\ (Waiting' <=> Waiting) /\ (OneQueued' <=> OneQueued)
  BY <1>1, SameQueue
<1>5. ~Queued /\ ~Waiting /\ pc = "idle"
  BY <1>2, InTheList DEF OneChange, InOnePlace
<1>6. QED
  BY <1>1, <1>2, <1>3, <1>4, <1>5
  DEF OneChange, InOnePlace, FilesOfOne, SettingsOfOne, FileOf, Applying

\* The change is sent when all of it has been written.
LEMMA SendChangeKeepsOne ==
  ASSUME IInv, Data, OneChange, NEW s \in Session, SendChange(s)
  PROVE  OneChange'
<1>1. /\ UNCHANGED <<new, std, args, interfaces, backup, confirmed, netTypeChanged, pc,
                     nnet, queue>>
      /\ Send("net") /\ web' = [web EXCEPT ![s] = "out"] /\ Saving(s)
  BY DEF SendChange, net, main, Saving
<1>2. Typing /\ ~Typing' /\ OneSaving'
  <2>1. \A t \in Session : ~Saving(t)'
    BY <1>1 DEF OneChange, InOnePlace, OneSaving, Saving, Data
  <2>2. QED
    BY <1>1, <2>1 DEF Typing, OneSaving
<1>3. ~Sending /\ ~Queued /\ ~Waiting /\ pc = "idle"
  BY <1>2, InTheList DEF OneChange, InOnePlace
<1>4. Sending' /\ OneSent'
  BY <1>1, <1>3, SendEffect DEF IInv, OneChange, InOnePlace
<1>5. (Queued' <=> Queued) /\ (Waiting' <=> Waiting) /\ (OneQueued' <=> OneQueued)
  BY <1>1, SameQueue
<1>6. QED
  BY <1>1, <1>2, <1>3, <1>4, <1>5
  DEF OneChange, InOnePlace, FilesOfOne, SettingsOfOne, FileOf, Applying, Resetting, Keeping

\* The gateway takes the first message into its list.
LEMMA PutKeepsOne ==
  ASSUME IInv, Data, OneChange, Put
  PROVE  OneChange'
<1>1. /\ UNCHANGED <<new, std, args, interfaces, backup, confirmed, netTypeChanged, pc,
                     nnet, web>>
      /\ pc = "idle"
  BY DEF Put, Unlocked, site, net, main, count
<1>2. (Typing' <=> Typing) /\ (OneSaving' <=> OneSaving)
  BY <1>1, SameWeb
<1>3. (Waiting' <=> Waiting) /\ (Waiting => Queued) /\ OneSent'
  BY InTheList, PutEffect DEF IInv, OneChange, InOnePlace
<1>4. CASE (Sending' <=> Sending) /\ (Queued' <=> Queued) /\ OneQueued'
  BY <1>1, <1>2, <1>3, <1>4
  DEF OneChange, InOnePlace, FilesOfOne, SettingsOfOne, FileOf, Applying, Resetting, Keeping
<1>5. CASE Sending /\ Queued' /\ ~Sending' /\ (OneQueued /\ ~Queued => OneQueued')
  <2>1. ~Typing /\ ~Queued /\ ~Waiting /\ nnet # 0 /\ OneQueued'
    BY <1>3, <1>5 DEF OneChange, InOnePlace
  <2>2. QED
    BY <1>1, <1>2, <1>3, <1>5, <2>1
    DEF OneChange, InOnePlace, FilesOfOne, SettingsOfOne, FileOf, Applying, Resetting, Keeping
<1>6. QED
  BY <1>3, <1>4, <1>5, PutEffect DEF IInv, OneChange, InOnePlace

\* The settings are read, and applied or refused.
LEMMA ReadNewKeepsOne ==
  ASSUME IInv, Data, OneChange, NEW n \in DOMAIN queue, pc = "idle", ReadNew(n),
         queue[n].kind = "net"
  PROVE  OneChange'
<1>1. /\ UNCHANGED <<new, std, interfaces, backup, confirmed, netTypeChanged, nnet, web,
                     sent>>
      /\ queue[n].next = "none" /\ (~Faulty => args' = new)
  BY DEF ReadNew, site, net, count
<1>2. (Typing' <=> Typing) /\ (OneSaving' <=> OneSaving)
  BY <1>1, SameWeb
<1>3. (Sending' <=> Sending) /\ (OneSent' <=> OneSent)
  BY <1>1, SameSent
<1>4. Queued /\ ~Waiting /\ ~Typing /\ ~Sending /\ nnet # 0
  BY <1>1, InTheList DEF OneChange, InOnePlace
<1>5. CASE pc' \in {"dns", "backup"} /\ queue' = queue /\ args'.type \in {"static", "dhcp"}
  <2>1. (Queued' <=> Queued) /\ (Waiting' <=> Waiting) /\ (OneQueued' <=> OneQueued)
    BY <1>5, SameQueue
  <2>2. QED
    BY <1>1, <1>2, <1>3, <1>4, <1>5, <2>1
    DEF OneChange, InOnePlace, FilesOfOne, SettingsOfOne, FileOf, Applying, Resetting, Keeping
<1>6. CASE pc' = "idle" /\ SetCmdHandled(n)
  <2>1. ~Queued' /\ ~Waiting' /\ OneQueued'
    BY <1>6, HandledEffect DEF IInv, OneChange, InOnePlace
  <2>2. FileOf(std) = "dhcp" \/ Faulty
    BY <1>4 DEF OneChange, SettingsOfOne, FileOf, Delivered
  <2>3. interfaces = "dhcp"
    BY <1>4 DEF OneChange, FilesOfOne
  <2>4. FileOf(std)' = FileOf(std)
    BY <1>1 DEF FileOf
  <2>5. QED
    BY <1>1, <1>2, <1>3, <1>4, <1>6, <2>1, <2>2, <2>3, <2>4
    DEF OneChange, InOnePlace, FilesOfOne, SettingsOfOne, Applying, Resetting, Keeping
<1>7. QED
  BY <1>5, <1>6 DEF ReadNew

\* The second visit: the change leaves the list, the settings are those it was
\* applied with.
LEMMA DecideKeepsOne ==
  ASSUME IInv, Data, OneChange, NEW n \in DOMAIN queue, pc = "idle", Decide(n)
  PROVE  OneChange'
<1>1. /\ UNCHANGED <<new, std, interfaces, backup, confirmed, netTypeChanged, nnet, web,
                     sent>>
      /\ queue[n].next # "none" /\ SetCmdHandled(n)
      /\ pc' = IF netTypeChanged = 1 THEN "restore" ELSE "keep_type"
      /\ args' = IF netTypeChanged = 1 THEN args ELSE new
  BY DEF Decide, site, net, count
<1>2. (Typing' <=> Typing) /\ (OneSaving' <=> OneSaving)
  BY <1>1, SameWeb
<1>3. (Sending' <=> Sending) /\ (OneSent' <=> OneSent)
  BY <1>1, SameSent
<1>4. queue[n].kind = "net" /\ Queued /\ Waiting
  BY <1>1, InTheList
<1>5. ~Typing /\ ~Sending /\ nnet # 0
  BY <1>4 DEF OneChange, InOnePlace
<1>6. ~Queued' /\ ~Waiting' /\ OneQueued'
  BY <1>1, <1>4, HandledEffect DEF IInv, OneChange, InOnePlace
<1>7. QED
  BY <1>1, <1>2, <1>3, <1>4, <1>5, <1>6
  DEF OneChange, InOnePlace, FilesOfOne, SettingsOfOne, FileOf, Applying, Resetting, Keeping

\* A login is handled and confirms the file in force.
LEMMA LoginKeepsOne ==
  ASSUME IInv, Data, OneChange, NEW n \in DOMAIN queue, HandleLogin(n)
  PROVE  OneChange'
<1>1. /\ UNCHANGED <<new, std, args, interfaces, backup, nnet, web, sent, pc>>
      /\ SetCmdHandled(n) /\ queue[n].kind = "login" /\ pc = "idle"
      /\ netTypeChanged' = 0 /\ confirmed' = interfaces
  BY DEF HandleLogin, Unlocked, site, net, count
<1>2. (Typing' <=> Typing) /\ (OneSaving' <=> OneSaving)
  BY <1>1, SameWeb
<1>3. (Sending' <=> Sending) /\ (OneSent' <=> OneSent)
  BY <1>1, SameSent
<1>4. (Queued' <=> Queued) /\ (Waiting' <=> Waiting) /\ OneQueued'
  BY <1>1, HandledEffect DEF IInv, OneChange, InOnePlace
<1>5. QED
  BY <1>1, <1>2, <1>3, <1>4
  DEF OneChange, InOnePlace, FilesOfOne, SettingsOfOne, FileOf, Applying, Resetting, Keeping

\* The wait of a change begins or ends.
LEMMA WaitKeepsOne ==
  ASSUME IInv, Data, OneChange, ApplyDone \/ \E n \in DOMAIN queue : Tick(n)
  PROVE  OneChange'
<1>1. /\ UNCHANGED <<new, std, args, interfaces, backup, confirmed, nnet, web, sent>>
      /\ pc' = "idle"
  BY DEF ApplyDone, IfUp, Tick, Unlocked, site, net, main, count
<1>2. (Typing' <=> Typing) /\ (OneSaving' <=> OneSaving)
  BY <1>1, SameWeb
<1>3. (Sending' <=> Sending) /\ (OneSent' <=> OneSent)
  BY <1>1, SameSent
<1>4. CASE ApplyDone
  <2>1. pc = "ifup" /\ pc \in Applying /\ cmd \in DOMAIN queue
    BY <1>4 DEF ApplyDone, Applying, IInv, AppliesQueued
  <2>2. queue' = [queue EXCEPT ![cmd].next = "later"]
    BY <1>4 DEF ApplyDone
  <2>3. Waiting' /\ (Queued' <=> Queued) /\ (OneQueued' <=> OneQueued)
    BY <2>1, <2>2, WaitEffect DEF IInv
  <2>4. Queued
    BY <2>1, InTheList
  <2>5. QED
    BY <1>1, <1>2, <1>3, <2>1, <2>3, <2>4
    DEF OneChange, InOnePlace, FilesOfOne, SettingsOfOne, FileOf, Applying, Resetting, Keeping
<1>5. ASSUME NEW n \in DOMAIN queue, Tick(n)
      PROVE  OneChange'
  <2>1. /\ queue' = [queue EXCEPT ![n].next = "due"] /\ queue[n].next # "none"
        /\ pc = "idle" /\ UNCHANGED netTypeChanged
    BY <1>5 DEF Tick, Unlocked, main
  <2>2. Waiting' /\ (Queued' <=> Queued) /\ (OneQueued' <=> OneQueued)
    BY <2>1, WaitEffect DEF IInv
  <2>3. Waiting /\ Queued
    BY <2>1, InTheList
  <2>4. QED
    BY <1>1, <1>2, <1>3, <2>1, <2>2, <2>3
    DEF OneChange, InOnePlace, FilesOfOne, SettingsOfOne, FileOf, Applying, Resetting, Keeping
<1>6. QED
  BY <1>4, <1>5

\* ipchanger works on a change that is in the list and does not wait, or that has
\* left it.
LEMMA IpchangerKeepsOne ==
  ASSUME IInv, Data, OneChange,
         \/ SetDns \/ SaveBackup \/ WriteInterfaces \/ RestoreBackup
         \/ IfDown \/ ResetDone \/ ResetFails \/ WalkPasses \/ WalkEnds
  PROVE  OneChange'
<1>1. UNCHANGED <<new, std, args, confirmed, netTypeChanged, nnet, web, sent, queue>>
  BY DEF SetDns, SaveBackup, WriteInterfaces, RestoreBackup, IfDown, ResetDone,
         ResetFails, WalkPasses, WalkEnds, Goto, site, net, bus, count
<1>2. (Typing' <=> Typing) /\ (OneSaving' <=> OneSaving)
  BY <1>1, SameWeb
<1>3. (Sending' <=> Sending) /\ (OneSent' <=> OneSent)
  BY <1>1, SameSent
<1>4. (Queued' <=> Queued) /\ (Waiting' <=> Waiting) /\ (OneQueued' <=> OneQueued)
  BY <1>1, SameQueue
<1>5. /\ pc \in Applying => Queued
      /\ Waiting => Queued
  BY InTheList
<1>6. CASE SetDns \/ IfDown \/ WalkPasses \/ WalkEnds
  <2>1. /\ UNCHANGED <<interfaces, backup>>
        /\ \/ pc' = pc
           \/ pc = "dns" /\ pc' = "backup"
           \/ pc = "ifdown" /\ pc' = "ifup"
           \/ pc = "rifdown" /\ pc' = "rifup"
    BY <1>6 DEF SetDns, IfDown, WalkPasses, WalkEnds, Goto, net
  <2>2. QED
    BY <1>1, <1>2, <1>3, <1>4, <1>5, <2>1
    DEF OneChange, InOnePlace, FilesOfOne, SettingsOfOne, FileOf, Applying, Resetting, Keeping
<1>7. CASE SaveBackup
  <2>1. pc = "backup" /\ pc' = "write" /\ backup' = interfaces /\ interfaces' = interfaces
    BY <1>7 DEF SaveBackup, Goto
  <2>2. QED
    BY <1>1, <1>2, <1>3, <1>4, <1>5, <2>1
    DEF OneChange, InOnePlace, FilesOfOne, SettingsOfOne, FileOf, Applying, Resetting, Keeping
<1>8. CASE WriteInterfaces
  <2>1. /\ pc = "write" /\ pc' = "ifdown" /\ backup' = backup
        /\ interfaces' = IF args.type = "dhcp" THEN "dhcp" ELSE args.adr
    BY <1>8 DEF WriteInterfaces, Goto
  <2>2. args.type \in {"DHCP", "dhcp", "static"}
    BY DEF Data, Rows
  <2>3. QED
    BY <1>1, <1>2, <1>3, <1>4, <1>5, <2>1, <2>2
    DEF OneChange, InOnePlace, FilesOfOne, SettingsOfOne, FileOf, Applying, Resetting, Keeping
<1>9. CASE RestoreBackup
  <2>1. pc = "restore" /\ pc' = "rifdown" /\ backup' = backup /\ interfaces' = backup
    BY <1>9 DEF RestoreBackup, Goto
  <2>2. QED
    BY <1>1, <1>2, <1>3, <1>4, <1>5, <2>1
    DEF OneChange, InOnePlace, FilesOfOne, SettingsOfOne, FileOf, Applying, Resetting, Keeping
<1>10. CASE ResetDone \/ ResetFails
  <2>1. /\ pc' = "idle" /\ backup' = backup /\ interfaces' = interfaces
        /\ pc \in Resetting /\ (Faulty \/ pc = "rifup")
    BY <1>10 DEF ResetDone, IfUp, ResetFails, Goto, Resetting, net
  <2>2. QED
    BY <1>1, <1>2, <1>3, <1>4, <1>5, <2>1
    DEF OneChange, InOnePlace, FilesOfOne, SettingsOfOne, FileOf, Delivered, Applying,
        Resetting, Keeping
<1>11. QED
  BY <1>6, <1>7, <1>8, <1>9, <1>10

\* A command that fails leaves the list; what was done stays.
LEMMA ApplyFailsKeepsOne ==
  ASSUME IInv, Data, OneChange, ApplyFails
  PROVE  OneChange'
<1>1. /\ UNCHANGED <<new, std, args, interfaces, backup, confirmed, netTypeChanged, nnet,
                     web, sent>>
      /\ pc \in Applying /\ pc' = "idle" /\ SetCmdHandled(cmd) /\ Faulty
  BY DEF ApplyFails, Goto, site, net, count
<1>2. (Typing' <=> Typing) /\ (OneSaving' <=> OneSaving)
  BY <1>1, SameWeb
<1>3. (Sending' <=> Sending) /\ (OneSent' <=> OneSent)
  BY <1>1, SameSent
<1>4. cmd \in DOMAIN queue /\ queue[cmd].kind = "net" /\ Queued
  BY <1>1, InTheList DEF IInv, AppliesQueued
<1>5. ~Queued' /\ ~Waiting' /\ OneQueued'
  BY <1>1, <1>4, HandledEffect DEF IInv, OneChange, InOnePlace
<1>6. ~Typing /\ ~Sending /\ nnet # 0
  BY <1>4 DEF OneChange, InOnePlace
<1>7. QED
  BY <1>1, <1>2, <1>3, <1>5, <1>6
  DEF OneChange, InOnePlace, FilesOfOne, Applying, Resetting, Keeping

\* The settings become the standard ones, row by row.
LEMMA KeepKeepsOne ==
  ASSUME IInv, Data, OneChange, Keep
  PROVE  OneChange'
<1>1. /\ UNCHANGED <<new, args, interfaces, backup, confirmed, netTypeChanged, nnet,
                     web, sent, queue>>
      /\ pc \in Keeping
  BY DEF Keep, KeepRow, site, net, bus, count, Keeping
<1>2. (Typing' <=> Typing) /\ (OneSaving' <=> OneSaving)
  BY <1>1, SameWeb
<1>3. (Sending' <=> Sending) /\ (OneSent' <=> OneSent)
  BY <1>1, SameSent
<1>4. (Queued' <=> Queued) /\ (Waiting' <=> Waiting) /\ (OneQueued' <=> OneQueued)
  BY <1>1, SameQueue
<1>5. ~Typing /\ ~Sending /\ ~Queued /\ ~Waiting /\ nnet # 0
  BY <1>1, InTheList DEF OneChange, InOnePlace, Keeping
<1>6. InOnePlace' /\ FilesOfOne'
  <2>1. pc' \in {"idle"} \union Keeping
    BY DEF Keep, KeepRow, Keeping
  <2>2. QED
    BY <1>1, <1>2, <1>3, <1>4, <1>5, <2>1
    DEF OneChange, InOnePlace, FilesOfOne, Applying, Resetting, Keeping
<1>7. ASSUME ~Faulty
      PROVE  SettingsOfOne'
  <2>1. std \in [{"type", "adr", "dns"} -> {std.type, std.adr, std.dns}]
    BY DEF Data, Rows
  <2>2. CASE KeepRow("type", "keep_type", "keep_adr")
    <3>1. /\ pc = "keep_type" /\ pc' = "keep_adr"
          /\ std' = [std EXCEPT !["type"] = args["type"]]
      BY <1>7, <2>2 DEF KeepRow
    <3>2. std'.type = args.type
      BY <2>1, <3>1
    <3>3. QED
      BY <1>1, <1>2, <1>3, <1>4, <1>5, <1>7, <3>1, <3>2
      DEF OneChange, SettingsOfOne, FileOf, Applying, Resetting, Keeping
  <2>3. CASE KeepRow("adr", "keep_adr", "keep_dns")
    <3>1. /\ pc = "keep_adr" /\ pc' = "keep_dns"
          /\ std' = [std EXCEPT !["adr"] = args["adr"]]
      BY <1>7, <2>3 DEF KeepRow
    <3>2. std'.type = std.type /\ std'.adr = args.adr
      BY <2>1, <3>1
    <3>3. QED
      BY <1>1, <1>2, <1>3, <1>4, <1>5, <1>7, <3>1, <3>2
      DEF OneChange, SettingsOfOne, FileOf, Applying, Resetting, Keeping
  <2>4. CASE KeepRow("dns", "keep_dns", "idle")
    <3>1. /\ pc = "keep_dns" /\ pc' = "idle"
          /\ std' = [std EXCEPT !["dns"] = args["dns"]]
      BY <1>7, <2>4 DEF KeepRow
    <3>2. std'.type = std.type /\ std'.adr = std.adr
      BY <2>1, <3>1
    <3>3. QED
      BY <1>1, <1>2, <1>3, <1>4, <1>5, <1>7, <3>1, <3>2
      DEF OneChange, SettingsOfOne, FileOf, Applying, Resetting, Keeping
  <2>5. QED
    BY <2>2, <2>3, <2>4 DEF Keep
<1>8. QED
  BY <1>6, <1>7 DEF OneChange

LEMMA OneStep ==
  ASSUME IInv, Data, OneInv, [Next]_vars
  PROVE  OneInv'
<1> SUFFICES ASSUME Single'
             PROVE  OneChange'
  BY DEF OneInv
<1>1. CASE Reboot
  <2>1. nreboot' > 0
    BY <1>1, NetChangeAssumption DEF Reboot, Data
  <2>2. QED
    BY <2>1 DEF Single
<1>2. CASE UNCHANGED vars
  <2>1. Single
    BY <1>2 DEF vars, Single
  <2>2. UNCHANGED <<new, std, args, interfaces, backup, confirmed, netTypeChanged, pc,
                    nnet, web, sent, queue>>
    BY <1>2 DEF vars
  <2>3. QED
    BY <2>1, <2>2, SameWeb, SameSent, SameQueue
    DEF OneInv, OneChange, InOnePlace, FilesOfOne, SettingsOfOne, FileOf
<1>3. ASSUME ~Reboot, ~UNCHANGED vars
      PROVE  OneChange'
  <2>1. Next
    BY <1>3
  <2>2. nreboot' = nreboot /\ nnet' \in {nnet, nnet + 1}
    BY <1>3, <2>1
    DEF Next, Web, LogIn, Save, WriteRow, SendChange, Put, Gateway, HandleNet,
        HandleLogin, ReadNew, Decide, WalkPasses, WalkHandles, WalkEnds, SetDns,
        SaveBackup, WriteInterfaces, RestoreBackup, IfDown, ResetDone, ApplyDone,
        ApplyFails, ResetFails, Keep, KeepRow, Goto, HandlerIdle, Tick, count
  <2>3. OneChange
    <3>1. nnet \in Nat
      BY NetChangeAssumption DEF Data
    <3>2. QED
      BY <2>2, <3>1 DEF Single, OneInv
  <2>4. ASSUME NEW s \in Session
        PROVE  /\ LogIn(s) => OneChange'
               /\ \A c \in Config : Save(s, c) => OneChange'
               /\ WriteRow(s) => OneChange'
               /\ SendChange(s) => OneChange'
    BY <2>3, LogInKeepsOne, SaveKeepsOne, WriteRowKeepsOne, SendChangeKeepsOne
  <2>5. ASSUME NEW n \in DOMAIN queue
        PROVE  /\ HandleNet(n) => OneChange'
               /\ HandleLogin(n) => OneChange'
               /\ Tick(n) => OneChange'
    BY <2>3, ReadNewKeepsOne, DecideKeepsOne, LoginKeepsOne, WaitKeepsOne
    DEF HandleNet, Unlocked
  <2>6. WalkHandles => OneChange'
    BY <2>3, ReadNewKeepsOne, DecideKeepsOne DEF WalkHandles
  <2>7. QED
    BY <1>3, <2>1, <2>3, <2>4, <2>5, <2>6, PutKeepsOne, WaitKeepsOne,
       IpchangerKeepsOne, ApplyFailsKeepsOne, KeepKeepsOne
    DEF Next, Web, Gateway, HandlerIdle
<1>4. QED
  BY <1>1, <1>2, <1>3

THEOREM InvarianceOfOne == Spec => [](IInv /\ Data /\ OneInv)
<1>1. Init => OneInv
  <2>1. Init => ~Typing /\ ~Sending /\ ~Queued /\ ~Waiting /\ OneSaving /\ OneSent /\ OneQueued
    BY DEF Init, Typing, Saving, Sending, Queued, Waiting, OneSaving, OneSent, OneQueued
  <2>2. QED
    BY <2>1
    DEF Init, OneInv, OneChange, InOnePlace, FilesOfOne, SettingsOfOne, FileOf, Delivered,
        Applying, Resetting, Keeping
<1>2. IInv /\ Data /\ OneInv /\ [Next]_vars => OneInv'
  BY OneStep
<1>3. QED
  BY <1>1, <1>2, Invariance, PTL DEF Spec

\* When nothing fails, the settings NET_* are those in force whenever no change
\* waits, as long as there has been one change and no power failure.
THEOREM StandardIsInForce == Spec => []StandardInForce
<1>1. IInv /\ Data /\ OneInv => StandardInForce
  <2> SUFFICES ASSUME IInv, OneInv, Single, ~Faulty, pc = "idle",
                      \A n \in DOMAIN queue : queue[n].next = "none"
               PROVE  interfaces = FileOf(std)
    BY DEF StandardInForce, Single, FileOf
  <2>1. OneChange /\ ~Waiting
    BY DEF OneInv, Waiting
  <2>2. CASE Queued
    <3>1. interfaces = "dhcp" /\ std = Delivered
      BY <2>1, <2>2 DEF OneChange, FilesOfOne, SettingsOfOne
    <3>2. QED
      BY <3>1 DEF FileOf, Delivered
  <2>3. CASE ~Queued
    BY <2>1, <2>3 DEF OneChange, SettingsOfOne
  <2>4. QED
    BY <2>2, <2>3
<1>2. QED
  BY <1>1, InvarianceOfOne, PTL

\* Whatever fails, the reset of a single change leads back to the interfaces file
\* that was last confirmed, unless the power has failed.
THEOREM OneGoesBack == Spec => ResetOfOneGoesBack
<1>1. IInv /\ Data /\ OneInv /\ [Next]_vars
      => (pc = "restore" /\ pc' = "rifdown" /\ nnet <= 1 /\ nreboot = 0
          => interfaces' = confirmed)
  <2> SUFFICES ASSUME OneInv, [Next]_vars, pc = "restore", pc' = "rifdown", Single
               PROVE  interfaces' = confirmed
    BY DEF Single
  <2>1. RestoreBackup
    BY DEF vars, Next, Web, LogIn, Save, WriteRow, SendChange, Put, Gateway, HandleNet,
           HandleLogin, ReadNew, Decide, WalkPasses, WalkHandles, WalkEnds, SetDns,
           SaveBackup, WriteInterfaces, IfDown, ResetDone, ApplyDone, ApplyFails,
           ResetFails, Keep, KeepRow, Goto, HandlerIdle, Tick, Reboot, Unlocked, main
  <2>2. QED
    BY <2>1 DEF OneInv, OneChange, FilesOfOne, RestoreBackup
<1>2. QED
  BY <1>1, InvarianceOfOne, PTL DEF Spec, ResetOfOneGoesBack
=============================================================================

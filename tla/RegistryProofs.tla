---------------------------- MODULE RegistryProofs ----------------------------
(***************************************************************************)
(* Proofs about the registry of devices, Registry.tla, for every number of *)
(* addresses, moduls and channels and any number of crashes.               *)
(***************************************************************************)
EXTENDS Registry, FiniteSetTheorems, TLAPS

\* What the container holds: the device that is being saved, and devices with a
\* complete row of their own.
Memory ==
  /\ pc \in Saving \union Deleting => cur \in 1..Len(ldc)
  /\ pc = "down" => ldc = <<>>
  /\ \A n \in 1..Len(ldc) :
       /\ ldc[n].id = 0 <=> n = cur /\ pc = "insert"
       /\ ldc[n].id # 0 => /\ ldc[n].id \in DOMAIN devices
                           /\ devices[ldc[n].id].adr = ldc[n].adr
       /\ ~(n = cur /\ pc \in Saving) => /\ Len(ldc[n].moduls) = ModulCnt
                                         /\ devices[ldc[n].id].wkc
       /\ \A m \in 1..Len(ldc) : ldc[m].id = ldc[n].id => m = n

\* The first half of AcceptedIsComplete.
Accepted == \A i \in DOMAIN devices : devices[i].wkc => Len(devices[i].moduls) = ModulCnt

\* How far the device that is being saved has come.  All of its moduls that are in
\* memory are in the table, all but the last one are listed and complete.
Saved(d, row) ==
  /\ ~row.wkc
  /\ Len(row.moduls) = IF pc = "linkmodul" THEN Len(d.moduls) - 1 ELSE Len(d.moduls)
  /\ Len(d.moduls) <= ModulCnt
  /\ \A k \in 1..Len(row.moduls) : row.moduls[k] = d.moduls[k].id
  /\ \A k \in 1..Len(d.moduls) :
       /\ d.moduls[k].id \in DOMAIN moduls
       /\ \A l \in 1..Len(d.moduls) : d.moduls[l].id = d.moduls[k].id => l = k
       /\ pc # "linkchannel" \/ k < Len(d.moduls) => moduls[d.moduls[k].id] = d.moduls[k].channels
       /\ pc \in {"modul", "wkc"} \/ k < Len(d.moduls) => Len(d.moduls[k].channels) = ChannelCnt
  /\ pc = "modul" => Len(d.moduls) < ModulCnt
  /\ pc = "wkc" => Len(d.moduls) = ModulCnt
  /\ pc \in {"linkmodul", "channel", "linkchannel"} => Len(d.moduls) > 0
  /\ pc = "linkmodul" => Current.channels = <<>>
  /\ pc = "channel" => Len(Current.channels) < ChannelCnt
  /\ pc = "linkchannel" =>
       /\ Len(Current.channels) > 0
       /\ Append(moduls[Current.id], Current.channels[Len(Current.channels)]) = Current.channels

Progress ==
  /\ pc = "insert" => ldc[cur].moduls = <<>>
  /\ pc \in Saving \ {"insert"} => Saved(ldc[cur], devices[ldc[cur].id])
  /\ pc = "delmodul" => /\ done < ModulCnt
                        /\ chans <= Len(ldc[cur].moduls[done + 1].channels)
  /\ pc = "deldevice" => done = ModulCnt

\* Rows of this process, and addresses in memory, until the first crash.
Once == nreboot = 0 =>
  /\ pc # "down"
  /\ \A i \in DOMAIN devices : \E n \in 1..Len(ldc) : ldc[n].id = i
  /\ \A m, n \in 1..Len(ldc) : ldc[m].adr = ldc[n].adr => m = n

\* A modul is listed by one device; one that is listed is in the table, unless it has
\* just been deleted.
ModulRows ==
  /\ \A i, j \in DOMAIN devices :
       \A k \in 1..Len(devices[i].moduls), l \in 1..Len(devices[j].moduls) :
         devices[i].moduls[k] = devices[j].moduls[l] => i = j /\ k = l
  /\ \A i \in DOMAIN devices : \A k \in 1..Len(devices[i].moduls) :
       \/ devices[i].moduls[k] \in DOMAIN moduls
       \/ pc \in Deleting /\ i = ldc[cur].id /\ k <= done
  /\ pc = "linkmodul" =>
       \A i \in DOMAIN devices : \A k \in 1..Len(devices[i].moduls) :
         devices[i].moduls[k] # Current.id

\* The same for channels.
ChannelRows ==
  /\ \A i, j \in DOMAIN moduls : \A k \in 1..Len(moduls[i]), l \in 1..Len(moduls[j]) :
       moduls[i][k] = moduls[j][l] => i = j /\ k = l
  /\ \A i \in DOMAIN moduls : \A k \in 1..Len(moduls[i]) :
       \/ moduls[i][k] \in channels
       \/ pc = "delmodul" /\ i = ldc[cur].moduls[done + 1].id /\ k <= chans
  /\ pc = "linkchannel" =>
       /\ Current.channels[Len(Current.channels)] \in channels
       /\ \A i \in DOMAIN moduls : \A k \in 1..Len(moduls[i]) :
            moduls[i][k] # Current.channels[Len(Current.channels)]

\* The second half of AcceptedIsComplete.
Complete ==
  \A i \in DOMAIN devices : devices[i].wkc =>
    \A k \in 1..Len(devices[i].moduls) : devices[i].moduls[k] \in DOMAIN moduls =>
      Len(moduls[devices[i].moduls[k]]) = ChannelCnt

\* A device in memory has the moduls and channels of its row, unless they have just
\* been deleted.
Stored ==
  \A n \in 1..Len(ldc) : ~(n = cur /\ pc \in Saving) =>
    \A k \in 1..ModulCnt :
      /\ ldc[n].moduls[k].id = devices[ldc[n].id].moduls[k]
      /\ ~(n = cur /\ pc \in Deleting /\ k <= done) =>
           moduls[ldc[n].moduls[k].id] = ldc[n].moduls[k].channels

Tables == ModulRows /\ ChannelRows /\ Complete /\ Stored

IInv == /\ TypeOK /\ Memory /\ Accepted /\ Progress /\ Once
        /\ ~torn => Tables
-----------------------------------------------------------------------------
(* Lists *)

\* A list with an entry at its end.
LEMMA AppendEffect ==
  ASSUME NEW S, NEW s \in Seq(S), NEW e \in S
  PROVE  /\ Append(s, e) \in Seq(S)
         /\ Len(Append(s, e)) = Len(s) + 1 /\ Len(s) \in Nat
         /\ \A k \in 1..Len(s) : Append(s, e)[k] = s[k]
         /\ Append(s, e)[Len(s) + 1] = e
  OBVIOUS

\* Two lists, one behind the other.
LEMMA ConcatEffect ==
  ASSUME NEW S, NEW s \in Seq(S), NEW t \in Seq(S)
  PROVE  /\ s \o t \in Seq(S) /\ Len(s \o t) = Len(s) + Len(t)
         /\ Len(s) \in Nat /\ Len(t) \in Nat
         /\ \A k \in 1..Len(s) : (s \o t)[k] = s[k]
         /\ \A k \in 1..Len(t) : (s \o t)[Len(s) + k] = t[k]
  OBVIOUS

\* What is left of a list without the entry at position n.
LEMMA RemoveAt ==
  ASSUME NEW S, NEW q \in Seq(S), NEW n \in 1..Len(q)
  PROVE  LET r == SubSeq(q, 1, n - 1) \o SubSeq(q, n + 1, Len(q))
         IN /\ r \in Seq(S)
            /\ DOMAIN r = 1..(Len(q) - 1)
            /\ \A k \in DOMAIN r : r[k] = IF k < n THEN q[k] ELSE q[k + 1]
<1> DEFINE a == SubSeq(q, 1, n - 1)
           b == SubSeq(q, n + 1, Len(q))
           r == a \o b
<1>1. /\ a \in Seq(S) /\ Len(a) = n - 1
      /\ \A k \in 1..(n - 1) : a[k] = q[k]
  OBVIOUS
<1>2. /\ b \in Seq(S) /\ Len(b) = Len(q) - n
      /\ \A k \in 1..(Len(q) - n) : b[k] = q[n + k]
  OBVIOUS
<1>3. r = a \o b
  OBVIOUS
<1> HIDE DEF a, b, r
<1>4. /\ r \in Seq(S) /\ Len(r) = Len(q) - 1 /\ Len(q) \in Nat
      /\ \A k \in 1..(n - 1) : r[k] = a[k]
      /\ \A k \in 1..(Len(q) - n) : r[(n - 1) + k] = b[k]
  <2>1. /\ r \in Seq(S) /\ Len(r) = Len(a) + Len(b)
        /\ \A k \in 1..Len(a) : r[k] = a[k]
        /\ \A k \in 1..Len(b) : r[Len(a) + k] = b[k]
    <3>1. a \in Seq(S) /\ b \in Seq(S)
      BY <1>1, <1>2
    <3>2. /\ a \o b \in Seq(S) /\ Len(a \o b) = Len(a) + Len(b)
          /\ \A k \in 1..Len(a) : (a \o b)[k] = a[k]
          /\ \A k \in 1..Len(b) : (a \o b)[Len(a) + k] = b[k]
      BY <3>1, ConcatEffect
    <3>3. QED
      BY <1>3, <3>2
  <2>2. Len(q) \in Nat /\ Len(a) = n - 1 /\ Len(b) = Len(q) - n /\ (n - 1) + (Len(q) - n) = Len(q) - 1
    BY <1>1, <1>2
  <2>3. QED
    BY <2>1, <2>2
<1>5. DOMAIN r = 1..(Len(q) - 1)
  BY <1>4
<1>6. ASSUME NEW k \in 1..(Len(q) - 1)
      PROVE  r[k] = IF k < n THEN q[k] ELSE q[k + 1]
  <2>1. CASE k < n
    <3>1. k \in 1..(n - 1)
      BY <2>1
    <3>2. QED
      BY <1>1, <1>4, <2>1, <3>1
  <2>2. CASE ~(k < n)
    <3> DEFINE m == k - (n - 1)
    <3>1. m \in 1..(Len(q) - n) /\ n + m = k + 1 /\ (n - 1) + m = k
      BY <1>4, <2>2
    <3> HIDE DEF m
    <3>2. r[k] = b[m] /\ b[m] = q[k + 1]
      BY <1>2, <1>4, <3>1
    <3>3. QED
      BY <2>2, <3>2
  <2>3. QED
    BY <2>1, <2>2
<1>7. QED
  BY <1>4, <1>5, <1>6 DEF a, b, r

-----------------------------------------------------------------------------
(* Types *)

\* Types of the constants.
LEMMA Numbers ==
  /\ ModulCnt \in Nat /\ ModulCnt > 0 /\ ChannelCnt \in Nat /\ ChannelCnt > 0
  /\ MaxDev \in Nat /\ MaxMod \in Nat /\ MaxChan \in Nat
  /\ MaxRoutes \in Nat /\ MaxReboot \in Nat
  BY RegistryAssumption

\* What is in a row.
LEMMA RowFields ==
  ASSUME NEW r \in Row
  PROVE  /\ r.adr \in Adr /\ r.wkc \in BOOLEAN
         /\ r.moduls \in Seq(ModId) /\ Len(r.moduls) \in Nat /\ Len(r.moduls) <= ModulCnt
         /\ \A k \in 1..Len(r.moduls) : r.moduls[k] \in ModId
<1>1. r.adr \in Adr /\ r.wkc \in BOOLEAN /\ r.moduls \in Moduls
  BY DEF Row
<1>2. r.moduls \in Seq(ModId) /\ Len(r.moduls) <= ModulCnt
  BY <1>1 DEF Moduls
<1>3. QED
  BY <1>1, <1>2

\* What is in a list of channels.
LEMMA ListFields ==
  ASSUME NEW s \in Channels
  PROVE  /\ s \in Seq(ChanId) /\ Len(s) \in Nat /\ Len(s) <= ChannelCnt
         /\ \A k \in 1..Len(s) : s[k] \in ChanId
<1>1. s \in Seq(ChanId) /\ Len(s) <= ChannelCnt
  BY DEF Channels
<1>2. QED
  BY <1>1

\* What is in a modul in memory.
LEMMA ModulFields ==
  ASSUME NEW m \in Lmodul
  PROVE  m.id \in ModId /\ m.channels \in Channels
  BY DEF Lmodul

\* What is in a device in memory.
LEMMA DeviceFields ==
  ASSUME NEW d \in Ldevice
  PROVE  /\ d.id \in DevId \union {0} /\ d.adr \in Adr
         /\ d.moduls \in Seq(Lmodul) /\ Len(d.moduls) \in Nat
         /\ \A k \in 1..Len(d.moduls) : d.moduls[k] \in Lmodul
<1>1. d.id \in DevId \union {0} /\ d.adr \in Adr /\ d.moduls \in Seq(Lmodul)
  BY DEF Ldevice
<1>2. QED
  BY <1>1

\* What TypeOK says of rows and of devices in memory.
LEMMA Typed ==
  ASSUME TypeOK
  PROVE  /\ \A i \in DOMAIN devices : devices[i] \in Row
         /\ \A m \in DOMAIN moduls : moduls[m] \in Channels
         /\ Len(ldc) \in Nat /\ DOMAIN ldc = 1..Len(ldc)
         /\ \A n \in 1..Len(ldc) : ldc[n] \in Ldevice
         /\ 0 \notin DOMAIN devices
<1>1. ldc \in Seq(Ldevice)
  BY DEF TypeOK
<1>2. Len(ldc) \in Nat /\ DOMAIN ldc = 1..Len(ldc) /\ \A n \in 1..Len(ldc) : ldc[n] \in Ldevice
  BY <1>1
<1>3. 0 \notin DOMAIN devices
  BY DEF TypeOK
<1>4. QED
  BY <1>3 DEF TypeOK

-----------------------------------------------------------------------------
(* Steps that leave the tables and the container alone *)

\* The invariant holds when nothing is registered.
LEMMA InitHolds == Init => IInv
<1> SUFFICES ASSUME Init PROVE IInv
  OBVIOUS
<1>1. TypeOK
  <2>1. /\ devices = <<>> /\ moduls = <<>> /\ channels = {} /\ ldc = <<>> /\ routes = <<>>
        /\ pc = "idle" /\ cur = 0 /\ done = 0 /\ chans = 0 /\ torn = FALSE /\ nreboot = 0
    BY DEF Init
  <2>2. DOMAIN devices = {} /\ DOMAIN moduls = {}
    BY <2>1
  <2>3. ldc \in Seq(Ldevice) /\ routes \in Seq(Adr)
    BY <2>1
  <2>4. done \in 0..ModulCnt /\ chans \in 0..ChannelCnt /\ nreboot \in 0..MaxReboot /\ cur \in Nat
    BY <2>1, Numbers
  <2>5. QED
    BY <2>1, <2>2, <2>3, <2>4 DEF TypeOK
<1>2. DOMAIN devices = {} /\ DOMAIN moduls = {} /\ ldc = <<>> /\ Len(ldc) = 0 /\ pc = "idle"
  BY DEF Init
<1>3. 1..Len(ldc) = {}
  BY <1>2
<1>4. Memory /\ Accepted /\ Progress /\ Once
  BY <1>2 DEF Memory, Accepted, Progress, Once, Saving, Deleting
<1>5. Tables
  BY <1>2 DEF Tables, ModulRows, ChannelRows, Complete, Stored
<1>6. QED
  BY <1>1, <1>4, <1>5 DEF IInv

Quiet == /\ pc \in {"idle", "scan"} /\ pc' \in {"idle", "scan"}
         /\ UNCHANGED <<tables, ldc, cur, done, chans, torn, nreboot>>

\* Steps that move only the place in the routing table.
LEMMA QuietKeeps ==
  ASSUME IInv, Quiet, routes' \in Seq(Adr)
  PROVE  IInv'
<1>1. TypeOK'
  BY DEF IInv, TypeOK, Quiet, tables
<1>2. Memory' /\ Accepted' /\ Progress' /\ Once'
  BY DEF IInv, Quiet, tables, Memory, Accepted, Progress, Once, Saving, Deleting
<1>3. ~torn' => Tables'
  BY DEF IInv, Quiet, tables, Tables, ModulRows, ChannelRows, Complete, Stored, Saving,
     Deleting
<1>4. QED
  BY <1>1, <1>2, <1>3 DEF IInv

\* LDCcheckForNewDevices() without a new device.
LEMMA ScanKeeps ==
  ASSUME IInv, ReadRoutes \/ SkipKnown \/ ScanEnds \/ GiveUp
  PROVE  IInv'
<1>1. routes \in Seq(Adr)
  BY DEF IInv, TypeOK
<1>2. CASE ReadRoutes
  <2>1. routes' \in Seq(Adr)
    <3>1. PICK n \in 1..MaxRoutes : routes' \in [1..n -> Adr]
      BY <1>2 DEF ReadRoutes
    <3>2. n \in Nat
      OBVIOUS
    <3>3. QED
      BY <3>1
  <2>2. QED
    BY <1>2, QuietKeeps DEF ReadRoutes, Quiet, deletion
<1>3. CASE SkipKnown
  <2>1. routes' \in Seq(Adr)
    BY <1>1, <1>3 DEF SkipKnown
  <2>2. QED
    BY <1>3, <2>1, QuietKeeps DEF SkipKnown, Quiet, deletion
<1>4. CASE ScanEnds
  BY <1>4, QuietKeeps DEF ScanEnds, Quiet, deletion
<1>5. CASE GiveUp
  <2>1. routes' \in Seq(Adr)
    BY <1>5 DEF GiveUp
  <2>2. QED
    BY <1>5, QuietKeeps DEF GiveUp, Quiet, deletion
<1>6. QED
  BY <1>2, <1>3, <1>4, <1>5

\* handleDelCmd() begins.
LEMMA DeleteKeeps ==
  ASSUME IInv, NEW n \in DOMAIN ldc, Delete(n)
  PROVE  IInv'
<1>1. /\ pc = "idle" /\ pc' = "delmodul" /\ cur' = n /\ done' = 0 /\ chans' = 0
      /\ UNCHANGED <<devices, moduls, channels, ldc, routes, torn, nreboot>>
  BY DEF Delete, tables
<1>2. n \in 1..Len(ldc) /\ n \in Nat
  BY DEF IInv
<1>3. TypeOK'
  <2>1. done' \in 0..ModulCnt /\ chans' \in 0..ChannelCnt
    BY <1>1, Numbers
  <2>2. QED
    BY <1>1, <2>1 DEF IInv, TypeOK, Deleting
<1>4. Memory' /\ Accepted' /\ Once'
  <2>1. Memory
    BY DEF IInv
  <2>2. Memory'
    BY <1>1, <2>1 DEF Memory, Saving
  <2>3. Accepted' /\ Once'
    BY <1>1 DEF IInv, Accepted, Once
  <2>4. QED
    BY <2>2, <2>3
<1>5. Progress'
  <2>1. Len(ldc[n].moduls) = ModulCnt
    BY <1>1 DEF IInv, Memory, Saving
  <2>2. ldc[n].moduls[1] \in Lmodul
    <3>1. ldc[n] \in Ldevice
      BY Typed DEF IInv
    <3>2. QED
      BY <2>1, <3>1, DeviceFields, Numbers
  <2>3. Len(ldc[n].moduls[1].channels) \in Nat
    OBVIOUS
  <2>4. done' + 1 = 1 /\ done' < ModulCnt /\ chans' <= Len(ldc[n].moduls[1].channels)
    BY <1>1, Numbers
  <2>5. QED
    BY <1>1, <2>4 DEF Progress, Saving
<1>6. ~torn' => Tables'
  <2> SUFFICES ASSUME ~torn PROVE Tables'
    BY <1>1
  <2>1. Tables
    BY DEF IInv
  <2>2. ModulRows' /\ ChannelRows' /\ Complete'
    BY <1>1, <2>1 DEF Tables, ModulRows, ChannelRows, Complete, Deleting
  <2>3. Stored'
    BY <1>1, <2>1 DEF Tables, Stored, Saving, Deleting
  <2>4. QED
    BY <2>2, <2>3 DEF Tables
<1>7. QED
  BY <1>3, <1>4, <1>5, <1>6 DEF IInv

\* A crash loses the container only.
LEMMA CrashKeeps ==
  ASSUME IInv, Crash
  PROVE  IInv'
<1>1. /\ nreboot < MaxReboot /\ nreboot' = nreboot + 1
      /\ torn' = (torn \/ pc \in Deleting) /\ pc' = "down"
      /\ ldc' = <<>> /\ routes' = <<>> /\ cur' = 0 /\ done' = 0 /\ chans' = 0
      /\ UNCHANGED <<devices, moduls, channels>>
  BY DEF Crash, tables
<1>2. TypeOK'
  <2>1. /\ cur' \in Nat /\ done' \in 0..ModulCnt /\ chans' \in 0..ChannelCnt
    BY <1>1, Numbers
  <2>2. nreboot' \in 0..MaxReboot
    BY <1>1, Numbers DEF IInv, TypeOK
  <2>3. ldc' \in Seq(Ldevice) /\ routes' \in Seq(Adr)
    BY <1>1
  <2>4. torn' \in BOOLEAN
    BY <1>1
  <2>5. QED
    BY <1>1, <2>1, <2>2 DEF IInv, TypeOK
<1>3. 1..Len(ldc') = {}
  BY <1>1
<1>4. nreboot' # 0
  BY <1>1 DEF IInv, TypeOK
<1>5. Memory' /\ Accepted' /\ Progress' /\ Once'
  BY <1>1, <1>4 DEF IInv, Memory, Accepted, Progress, Once, Saving, Deleting
<1>6. ~torn' => Tables'
  <2> SUFFICES ASSUME ~torn, pc \notin Deleting PROVE Tables'
    BY <1>1
  <2>1. Tables
    BY DEF IInv
  <2>2. ModulRows' /\ ChannelRows' /\ Complete' /\ Stored'
    BY <1>1, <2>1 DEF Tables, ModulRows, ChannelRows, Complete, Stored, Deleting
  <2>3. QED
    BY <2>2 DEF Tables
<1>7. QED
  BY <1>2, <1>5, <1>6 DEF IInv


-----------------------------------------------------------------------------
(* Registration *)

\* The empty list.
LEMMA NoModul == ASSUME NEW S PROVE <<>> \in Seq(S) /\ Len(<<>>) = 0 /\ 1..Len(<<>>) = {}
  OBVIOUS

\* A new number is not in use.
LEMMA NewNumber ==
  ASSUME NEW ids, NEW i \in Nat, NewId(ids, i)
  PROVE  i \notin ids
  BY DEF NewId

\* LDCadd(): the new device has no row and no other device has its address.
LEMMA DiscoverKeeps ==
  ASSUME IInv, Discover
  PROVE  IInv'
<1> DEFINE d == [id |-> 0, adr |-> Head(routes), moduls |-> <<>>]
<1>1. /\ pc = "scan" /\ pc' = "insert" /\ routes # <<>> /\ ~Known(Head(routes))
      /\ ldc' = Append(ldc, d) /\ cur' = Len(ldc) + 1 /\ routes' = Tail(routes)
      /\ UNCHANGED <<devices, moduls, channels, done, chans, torn, nreboot>>
  BY DEF Discover, tables, deletion
<1>2. ldc \in Seq(Ldevice) /\ routes \in Seq(Adr)
  BY DEF IInv, TypeOK
<1>3. Head(routes) \in Adr /\ routes' \in Seq(Adr)
  BY <1>1, <1>2
<1>4. d \in Ldevice /\ d.id = 0 /\ d.adr = Head(routes) /\ d.moduls = <<>>
  BY <1>3 DEF Ldevice
<1>5. /\ ldc' \in Seq(Ldevice) /\ Len(ldc') = Len(ldc) + 1 /\ Len(ldc) \in Nat
      /\ \A n \in 1..Len(ldc) : ldc'[n] = ldc[n]
      /\ ldc'[Len(ldc) + 1] = d
  BY <1>1, <1>2, <1>4
<1> HIDE DEF d
<1>6. \A n \in 1..Len(ldc') : n = cur' \/ (n \in 1..Len(ldc) /\ n # cur' /\ ldc'[n] = ldc[n])
  BY <1>1
<1>7. cur' \in 1..Len(ldc') /\ cur' \in Nat /\ ldc'[cur'] = d
  BY <1>1
<1>8. TypeOK'
  BY <1>1, <1>5 DEF IInv, TypeOK, Saving
<1>9. Memory'
  <2>1. Memory
    BY DEF IInv
  <2>2. \A n \in 1..Len(ldc) :
          /\ ldc[n].id # 0 /\ ldc[n].id \in DOMAIN devices
          /\ devices[ldc[n].id].adr = ldc[n].adr
          /\ Len(ldc[n].moduls) = ModulCnt /\ devices[ldc[n].id].wkc
          /\ \A m \in 1..Len(ldc) : ldc[m].id = ldc[n].id => m = n
    BY <1>1, <2>1 DEF Memory, Saving
  <2>3. \A n \in 1..Len(ldc') : ldc'[n].id = 0 <=> n = cur'
    BY <1>4, <1>6, <1>7, <2>2
  <2>4. \A n \in 1..Len(ldc') : n # cur' =>
          /\ ldc'[n].id \in DOMAIN devices
          /\ devices[ldc'[n].id].adr = ldc'[n].adr
          /\ Len(ldc'[n].moduls) = ModulCnt /\ devices[ldc'[n].id].wkc
    BY <1>6, <2>2
  <2>5. \A n, m \in 1..Len(ldc') : ldc'[m].id = ldc'[n].id => m = n
    BY <1>4, <1>6, <1>7, <2>2
  <2>6. QED
    BY <1>1, <2>3, <2>4, <2>5 DEF Memory, Saving
<1>10. Accepted' /\ Progress'
  BY <1>1, <1>4 DEF IInv, Accepted, Progress
<1>11. Once'
  <2> SUFFICES ASSUME nreboot = 0 PROVE Once'
    BY <1>1 DEF Once
  <2>1. /\ \A i \in DOMAIN devices : \E n \in 1..Len(ldc) : ldc[n].id = i
        /\ \A m, n \in 1..Len(ldc) : ldc[m].adr = ldc[n].adr => m = n
    BY DEF IInv, Once
  <2>2. \A i \in DOMAIN devices : \E n \in 1..Len(ldc') : ldc'[n].id = i
    BY <1>5, <2>1
  <2>3. \A n \in 1..Len(ldc) : ldc[n].adr # d.adr
    BY <1>1, <1>4 DEF Known
  <2>4. \A m, n \in 1..Len(ldc') : ldc'[m].adr = ldc'[n].adr => m = n
    BY <1>6, <1>7, <2>1, <2>3
  <2>5. QED
    BY <1>1, <2>2, <2>4 DEF Once
<1>12. ~torn' => Tables'
  <2> SUFFICES ASSUME ~torn PROVE Tables'
    BY <1>1
  <2>1. Tables
    BY DEF IInv
  <2>2. ModulRows' /\ ChannelRows' /\ Complete'
    BY <1>1, <2>1 DEF Tables, ModulRows, ChannelRows, Complete, Deleting
  <2>3. Stored'
    BY <1>1, <1>6, <2>1 DEF Tables, Stored, Saving, Deleting
  <2>4. QED
    BY <2>2, <2>3 DEF Tables
<1>13. QED
  BY <1>8, <1>9, <1>10, <1>11, <1>12 DEF IInv

\* The row of the new device is its own.
LEMMA SaveNewDeviceKeeps ==
  ASSUME IInv, SaveNewDevice
  PROVE  IInv'
<1>1. PICK i \in DevId :
        /\ NewId(DOMAIN devices, i)
        /\ devices' = [j \in DOMAIN devices \union {i} |->
                         IF j = i THEN [adr |-> ldc[cur].adr, moduls |-> <<>>, wkc |-> FALSE]
                         ELSE devices[j]]
        /\ ldc' = [ldc EXCEPT ![cur].id = i]
  BY DEF SaveNewDevice
<1>2. /\ pc = "insert" /\ pc' = "modul"
      /\ UNCHANGED <<moduls, channels, routes, cur, done, chans, torn, nreboot>>
  BY DEF SaveNewDevice, deletion
<1> DEFINE d == [ldc[cur] EXCEPT !.id = i]
           r == [adr |-> ldc[cur].adr, moduls |-> <<>>, wkc |-> FALSE]
<1>3. i \in Nat /\ i # 0 /\ i \notin DOMAIN devices
  BY <1>1, NewNumber DEF DevId
<1>4. /\ cur \in 1..Len(ldc) /\ Len(ldc) \in Nat /\ ldc \in Seq(Ldevice)
      /\ ldc[cur] \in Ldevice /\ ldc[cur].moduls = <<>>
  BY <1>2 DEF IInv, TypeOK, Memory, Progress
<1>5. /\ d \in Ldevice /\ d.id = i /\ d.adr = ldc[cur].adr /\ d.moduls = <<>>
  BY <1>4 DEF Ldevice
<1>6. ldc' = [ldc EXCEPT ![cur] = d]
  BY <1>1
<1>7. r \in Row /\ r.adr = ldc[cur].adr /\ r.moduls = <<>> /\ r.wkc = FALSE
  <2>1. <<>> \in Moduls
    BY Numbers DEF Moduls
  <2>2. QED
    BY <1>4, <2>1, DeviceFields DEF Row
<1>8. /\ DOMAIN devices' = DOMAIN devices \union {i} /\ devices'[i] = r
      /\ \A j \in DOMAIN devices : devices'[j] = devices[j]
  BY <1>1, <1>3
<1> HIDE DEF d, r
<1>9. /\ ldc' \in Seq(Ldevice) /\ Len(ldc') = Len(ldc) /\ ldc'[cur] = d
      /\ \A n \in 1..Len(ldc) : n # cur => ldc'[n] = ldc[n]
  BY <1>4, <1>5, <1>6
<1>10. TypeOK'
  <2>1. DOMAIN devices' \subseteq DevId /\ \A j \in DOMAIN devices' : devices'[j] \in Row
    BY <1>7, <1>8 DEF IInv, TypeOK
  <2>2. QED
    BY <1>2, <1>9, <2>1 DEF IInv, TypeOK, Saving
<1>11. \A n \in 1..Len(ldc) : n # cur =>
         /\ ldc[n].id # 0 /\ ldc[n].id \in DOMAIN devices
         /\ devices[ldc[n].id].adr = ldc[n].adr
         /\ Len(ldc[n].moduls) = ModulCnt /\ devices[ldc[n].id].wkc
         /\ \A m \in 1..Len(ldc) : ldc[m].id = ldc[n].id => m = n
  BY DEF IInv, Memory
<1>12. Memory'
  <2>1. \A n \in 1..Len(ldc') :
          /\ ldc'[n].id # 0
          /\ ldc'[n].id \in DOMAIN devices'
          /\ devices'[ldc'[n].id].adr = ldc'[n].adr
    BY <1>3, <1>5, <1>7, <1>8, <1>9, <1>11
  <2>2. \A n \in 1..Len(ldc') : n # cur =>
          Len(ldc'[n].moduls) = ModulCnt /\ devices'[ldc'[n].id].wkc
    BY <1>8, <1>9, <1>11
  <2>3. \A n, m \in 1..Len(ldc') : ldc'[m].id = ldc'[n].id => m = n
    BY <1>3, <1>5, <1>9, <1>11
  <2>4. QED
    BY <1>2, <1>4, <1>9, <2>1, <2>2, <2>3 DEF Memory, Saving
<1>13. Accepted'
  BY <1>7, <1>8 DEF IInv, Accepted
<1>14. Progress'
  <2>1. ldc'[cur'] = d /\ devices'[ldc'[cur'].id] = r
    BY <1>2, <1>5, <1>8, <1>9
  <2>2. Len(d.moduls) = 0 /\ Len(r.moduls) = 0 /\ 1..Len(d.moduls) = {} /\ 1..Len(r.moduls) = {}
    BY <1>5, <1>7
  <2>3. Saved(ldc[cur], devices[ldc[cur].id])'
    BY <1>2, <1>7, <2>1, <2>2, Numbers DEF Saved
  <2>4. QED
    BY <1>2, <2>3 DEF Progress
<1>15. Once'
  <2> SUFFICES ASSUME nreboot = 0 PROVE Once'
    BY <1>2 DEF Once
  <2>1. /\ \A j \in DOMAIN devices : \E n \in 1..Len(ldc) : ldc[n].id = j
        /\ \A m, n \in 1..Len(ldc) : ldc[m].adr = ldc[n].adr => m = n
    BY DEF IInv, Once
  <2>2. ldc[cur].id = 0
    BY <1>2, <1>4 DEF IInv, Memory
  <2>3. 0 \notin DOMAIN devices
    BY Typed DEF IInv
  <2>4. \A j \in DOMAIN devices' : \E n \in 1..Len(ldc') : ldc'[n].id = j
    BY <1>4, <1>5, <1>8, <1>9, <2>1, <2>2, <2>3
  <2>5. \A n \in 1..Len(ldc') : ldc'[n].adr = ldc[n].adr
    BY <1>5, <1>9
  <2>6. QED
    BY <1>2, <1>9, <2>1, <2>4, <2>5 DEF Once
<1>16. ~torn' => Tables'
  <2> SUFFICES ASSUME ~torn PROVE Tables'
    BY <1>2
  <2>1. ModulRows /\ ChannelRows /\ Complete /\ Stored
    BY DEF IInv, Tables
  <2>2. 1..Len(r.moduls) = {}
    BY <1>7
  <2>3. ModulRows'
    BY <1>2, <1>8, <2>1, <2>2 DEF ModulRows, Deleting
  <2>4. ChannelRows'
    BY <1>2, <2>1 DEF ChannelRows
  <2>5. Complete'
    BY <1>2, <1>7, <1>8, <2>1 DEF Complete
  <2>6. Stored'
    BY <1>2, <1>8, <1>9, <1>11, <2>1 DEF Stored, Saving
  <2>7. QED
    BY <2>3, <2>4, <2>5, <2>6 DEF Tables
<1>17. QED
  BY <1>10, <1>12, <1>13, <1>14, <1>15, <1>16 DEF IInv

\* The device that is being saved and the others, once it has a row.
LEMMA WhileSaving ==
  ASSUME IInv, pc \in Saving \ {"insert"}
  PROVE  /\ cur \in 1..Len(ldc) /\ ldc \in Seq(Ldevice) /\ ldc[cur] \in Ldevice
         /\ ldc[cur].id \in DOMAIN devices /\ ldc[cur].id # 0
         /\ devices[ldc[cur].id].adr = ldc[cur].adr
         /\ Saved(ldc[cur], devices[ldc[cur].id])
         /\ \A n \in 1..Len(ldc) : n # cur =>
              /\ ldc[n].id # 0 /\ ldc[n].id \in DOMAIN devices /\ ldc[n].id # ldc[cur].id
              /\ devices[ldc[n].id].adr = ldc[n].adr
              /\ Len(ldc[n].moduls) = ModulCnt /\ devices[ldc[n].id].wkc
              /\ \A m \in 1..Len(ldc) : ldc[m].id = ldc[n].id => m = n
<1>1. Memory /\ Progress /\ pc # "insert" /\ pc \in Saving
  BY DEF IInv
<1>2. cur \in 1..Len(ldc) /\ ldc \in Seq(Ldevice)
  BY DEF IInv, TypeOK, Memory
<1>3. ldc[cur] \in Ldevice
  BY <1>2 DEF IInv
<1>4. /\ ldc[cur].id \in DOMAIN devices /\ ldc[cur].id # 0
      /\ devices[ldc[cur].id].adr = ldc[cur].adr
  BY <1>1 DEF Memory
<1>5. Saved(ldc[cur], devices[ldc[cur].id])
  BY <1>1 DEF Progress
<1>6. \A n \in 1..Len(ldc) : n # cur =>
        /\ ldc[n].id # 0 /\ ldc[n].id \in DOMAIN devices /\ ldc[n].id # ldc[cur].id
        /\ devices[ldc[n].id].adr = ldc[n].adr
        /\ Len(ldc[n].moduls) = ModulCnt /\ devices[ldc[n].id].wkc
        /\ \A m \in 1..Len(ldc) : ldc[m].id = ldc[n].id => m = n
  BY <1>1 DEF Memory
<1>7. QED
  BY <1>2, <1>4, <1>5, <1>6

\* A list of moduls grows or changes in memory: the rest of the container stays.
LEMMA ModulsChange ==
  ASSUME IInv, pc \in Saving \ {"insert"}, pc' \in Saving \ {"insert"},
         NEW d \in Ldevice, d.id = ldc[cur].id, d.adr = ldc[cur].adr,
         ldc' = [ldc EXCEPT ![cur] = d],
         UNCHANGED <<devices, cur, nreboot>>
  PROVE  /\ ldc' \in Seq(Ldevice) /\ Len(ldc') = Len(ldc) /\ ldc'[cur] = d
         /\ \A n \in 1..Len(ldc) : n # cur => ldc'[n] = ldc[n]
         /\ Memory' /\ Accepted' /\ Once'
<1>1. /\ ldc' \in Seq(Ldevice) /\ Len(ldc') = Len(ldc) /\ ldc'[cur] = d
      /\ \A n \in 1..Len(ldc) : n # cur => ldc'[n] = ldc[n]
  BY WhileSaving
<1>2. \A n \in 1..Len(ldc) : ldc'[n].id = ldc[n].id /\ ldc'[n].adr = ldc[n].adr
  OBVIOUS
<1>3. Memory'
  <2>1. /\ cur' \in 1..Len(ldc') /\ pc' # "down" /\ pc' # "insert"
    BY WhileSaving DEF Saving
  <2>2. \A n \in 1..Len(ldc') :
          /\ ldc'[n].id # 0
          /\ ldc'[n].id \in DOMAIN devices'
          /\ devices'[ldc'[n].id].adr = ldc'[n].adr
    BY WhileSaving
  <2>3. \A n \in 1..Len(ldc') : n # cur' =>
          Len(ldc'[n].moduls) = ModulCnt /\ devices'[ldc'[n].id].wkc
    BY WhileSaving
  <2>4. \A n, m \in 1..Len(ldc') : ldc'[m].id = ldc'[n].id => m = n
    BY WhileSaving
  <2>5. QED
    BY <2>1, <2>2, <2>3, <2>4 DEF Memory
<1>4. Accepted'
  BY DEF IInv, Accepted
<1>5. Once'
  BY DEF IInv, Once, Saving
<1>6. QED
  BY <1>1, <1>3, <1>4, <1>5

\* The moduls of complete rows are in the table, and none of them is one of the
\* device that is being saved.
LEMMA RowsApart ==
  ASSUME IInv, ~torn, pc \in Saving \ {"insert"}
  PROVE  /\ \A i \in DOMAIN devices : \A k \in 1..Len(devices[i].moduls) :
              /\ devices[i].moduls[k] \in DOMAIN moduls
              /\ devices[i].wkc => \A l \in 1..Len(ldc[cur].moduls) :
                                     devices[i].moduls[k] # ldc[cur].moduls[l].id
         /\ \A n \in 1..Len(ldc) : n # cur => \A k \in 1..ModulCnt :
              /\ ldc[n].moduls[k].id = devices[ldc[n].id].moduls[k]
              /\ ldc[n].moduls[k].id \in DOMAIN moduls
              /\ moduls[ldc[n].moduls[k].id] = ldc[n].moduls[k].channels
              /\ \A l \in 1..Len(ldc[cur].moduls) :
                   ldc[n].moduls[k].id # ldc[cur].moduls[l].id
<1>1. ModulRows /\ Stored /\ Accepted /\ pc \in Saving /\ pc \notin Deleting
  BY DEF IInv, Tables, Saving, Deleting
<1>2. \A i \in DOMAIN devices : \A k \in 1..Len(devices[i].moduls) :
        devices[i].moduls[k] \in DOMAIN moduls
  BY <1>1 DEF ModulRows
<1>3. ASSUME NEW i \in DOMAIN devices, NEW k \in 1..Len(devices[i].moduls), devices[i].wkc,
             NEW l \in 1..Len(ldc[cur].moduls)
      PROVE  devices[i].moduls[k] # ldc[cur].moduls[l].id
  <2> DEFINE row == devices[ldc[cur].id]
  <2>1. Saved(ldc[cur], row) /\ ldc[cur].id \in DOMAIN devices /\ ldc[cur] \in Ldevice
    BY WhileSaving
  <2>2. ~row.wkc /\ \A m \in 1..Len(row.moduls) : row.moduls[m] = ldc[cur].moduls[m].id
    BY <2>1 DEF Saved
  <2>3. i # ldc[cur].id
    BY <1>3, <2>2
  <2>4. CASE l \in 1..Len(row.moduls)
    <3>1. row.moduls[l] # devices[i].moduls[k]
      BY <1>1, <2>1, <2>3, <2>4 DEF ModulRows
    <3>2. row.moduls[l] = ldc[cur].moduls[l].id
      BY <2>2, <2>4
    <3>3. QED
      BY <3>1, <3>2
  <2>5. CASE l \notin 1..Len(row.moduls)
    <3>1. Len(ldc[cur].moduls) \in Nat
      OBVIOUS
    <3>2. pc = "linkmodul" /\ Len(row.moduls) = Len(ldc[cur].moduls) - 1
      BY <2>1, <2>5 DEF Saved
    <3>3. l = Len(ldc[cur].moduls)
      BY <2>5, <3>2
    <3>4. QED
      BY <1>1, <3>2, <3>3 DEF ModulRows, Current
  <2>6. QED
    BY <2>4, <2>5
<1>4. ASSUME NEW n \in 1..Len(ldc), n # cur, NEW k \in 1..ModulCnt
      PROVE  /\ ldc[n].moduls[k].id = devices[ldc[n].id].moduls[k]
             /\ moduls[ldc[n].moduls[k].id] = ldc[n].moduls[k].channels
             /\ k \in 1..Len(devices[ldc[n].id].moduls)
             /\ ldc[n].id \in DOMAIN devices /\ devices[ldc[n].id].wkc
  <2>1. ldc[n].id \in DOMAIN devices /\ devices[ldc[n].id].wkc
    BY <1>4, WhileSaving
  <2>2. k \in 1..Len(devices[ldc[n].id].moduls)
    BY <1>1, <2>1 DEF Accepted
  <2>3. QED
    BY <1>1, <1>4, <2>1, <2>2 DEF Stored
<1>5. ASSUME NEW n \in 1..Len(ldc), n # cur, NEW k \in 1..ModulCnt
      PROVE  /\ ldc[n].moduls[k].id \in DOMAIN moduls
             /\ \A l \in 1..Len(ldc[cur].moduls) :
                  ldc[n].moduls[k].id # ldc[cur].moduls[l].id
  <2>1. /\ ldc[n].moduls[k].id = devices[ldc[n].id].moduls[k]
        /\ k \in 1..Len(devices[ldc[n].id].moduls)
        /\ ldc[n].id \in DOMAIN devices /\ devices[ldc[n].id].wkc
    BY <1>4, <1>5
  <2>2. QED
    BY <1>2, <1>3, <2>1
<1>6. QED
  BY <1>2, <1>3, <1>4, <1>5

\* The new modul is in the table and listed by no device.
LEMMA SaveModulKeeps ==
  ASSUME IInv, SaveModul
  PROVE  IInv'
<1>1. PICK i \in ModId :
        /\ NewId(DOMAIN moduls, i)
        /\ moduls' = [m \in DOMAIN moduls \union {i} |-> IF m = i THEN <<>> ELSE moduls[m]]
        /\ ldc' = [ldc EXCEPT ![cur].moduls = Append(@, [id |-> i, channels |-> <<>>])]
  BY DEF SaveModul
<1>2. /\ pc = "modul" /\ pc' = "linkmodul"
      /\ UNCHANGED <<devices, channels, routes, cur, done, chans, torn, nreboot>>
  BY DEF SaveModul, deletion
<1>3. pc \in Saving \ {"insert"} /\ pc' \in Saving \ {"insert"}
  BY <1>2 DEF Saving
<1> DEFINE new == [id |-> i, channels |-> <<>>]
           old == ldc[cur].moduls
           d == [ldc[cur] EXCEPT !.moduls = Append(old, new)]
<1>4. i \notin DOMAIN moduls
  BY <1>1, NewNumber DEF ModId
<1>5. /\ cur \in 1..Len(ldc) /\ ldc[cur] \in Ldevice
      /\ Saved(ldc[cur], devices[ldc[cur].id]) /\ ldc[cur].id \in DOMAIN devices
  BY <1>3, WhileSaving
<1>6. new \in Lmodul /\ new.id = i /\ new.channels = <<>>
  BY Numbers DEF Lmodul, Channels
<1>7. old \in Seq(Lmodul)
  BY <1>5, DeviceFields
<1>8. /\ Append(old, new) \in Seq(Lmodul) /\ Len(Append(old, new)) = Len(old) + 1
      /\ \A k \in 1..Len(old) : Append(old, new)[k] = old[k]
      /\ Append(old, new)[Len(old) + 1] = new /\ Len(old) \in Nat
  BY <1>6, <1>7
<1>9. d \in Ldevice /\ d.id = ldc[cur].id /\ d.adr = ldc[cur].adr /\ d.moduls = Append(old, new)
  BY <1>5, <1>8 DEF Ldevice
<1>10. ldc' = [ldc EXCEPT ![cur] = d]
  BY <1>1
<1>11. /\ DOMAIN moduls' = DOMAIN moduls \union {i} /\ moduls'[i] = <<>>
       /\ \A m \in DOMAIN moduls : moduls'[m] = moduls[m]
  BY <1>1, <1>4
<1> HIDE DEF d, new
<1>12. /\ ldc' \in Seq(Ldevice) /\ Len(ldc') = Len(ldc) /\ ldc'[cur] = d
       /\ \A n \in 1..Len(ldc) : n # cur => ldc'[n] = ldc[n]
       /\ Memory' /\ Accepted' /\ Once'
  BY <1>2, <1>3, <1>9, <1>10, ModulsChange
<1>13. TypeOK'
  <2>1. \A m \in DOMAIN moduls' : moduls'[m] \in Channels
    <3>1. <<>> \in Channels
      BY Numbers DEF Channels
    <3>2. QED
      BY <1>11, <3>1 DEF IInv, TypeOK
  <2>2. DOMAIN moduls' \subseteq ModId
    BY <1>11 DEF IInv, TypeOK
  <2>3. QED
    BY <1>2, <1>3, <1>12, <2>1, <2>2 DEF IInv, TypeOK
<1>14. Progress'
  <2> DEFINE row == devices[ldc[cur].id]
  <2>1. /\ ~row.wkc /\ Len(row.moduls) = Len(old) /\ Len(old) < ModulCnt
        /\ \A k \in 1..Len(row.moduls) : row.moduls[k] = old[k].id
        /\ \A k \in 1..Len(old) :
             /\ old[k].id \in DOMAIN moduls
             /\ \A l \in 1..Len(old) : old[l].id = old[k].id => l = k
             /\ moduls[old[k].id] = old[k].channels
             /\ Len(old[k].channels) = ChannelCnt
    BY <1>2, <1>5 DEF Saved
  <2> DEFINE ms == d.moduls
  <2>2. /\ Len(ms) = Len(old) + 1 /\ Len(old) \in Nat /\ ms[Len(ms)] = new
        /\ \A k \in 1..Len(ms) : \/ k = Len(ms)
                                 \/ k \in 1..Len(old) /\ k < Len(ms) /\ ms[k] = old[k]
        /\ \A k \in 1..Len(old) : ms[k] = old[k]
    BY <1>8, <1>9
  <2> HIDE DEF ms
  <2>4. /\ \A k \in 1..Len(old) : ms[k].id # ms[Len(ms)].id
        /\ \A k \in 1..Len(ms) : ms[k].id \in DOMAIN moduls'
    <3>1. \A k \in 1..Len(old) : ms[k].id \in DOMAIN moduls
      BY <2>1, <2>2
    <3>2. ms[Len(ms)].id = i
      BY <1>6, <2>2
    <3>3. \A k \in 1..Len(old) : ms[k].id # ms[Len(ms)].id
      BY <1>4, <3>1, <3>2
    <3>4. \A k \in 1..Len(ms) : ms[k].id \in DOMAIN moduls'
      BY <1>11, <2>2, <3>1, <3>2
    <3>5. QED
      BY <3>3, <3>4
  <2>5. \A k, l \in 1..Len(ms) : ms[l].id = ms[k].id => l = k
    BY <2>1, <2>2, <2>4
  <2>6. \A k \in 1..Len(old) : /\ moduls'[ms[k].id] = ms[k].channels
                               /\ Len(ms[k].channels) = ChannelCnt
    BY <1>11, <2>1, <2>2
  <2>7. moduls'[ms[Len(ms)].id] = ms[Len(ms)].channels
    BY <1>6, <1>11, <2>2
  <2>8. \A k \in 1..Len(ms) : /\ moduls'[ms[k].id] = ms[k].channels
                              /\ k < Len(ms) => Len(ms[k].channels) = ChannelCnt
    BY <2>2, <2>6, <2>7
  <2>9. Len(ms) <= ModulCnt /\ Len(row.moduls) = Len(ms) - 1 /\ Len(ms) > 0
    BY <2>1, <2>2, Numbers
  <2>10. \A k \in 1..Len(row.moduls) : row.moduls[k] = ms[k].id
    BY <2>1, <2>2
  <2>11. /\ ldc'[cur'].moduls = ms /\ devices'[ldc'[cur'].id] = row
         /\ Current' = ms[Len(ms)] /\ Current'.channels = <<>>
    BY <1>2, <1>6, <1>9, <1>12, <2>2 DEF ms, Current
  <2> HIDE DEF row
  <2>12. Saved(ldc[cur], devices[ldc[cur].id])'
    <3>1. /\ ~row.wkc /\ Len(row.moduls) = Len(ms) - 1 /\ Len(ms) <= ModulCnt /\ Len(ms) > 0
          /\ \A k \in 1..Len(row.moduls) : row.moduls[k] = ms[k].id
      BY <2>1, <2>9, <2>10
    <3>2. \A k \in 1..Len(ms) :
            /\ ms[k].id \in DOMAIN moduls'
            /\ \A l \in 1..Len(ms) : ms[l].id = ms[k].id => l = k
            /\ moduls'[ms[k].id] = ms[k].channels
            /\ k < Len(ms) => Len(ms[k].channels) = ChannelCnt
      BY <2>4, <2>5, <2>8
    <3>3. QED
      BY <1>2, <2>11, <3>1, <3>2 DEF Saved
  <2>13. QED
    BY <1>2, <2>12 DEF Progress
<1>15. ~torn' => Tables'
  <2> SUFFICES ASSUME ~torn PROVE Tables'
    BY <1>2
  <2>1. ModulRows /\ ChannelRows /\ Complete /\ Stored
    BY DEF IInv, Tables
  <2>2. \A j \in DOMAIN devices : \A k \in 1..Len(devices[j].moduls) :
          devices[j].moduls[k] \in DOMAIN moduls
    BY <1>3, RowsApart
  <2>3. Current'.id = i
    BY <1>2, <1>6, <1>9, <1>12 DEF Current
  <2>4. ModulRows'
    BY <1>2, <1>4, <1>11, <2>1, <2>2, <2>3 DEF ModulRows
  <2>5. ChannelRows'
    BY <1>2, <1>11, <2>1 DEF ChannelRows
  <2>6. Complete'
    BY <1>2, <1>11, <2>1, <2>2 DEF Complete
  <2>7. Stored'
    BY <1>2, <1>3, <1>11, <1>12, RowsApart DEF Stored
  <2>8. QED
    BY <2>4, <2>5, <2>6, <2>7 DEF Tables
<1>16. QED
  BY <1>12, <1>13, <1>14, <1>15 DEF IInv

\* The modul is listed by one device.
LEMMA LinkModulKeeps ==
  ASSUME IInv, LinkModul
  PROVE  IInv'
<1> DEFINE id == ldc[cur].id
           row == devices[id]
           new == [row EXCEPT !.moduls = Append(row.moduls, Current.id)]
           ms == ldc[cur].moduls
<1>1. /\ pc = "linkmodul" /\ pc' = "channel"
      /\ devices' = [devices EXCEPT ![id] = new]
      /\ UNCHANGED <<moduls, channels, ldc, routes, cur, done, chans, torn, nreboot>>
  BY DEF LinkModul, deletion
<1>2. pc \in Saving \ {"insert"} /\ pc' \in Saving \ {"insert"}
  BY <1>1 DEF Saving
<1>3. /\ cur \in 1..Len(ldc) /\ ldc[cur] \in Ldevice
      /\ Saved(ldc[cur], row) /\ id \in DOMAIN devices /\ row.adr = ldc[cur].adr
  BY <1>2, WhileSaving
<1>4. ms \in Seq(Lmodul) /\ Len(ms) \in Nat /\ \A k \in 1..Len(ms) : ms[k] \in Lmodul
  BY <1>3, DeviceFields
<1>5. /\ row \in Row /\ row.moduls \in Seq(ModId) /\ Len(row.moduls) \in Nat
      /\ row.adr \in Adr /\ row.wkc \in BOOLEAN
  BY <1>3, Typed, RowFields DEF IInv
<1>6. /\ ~row.wkc /\ Len(row.moduls) = Len(ms) - 1 /\ Len(ms) > 0 /\ Len(ms) <= ModulCnt
      /\ \A k \in 1..Len(row.moduls) : row.moduls[k] = ms[k].id
      /\ Current.channels = <<>>
  BY <1>1, <1>3 DEF Saved
<1>7. \A k \in 1..Len(ms) :
        /\ ms[k].id \in DOMAIN moduls
        /\ \A l \in 1..Len(ms) : ms[l].id = ms[k].id => l = k
        /\ moduls[ms[k].id] = ms[k].channels
        /\ k < Len(ms) => Len(ms[k].channels) = ChannelCnt
  BY <1>1, <1>3 DEF Saved
<1>8. Current = ms[Len(ms)] /\ Current.id \in ModId
  BY <1>4, <1>6, ModulFields DEF Current
<1>9. /\ Append(row.moduls, Current.id) \in Seq(ModId)
      /\ Len(Append(row.moduls, Current.id)) = Len(ms)
      /\ \A k \in 1..Len(row.moduls) : Append(row.moduls, Current.id)[k] = row.moduls[k]
      /\ Append(row.moduls, Current.id)[Len(ms)] = Current.id
  <2>1. Len(row.moduls) + 1 = Len(ms)
    BY <1>4, <1>6
  <2>2. QED
    BY <1>5, <1>8, <2>1, AppendEffect
<1>10. new \in Row /\ new.adr = row.adr /\ ~new.wkc /\ new.moduls = Append(row.moduls, Current.id)
  <2>1. Append(row.moduls, Current.id) \in Moduls
    BY <1>6, <1>9 DEF Moduls
  <2>2. QED
    BY <1>5, <1>6, <2>1 DEF Row
<1>11. /\ DOMAIN devices' = DOMAIN devices /\ devices'[id] = new
       /\ \A i \in DOMAIN devices : i # id => devices'[i] = devices[i]
  BY <1>1, <1>3
<1> HIDE DEF new
<1>12. TypeOK'
  <2>1. DOMAIN devices' \subseteq DevId /\ \A i \in DOMAIN devices' : devices'[i] \in Row
    BY <1>10, <1>11 DEF IInv, TypeOK
  <2>2. QED
    BY <1>1, <1>2, <2>1 DEF IInv, TypeOK
<1>13. Memory'
  <2>1. /\ cur' \in 1..Len(ldc') /\ pc' # "down" /\ pc' # "insert"
    BY <1>1, <1>3
  <2>2. \A n \in 1..Len(ldc') :
          /\ ldc'[n].id # 0
          /\ ldc'[n].id \in DOMAIN devices'
          /\ devices'[ldc'[n].id].adr = ldc'[n].adr
    BY <1>1, <1>2, <1>10, WhileSaving
  <2>3. \A n \in 1..Len(ldc') : n # cur' =>
          Len(ldc'[n].moduls) = ModulCnt /\ devices'[ldc'[n].id].wkc
    BY <1>1, <1>2, WhileSaving
  <2>4. \A n, m \in 1..Len(ldc') : ldc'[m].id = ldc'[n].id => m = n
    BY <1>1, <1>2, WhileSaving
  <2>5. QED
    BY <1>2, <2>1, <2>2, <2>3, <2>4 DEF Memory
<1>14. Accepted'
  BY <1>10, <1>11 DEF IInv, Accepted
<1>15. Once'
  BY <1>1 DEF IInv, Once
<1>16. Progress'
  <2>1. /\ Len(new.moduls) = Len(ms) /\ ~new.wkc
        /\ \A k \in 1..Len(new.moduls) : new.moduls[k] = ms[k].id
    <3>1. /\ Len(new.moduls) = Len(ms)
          /\ \A k \in 1..Len(new.moduls) : k \in 1..Len(row.moduls) \/ k = Len(ms)
      <4> HIDE DEF row, ms
      <4>1. Len(new.moduls) = Len(ms)
        BY <1>9, <1>10
      <4>2. \A k \in 1..Len(ms) : k \in 1..(Len(ms) - 1) \/ k = Len(ms)
        OBVIOUS
      <4>3. QED
        BY <1>6, <4>1
    <3>2. \A k \in 1..Len(row.moduls) : new.moduls[k] = ms[k].id
      BY <1>6, <1>10
    <3>3. new.moduls[Len(ms)] = ms[Len(ms)].id
      BY <1>8, <1>9, <1>10
    <3>4. QED
      BY <1>10, <3>1, <3>2, <3>3
  <2>2. /\ ldc'[cur'].moduls = ms /\ devices'[ldc'[cur'].id] = new
        /\ Current' = Current /\ Len(Current.channels) = 0 /\ 0 < ChannelCnt
    BY <1>1, <1>6, <1>11, Numbers DEF Current
  <2>3. Saved(ldc[cur], devices[ldc[cur].id])'
    BY <1>1, <1>6, <1>7, <2>1, <2>2 DEF Saved
  <2>4. QED
    BY <1>1, <2>3 DEF Progress
<1>17. ~torn' => Tables'
  <2> SUFFICES ASSUME ~torn PROVE Tables'
    BY <1>1
  <2>1. ModulRows /\ ChannelRows /\ Complete /\ Stored
    BY DEF IInv, Tables
  <2>2. /\ \A i \in DOMAIN devices : \A k \in 1..Len(devices[i].moduls) :
             devices[i].moduls[k] \in DOMAIN moduls /\ devices[i].moduls[k] # Current.id
        /\ Current.id \in DOMAIN moduls
    <3>1. \A i \in DOMAIN devices : \A k \in 1..Len(devices[i].moduls) :
            devices[i].moduls[k] \in DOMAIN moduls
      BY <1>2, RowsApart
    <3>2. \A i \in DOMAIN devices : \A k \in 1..Len(devices[i].moduls) :
            devices[i].moduls[k] # Current.id
      BY <1>1, <2>1 DEF ModulRows
    <3>3. Len(ms) \in 1..Len(ms)
      <4> HIDE DEF ms
      <4>1. QED
        BY <1>4, <1>6
    <3>4. Current.id \in DOMAIN moduls
      BY <1>7, <1>8, <3>3
    <3>5. QED
      BY <3>1, <3>2, <3>4
  <2>3. \A k \in 1..Len(new.moduls) :
          \/ k \in 1..Len(row.moduls) /\ new.moduls[k] = row.moduls[k]
          \/ k = Len(ms) /\ new.moduls[k] = Current.id
    <3> HIDE DEF row, ms
    <3>1. \A k \in 1..Len(ms) : k \in 1..(Len(ms) - 1) \/ k = Len(ms)
      OBVIOUS
    <3>2. Len(new.moduls) = Len(ms)
      BY <1>9, <1>10
    <3>3. QED
      BY <1>10, <3>2
  <2>4. \A i \in DOMAIN devices : \A k \in 1..Len(devices'[i].moduls) :
          \/ k \in 1..Len(devices[i].moduls) /\ devices'[i].moduls[k] = devices[i].moduls[k]
          \/ i = id /\ k = Len(ms) /\ devices'[i].moduls[k] = Current.id
    BY <1>11, <2>3
  <2>5. \A i, j \in DOMAIN devices :
          \A k \in 1..Len(devices[i].moduls), l \in 1..Len(devices[j].moduls) :
            devices[i].moduls[k] = devices[j].moduls[l] => i = j /\ k = l
    BY <2>1 DEF ModulRows
  <2>6. ModulRows'
    <3>1. \A i, j \in DOMAIN devices' :
            \A k \in 1..Len(devices'[i].moduls), l \in 1..Len(devices'[j].moduls) :
              devices'[i].moduls[k] = devices'[j].moduls[l] => i = j /\ k = l
      BY <1>11, <2>2, <2>4, <2>5
    <3>2. \A i \in DOMAIN devices' : \A k \in 1..Len(devices'[i].moduls) :
            devices'[i].moduls[k] \in DOMAIN moduls'
      BY <1>1, <2>2, <2>4
    <3>3. QED
      BY <1>1, <3>1, <3>2 DEF ModulRows
  <2>7. ChannelRows'
    BY <1>1, <2>1 DEF ChannelRows
  <2>8. Complete'
    BY <1>1, <1>10, <2>1 DEF Complete
  <2>9. Stored'
    BY <1>1, <1>2, <2>1, WhileSaving DEF Stored
  <2>10. QED
    BY <2>6, <2>7, <2>8, <2>9 DEF Tables
<1>18. QED
  BY <1>12, <1>13, <1>14, <1>15, <1>16, <1>17 DEF IInv

\* When the description is written, all moduls and channels are listed.
LEMMA SaveWKCKeeps ==
  ASSUME IInv, SaveWKC
  PROVE  IInv'
<1> DEFINE id == ldc[cur].id
           row == devices[id]
           new == [row EXCEPT !.wkc = TRUE]
           ms == ldc[cur].moduls
<1>1. /\ pc = "wkc" /\ pc' = "scan"
      /\ devices' = [devices EXCEPT ![id] = new]
      /\ UNCHANGED <<moduls, channels, ldc, routes, cur, done, chans, torn, nreboot>>
  BY DEF SaveWKC, deletion
<1>2. pc \in Saving \ {"insert"}
  BY <1>1 DEF Saving
<1>3. /\ cur \in 1..Len(ldc) /\ ldc[cur] \in Ldevice
      /\ Saved(ldc[cur], row) /\ id \in DOMAIN devices /\ row.adr = ldc[cur].adr
  BY <1>2, WhileSaving
<1>4. row \in Row
  BY <1>3, Typed DEF IInv
<1>5. /\ Len(ms) = ModulCnt /\ Len(row.moduls) = ModulCnt
      /\ \A k \in 1..ModulCnt : row.moduls[k] = ms[k].id
      /\ \A k \in 1..ModulCnt : /\ ms[k].id \in DOMAIN moduls
                                /\ moduls[ms[k].id] = ms[k].channels
                                /\ Len(ms[k].channels) = ChannelCnt
  BY <1>1, <1>3 DEF Saved
<1>6. new \in Row /\ new.adr = row.adr /\ new.wkc /\ new.moduls = row.moduls
  BY <1>4 DEF Row
<1>7. /\ DOMAIN devices' = DOMAIN devices /\ devices'[id] = new
      /\ \A i \in DOMAIN devices : i # id => devices'[i] = devices[i]
      /\ \A i \in DOMAIN devices : devices'[i].moduls = devices[i].moduls
  BY <1>1, <1>3
<1> HIDE DEF new
<1>8. TypeOK'
  <2>1. DOMAIN devices' \subseteq DevId /\ \A i \in DOMAIN devices' : devices'[i] \in Row
    BY <1>6, <1>7 DEF IInv, TypeOK
  <2>2. QED
    BY <1>1, <2>1 DEF IInv, TypeOK
<1>9. Memory'
  <2>1. \A n \in 1..Len(ldc') :
          /\ ldc'[n].id # 0
          /\ ldc'[n].id \in DOMAIN devices'
          /\ devices'[ldc'[n].id].adr = ldc'[n].adr
    BY <1>1, <1>2, <1>6, WhileSaving
  <2>2. \A n \in 1..Len(ldc') : Len(ldc'[n].moduls) = ModulCnt /\ devices'[ldc'[n].id].wkc
    BY <1>1, <1>2, <1>5, <1>6, WhileSaving
  <2>3. \A n, m \in 1..Len(ldc') : ldc'[m].id = ldc'[n].id => m = n
    BY <1>1, <1>2, WhileSaving
  <2>4. QED
    BY <1>1, <2>1, <2>2, <2>3 DEF Memory, Saving, Deleting
<1>10. Accepted'
  BY <1>5, <1>7 DEF IInv, Accepted
<1>11. Once'
  BY <1>1 DEF IInv, Once
<1>12. Progress'
  BY <1>1 DEF Progress, Saving
<1>13. ~torn' => Tables'
  <2> SUFFICES ASSUME ~torn PROVE Tables'
    BY <1>1
  <2>1. ModulRows /\ ChannelRows /\ Complete /\ Stored
    BY DEF IInv, Tables
  <2>2. ModulRows'
    BY <1>1, <1>7, <2>1 DEF ModulRows, Deleting
  <2>3. ChannelRows'
    BY <1>1, <2>1 DEF ChannelRows
  <2>4. Complete'
    BY <1>1, <1>5, <1>7, <2>1 DEF Complete
  <2>5. Stored'
    BY <1>1, <1>2, <1>5, <1>7, <2>1 DEF Stored
  <2>6. QED
    BY <2>2, <2>3, <2>4, <2>5 DEF Tables
<1>14. QED
  BY <1>8, <1>9, <1>10, <1>11, <1>12, <1>13 DEF IInv

\* The new channel is in the table and listed by no modul.
LEMMA SaveChannelKeeps ==
  ASSUME IInv, SaveChannel
  PROVE  IInv'
<1> DEFINE ms == ldc[cur].moduls
           last == Len(ldc[cur].moduls)
<1>1. PICK i \in ChanId :
        /\ NewId(channels, i)
        /\ channels' = channels \union {i}
        /\ ldc' = [ldc EXCEPT ![cur].moduls[Len(ldc[cur].moduls)].channels = Append(@, i)]
  BY DEF SaveChannel
<1> DEFINE old == ms[last].channels
           mod == [ms[last] EXCEPT !.channels = Append(old, i)]
           d == [ldc[cur] EXCEPT !.moduls = [ms EXCEPT ![last] = mod]]
<1>2. /\ pc = "channel" /\ pc' = "linkchannel"
      /\ UNCHANGED <<devices, moduls, routes, cur, done, chans, torn, nreboot>>
  BY DEF SaveChannel, deletion
<1>3. pc \in Saving \ {"insert"} /\ pc' \in Saving \ {"insert"}
  BY <1>2 DEF Saving
<1>4. /\ cur \in 1..Len(ldc) /\ ldc[cur] \in Ldevice
      /\ Saved(ldc[cur], devices[ldc[cur].id]) /\ ldc[cur].id \in DOMAIN devices
  BY <1>3, WhileSaving
<1>5. ms \in Seq(Lmodul) /\ last \in Nat /\ \A k \in 1..last : ms[k] \in Lmodul
  BY <1>4, DeviceFields
<1>6. last > 0 /\ Len(old) < ChannelCnt
  BY <1>2, <1>4 DEF Saved, Current
<1>7. last \in 1..last /\ ms[last] \in Lmodul
  BY <1>5, <1>6
<1>8. ms[last].id \in ModId /\ old \in Seq(ChanId) /\ Len(old) \in Nat
  BY <1>7, ModulFields, ListFields
<1>9. /\ Append(old, i) \in Seq(ChanId) /\ Len(Append(old, i)) = Len(old) + 1
      /\ Append(old, i)[Len(old) + 1] = i
  <2> HIDE DEF old
  <2>1. QED
    BY <1>8
<1>10. mod \in Lmodul /\ mod.id = ms[last].id /\ mod.channels = Append(old, i)
  <2>1. Append(old, i) \in Channels
    BY <1>6, <1>9, Numbers DEF Channels
  <2>2. QED
    BY <1>7, <2>1 DEF Lmodul
<1> HIDE DEF mod
<1>11. /\ [ms EXCEPT ![last] = mod] \in Seq(Lmodul) /\ Len([ms EXCEPT ![last] = mod]) = last
       /\ [ms EXCEPT ![last] = mod][last] = mod
       /\ \A k \in 1..last : k # last => [ms EXCEPT ![last] = mod][k] = ms[k]
  BY <1>5, <1>7, <1>10
<1>12. /\ d \in Ldevice /\ d.id = ldc[cur].id /\ d.adr = ldc[cur].adr
       /\ d.moduls = [ms EXCEPT ![last] = mod]
  BY <1>4, <1>11 DEF Ldevice
<1>13. ldc' = [ldc EXCEPT ![cur] = d]
  BY <1>1 DEF mod
<1> HIDE DEF d
<1>14. /\ ldc' \in Seq(Ldevice) /\ Len(ldc') = Len(ldc) /\ ldc'[cur] = d
       /\ \A n \in 1..Len(ldc) : n # cur => ldc'[n] = ldc[n]
       /\ Memory' /\ Accepted' /\ Once'
  BY <1>2, <1>3, <1>12, <1>13, ModulsChange
<1>15. TypeOK'
  BY <1>1, <1>2, <1>3, <1>14 DEF IInv, TypeOK
<1>16. /\ ldc'[cur'].moduls = d.moduls /\ Len(d.moduls) = last
       /\ d.moduls[last] = mod /\ Current' = mod
       /\ \A k \in 1..last : k # last => d.moduls[k] = ms[k]
       /\ \A k \in 1..last : d.moduls[k].id = ms[k].id
  BY <1>2, <1>10, <1>11, <1>12, <1>14 DEF Current
<1>17. Progress'
  <2> DEFINE row == devices[ldc[cur].id]
  <2>1. /\ ~row.wkc /\ Len(row.moduls) = last /\ last <= ModulCnt
        /\ \A k \in 1..Len(row.moduls) : row.moduls[k] = ms[k].id
        /\ \A k \in 1..last :
             /\ ms[k].id \in DOMAIN moduls
             /\ \A l \in 1..last : ms[l].id = ms[k].id => l = k
             /\ moduls[ms[k].id] = ms[k].channels
             /\ k < last => Len(ms[k].channels) = ChannelCnt
    BY <1>2, <1>4 DEF Saved
  <2>2. devices'[ldc'[cur'].id] = row
    BY <1>2, <1>12, <1>14
  <2>3. /\ Len(mod.channels) > 0 /\ mod.channels[Len(mod.channels)] = i
        /\ Append(moduls[mod.id], mod.channels[Len(mod.channels)]) = mod.channels
    <3>1. moduls[mod.id] = old
      BY <1>7, <1>10, <2>1
    <3>2. /\ Len(mod.channels) = Len(old) + 1 /\ mod.channels[Len(old) + 1] = i
          /\ mod.channels = Append(old, i)
      BY <1>9, <1>10
    <3> HIDE DEF old
    <3>3. Len(mod.channels) > 0 /\ mod.channels[Len(mod.channels)] = i
      BY <3>2
    <3>4. QED
      BY <3>1, <3>2
  <2> HIDE DEF row
  <2>4. \A k \in 1..last :
          /\ d.moduls[k].id \in DOMAIN moduls
          /\ \A l \in 1..last : d.moduls[l].id = d.moduls[k].id => l = k
          /\ k < last => moduls[d.moduls[k].id] = d.moduls[k].channels
          /\ k < last => Len(d.moduls[k].channels) = ChannelCnt
    BY <1>16, <2>1
  <2>5. \A k \in 1..Len(row.moduls) : row.moduls[k] = d.moduls[k].id
    BY <1>16, <2>1
  <2>6. Saved(ldc[cur], devices[ldc[cur].id])'
    BY <1>2, <1>6, <1>16, <2>1, <2>2, <2>3, <2>5 DEF Saved
  <2>7. QED
    BY <1>2, <2>6 DEF Progress
<1>18. ~torn' => Tables'
  <2> SUFFICES ASSUME ~torn PROVE Tables'
    BY <1>2
  <2>1. ModulRows /\ ChannelRows /\ Complete /\ Stored
    BY DEF IInv, Tables
  <2>2. i \notin channels
    BY <1>1, NewNumber DEF ChanId
  <2>3. ModulRows'
    BY <1>2, <2>1 DEF ModulRows, Deleting
  <2>4. ChannelRows'
    <3>1. \A m \in DOMAIN moduls : \A k \in 1..Len(moduls[m]) : moduls[m][k] \in channels
      BY <1>2, <2>1 DEF ChannelRows
    <3>2. Current'.channels[Len(Current'.channels)] = i
      BY <1>9, <1>10, <1>16
    <3>3. \A m \in DOMAIN moduls : \A k \in 1..Len(moduls[m]) :
            moduls[m][k] \in channels' /\ moduls[m][k] # i
      BY <1>1, <2>2, <3>1
    <3>4. QED
      BY <1>1, <1>2, <2>1, <3>2, <3>3 DEF ChannelRows
  <2>5. Complete'
    BY <1>2, <2>1 DEF Complete
  <2>6. Stored'
    BY <1>2, <1>3, <1>14, RowsApart DEF Stored
  <2>7. QED
    BY <2>3, <2>4, <2>5, <2>6 DEF Tables
<1>19. QED
  BY <1>14, <1>15, <1>17, <1>18 DEF IInv

\* The channel is listed by one modul.
LEMMA LinkChannelKeeps ==
  ASSUME IInv, LinkChannel
  PROVE  IInv'
<1> DEFINE ms == ldc[cur].moduls
           last == Len(ldc[cur].moduls)
           mod == ms[last]
           row == devices[ldc[cur].id]
<1>1. /\ pc = "linkchannel"
      /\ moduls' = [moduls EXCEPT ![mod.id] = Append(@, mod.channels[Len(mod.channels)])]
      /\ pc' = (IF Len(mod.channels) < ChannelCnt THEN "channel"
                ELSE IF last < ModulCnt THEN "modul" ELSE "wkc")
      /\ UNCHANGED <<devices, channels, ldc, routes, cur, done, chans, torn, nreboot>>
  BY DEF LinkChannel, deletion, Current
<1>2. pc \in Saving \ {"insert"} /\ pc' \in {"channel", "modul", "wkc"}
  BY <1>1 DEF Saving
<1>3. /\ cur \in 1..Len(ldc) /\ ldc[cur] \in Ldevice
      /\ Saved(ldc[cur], row) /\ ldc[cur].id \in DOMAIN devices
  BY <1>2, WhileSaving
<1>4. ms \in Seq(Lmodul) /\ last \in Nat /\ \A k \in 1..last : ms[k] \in Lmodul
  BY <1>3, DeviceFields
<1>5. /\ ~row.wkc /\ Len(row.moduls) = last /\ last <= ModulCnt /\ last > 0
      /\ \A k \in 1..last : row.moduls[k] = ms[k].id
      /\ \A k \in 1..last :
           /\ ms[k].id \in DOMAIN moduls
           /\ \A l \in 1..last : ms[l].id = ms[k].id => l = k
           /\ k < last => moduls[ms[k].id] = ms[k].channels
           /\ k < last => Len(ms[k].channels) = ChannelCnt
      /\ Len(mod.channels) > 0
      /\ Append(moduls[mod.id], mod.channels[Len(mod.channels)]) = mod.channels
  BY <1>1, <1>3 DEF Saved, Current
<1>6. last \in 1..last /\ mod \in Lmodul /\ mod.id \in DOMAIN moduls
  <2>1. last \in 1..last
    <3>1. last \in Nat /\ last > 0
      BY <1>4, <1>5
    <3> HIDE DEF last
    <3>2. QED
      BY <3>1
  <2>2. QED
    BY <1>4, <1>5, <2>1
<1>7. mod.channels \in Channels /\ mod.channels \in Seq(ChanId)
      /\ Len(mod.channels) \in Nat /\ Len(mod.channels) <= ChannelCnt
  BY <1>6, ModulFields, ListFields
<1>8. /\ DOMAIN moduls' = DOMAIN moduls /\ moduls'[mod.id] = mod.channels
      /\ \A m \in DOMAIN moduls : m # mod.id => moduls'[m] = moduls[m]
  BY <1>1, <1>5, <1>6
<1>9. TypeOK'
  <2>1. \A m \in DOMAIN moduls' : moduls'[m] \in Channels
    BY <1>7, <1>8 DEF IInv, TypeOK
  <2>2. QED
    BY <1>1, <2>1 DEF IInv, TypeOK, Saving
<1>10. Memory' /\ Accepted' /\ Once'
  <2>1. Memory
    BY DEF IInv
  <2>2. pc' \in Saving /\ pc' # "insert" /\ pc' # "down"
    BY <1>2 DEF Saving
  <2>3. Memory'
    BY <1>1, <1>2, <2>1, <2>2 DEF Memory
  <2>4. Accepted' /\ Once'
    BY <1>1 DEF IInv, Accepted, Once
  <2>5. QED
    BY <2>3, <2>4
<1>11. Progress'
  <2>1. /\ ldc'[cur'].moduls = ms /\ devices'[ldc'[cur'].id] = row /\ Current' = mod
    BY <1>1 DEF Current
  <2>2. \A k \in 1..last :
          /\ moduls'[ms[k].id] = ms[k].channels
          /\ k < last => Len(ms[k].channels) = ChannelCnt
    <3> HIDE DEF ms, last
    <3>1. \A k \in 1..last : k # last => ms[k].id # mod.id
      BY <1>5
    <3>2. \A k \in 1..last : k = last \/ k < last
      BY <1>4
    <3>3. ASSUME NEW k \in 1..last, k < last
          PROVE  moduls'[ms[k].id] = ms[k].channels /\ Len(ms[k].channels) = ChannelCnt
      <4>1. k # last
        BY <3>3
      <4>2. ms[k].id \in DOMAIN moduls /\ ms[k].id # mod.id
        BY <1>5, <4>1
      <4>3. QED
        BY <1>5, <1>8, <4>2
    <3>4. ASSUME NEW k \in 1..last, k = last PROVE moduls'[ms[k].id] = ms[k].channels
      BY <1>8, <3>4
    <3>5. QED
      BY <3>2, <3>3, <3>4
  <2>3. /\ pc' # "channel" => Len(mod.channels) = ChannelCnt
        /\ pc' = "channel" => Len(mod.channels) < ChannelCnt
        /\ pc' = "modul" => last < ModulCnt
        /\ pc' = "wkc" => last = ModulCnt
    <3> HIDE DEF ms, last, mod
    <3>1. \/ Len(mod.channels) < ChannelCnt /\ pc' = "channel"
          \/ ~(Len(mod.channels) < ChannelCnt) /\ last < ModulCnt /\ pc' = "modul"
          \/ ~(Len(mod.channels) < ChannelCnt) /\ ~(last < ModulCnt) /\ pc' = "wkc"
      BY <1>1
    <3>2. /\ ~(Len(mod.channels) < ChannelCnt) => Len(mod.channels) = ChannelCnt
          /\ ~(last < ModulCnt) => last = ModulCnt
      BY <1>5, <1>7, Numbers
    <3>3. QED
      BY <3>1, <3>2
  <2>4. \A k \in 1..last : pc' \in {"modul", "wkc"} \/ k < last => Len(ms[k].channels) = ChannelCnt
    BY <2>2, <2>3
  <2> DEFINE d == ldc'[cur']
  <2>5. d.moduls = ms /\ Len(d.moduls) = last
    BY <2>1
  <2> HIDE DEF row, ms, last, mod, d
  <2>6. \A k \in 1..last : /\ ms[k].id \in DOMAIN moduls'
                           /\ \A l \in 1..last : ms[l].id = ms[k].id => l = k
    BY <1>5, <1>8
  <2>7. /\ ~row.wkc /\ Len(row.moduls) = last /\ last <= ModulCnt /\ last > 0
        /\ \A k \in 1..Len(row.moduls) : row.moduls[k] = ms[k].id
    BY <1>5
  <2>8. pc' # "linkmodul" /\ pc' # "linkchannel"
    BY <1>2
  <2>9. Saved(ldc[cur], devices[ldc[cur].id])'
    BY <2>1, <2>2, <2>3, <2>4, <2>5, <2>6, <2>7, <2>8 DEF Saved
  <2>10. QED
    BY <1>2, <2>9 DEF Progress
<1>12. ~torn' => Tables'
  <2> SUFFICES ASSUME ~torn PROVE Tables'
    BY <1>1
  <2>1. ModulRows /\ ChannelRows /\ Complete /\ Stored
    BY DEF IInv, Tables
  <2>2. ModulRows'
    <3>1. /\ pc \notin Deleting /\ pc' # "linkmodul" /\ devices' = devices
          /\ DOMAIN moduls' = DOMAIN moduls
      BY <1>1 DEF Deleting
    <3> HIDE DEF ms, last, mod, row
    <3>2. QED
      BY <2>1, <3>1 DEF ModulRows
  <2>3. ChannelRows'
    <3> DEFINE c == mod.channels[Len(mod.channels)]
    <3>1. /\ \A i, j \in DOMAIN moduls : \A k \in 1..Len(moduls[i]), l \in 1..Len(moduls[j]) :
               moduls[i][k] = moduls[j][l] => i = j /\ k = l
          /\ \A i \in DOMAIN moduls : \A k \in 1..Len(moduls[i]) :
               moduls[i][k] \in channels /\ moduls[i][k] # c
          /\ c \in channels
      BY <1>1, <2>1 DEF ChannelRows, Current
    <3>2. moduls[mod.id] \in Seq(ChanId)
      BY <1>6, Typed, ListFields DEF IInv
    <3>3. c \in ChanId
      <4>1. Len(mod.channels) > 0
        BY <1>5
      <4> HIDE DEF mod
      <4>2. QED
        BY <1>7, <4>1
    <3>4. /\ Len(mod.channels) = Len(moduls[mod.id]) + 1 /\ Len(moduls[mod.id]) \in Nat
          /\ \A k \in 1..Len(moduls[mod.id]) : mod.channels[k] = moduls[mod.id][k]
      <4> HIDE DEF c, mod
      <4>1. Append(moduls[mod.id], c) = mod.channels
        BY <1>5 DEF c
      <4>2. QED
        BY <4>1
    <3>5. \A i \in DOMAIN moduls : \A k \in 1..Len(moduls'[i]) :
            \/ k \in 1..Len(moduls[i]) /\ moduls'[i][k] = moduls[i][k]
            \/ i = mod.id /\ k = Len(mod.channels) /\ moduls'[i][k] = c
      <4> HIDE DEF mod
      <4>1. \A k \in 1..Len(mod.channels) :
              \/ k \in 1..Len(moduls[mod.id]) /\ mod.channels[k] = moduls[mod.id][k]
              \/ k = Len(mod.channels) /\ mod.channels[k] = c
        BY <3>4 DEF c
      <4>2. QED
        BY <1>8, <4>1
    <3> HIDE DEF c
    <3>6. \A i, j \in DOMAIN moduls' : \A k \in 1..Len(moduls'[i]), l \in 1..Len(moduls'[j]) :
            moduls'[i][k] = moduls'[j][l] => i = j /\ k = l
      BY <1>8, <3>1, <3>5
    <3>7. \A i \in DOMAIN moduls' : \A k \in 1..Len(moduls'[i]) : moduls'[i][k] \in channels
      BY <1>8, <3>1, <3>5
    <3>8. QED
      BY <1>1, <3>6, <3>7 DEF ChannelRows
  <2>4. Complete'
    <3>1. ASSUME NEW i \in DOMAIN devices, devices[i].wkc, NEW k \in 1..Len(devices[i].moduls)
          PROVE  devices[i].moduls[k] \in DOMAIN moduls /\ devices[i].moduls[k] # mod.id
      BY <1>2, <1>6, <3>1, RowsApart
    <3> HIDE DEF mod
    <3>2. QED
      BY <1>1, <2>1, <3>1 DEF Complete
  <2>5. Stored'
    <3>1. ASSUME NEW n \in 1..Len(ldc), n # cur, NEW k \in 1..ModulCnt
          PROVE  /\ ldc[n].moduls[k].id = devices[ldc[n].id].moduls[k]
                 /\ ldc[n].moduls[k].id \in DOMAIN moduls /\ ldc[n].moduls[k].id # mod.id
                 /\ moduls[ldc[n].moduls[k].id] = ldc[n].moduls[k].channels
      <4>1. /\ ldc[n].moduls[k].id = devices[ldc[n].id].moduls[k]
            /\ ldc[n].moduls[k].id \in DOMAIN moduls
            /\ moduls[ldc[n].moduls[k].id] = ldc[n].moduls[k].channels
        BY <1>2, <3>1, RowsApart
      <4>2. \A l \in 1..Len(ldc[cur].moduls) : ldc[n].moduls[k].id # ldc[cur].moduls[l].id
        BY <1>2, <3>1, RowsApart
      <4>3. ldc[n].moduls[k].id # mod.id
        BY <1>6, <4>2
      <4>4. QED
        BY <4>1, <4>3
    <3>2. pc' \in Saving
      BY <1>2 DEF Saving
    <3> HIDE DEF mod
    <3>3. QED
      BY <1>1, <3>1, <3>2 DEF Stored
  <2>6. QED
    BY <2>2, <2>3, <2>4, <2>5 DEF Tables
<1>13. QED
  BY <1>9, <1>10, <1>11, <1>12 DEF IInv

-----------------------------------------------------------------------------
(* Deletion *)

\* Outside a registration every device in memory has a complete row of its own.
LEMMA AllSaved ==
  ASSUME IInv, pc \notin Saving
  PROVE  \A n \in 1..Len(ldc) :
           /\ ldc[n].id # 0 /\ ldc[n].id \in DOMAIN devices
           /\ devices[ldc[n].id].adr = ldc[n].adr
           /\ Len(ldc[n].moduls) = ModulCnt /\ devices[ldc[n].id].wkc
           /\ Len(devices[ldc[n].id].moduls) = ModulCnt
           /\ \A m \in 1..Len(ldc) : ldc[m].id = ldc[n].id => m = n
<1>1. Memory /\ Accepted /\ pc # "insert"
  BY DEF IInv, Saving
<1>2. \A n \in 1..Len(ldc) :
        /\ ldc[n].id # 0 /\ ldc[n].id \in DOMAIN devices
        /\ devices[ldc[n].id].adr = ldc[n].adr
        /\ Len(ldc[n].moduls) = ModulCnt /\ devices[ldc[n].id].wkc
        /\ \A m \in 1..Len(ldc) : ldc[m].id = ldc[n].id => m = n
  BY <1>1 DEF Memory
<1>3. \A n \in 1..Len(ldc) : Len(devices[ldc[n].id].moduls) = ModulCnt
  BY <1>1, <1>2 DEF Accepted
<1>4. QED
  BY <1>2, <1>3

\* The modul that is being deleted is listed and in its table; no other listed modul
\* has its number.
LEMMA NextModul ==
  ASSUME IInv, pc = "delmodul"
  PROVE  /\ cur \in 1..Len(ldc) /\ ldc[cur].id \in DOMAIN devices
         /\ done \in 0..(ModulCnt - 1) /\ done + 1 \in 1..ModulCnt
         /\ ldc[cur].moduls[done + 1] \in Lmodul
         /\ Len(ldc[cur].moduls) = ModulCnt
         /\ chans <= Len(ldc[cur].moduls[done + 1].channels)
         /\ ~torn =>
              /\ ldc[cur].moduls[done + 1].id \in DOMAIN moduls
              /\ ldc[cur].moduls[done + 1].id = devices[ldc[cur].id].moduls[done + 1]
              /\ moduls[ldc[cur].moduls[done + 1].id] = ldc[cur].moduls[done + 1].channels
              /\ \A i \in DOMAIN devices : \A k \in 1..Len(devices[i].moduls) :
                   devices[i].moduls[k] = ldc[cur].moduls[done + 1].id =>
                     i = ldc[cur].id /\ k = done + 1
<1>1. pc \notin Saving /\ pc \in Deleting
  BY DEF Saving, Deleting
<1>2. cur \in 1..Len(ldc)
  BY <1>1 DEF IInv, Memory
<1>3. /\ ldc[cur].id \in DOMAIN devices /\ Len(ldc[cur].moduls) = ModulCnt
      /\ Len(devices[ldc[cur].id].moduls) = ModulCnt
  BY <1>1, <1>2, AllSaved
<1>4. done \in 0..(ModulCnt - 1) /\ done + 1 \in 1..ModulCnt /\ ~(done + 1 <= done)
  <2>1. done \in 0..ModulCnt /\ done < ModulCnt
    BY DEF IInv, TypeOK, Progress
  <2>2. QED
    BY <2>1, Numbers
<1>5. ldc[cur].moduls[done + 1] \in Lmodul
  <2>1. ldc[cur] \in Ldevice
    BY <1>2, Typed DEF IInv
  <2>2. QED
    BY <1>3, <1>4, <2>1, DeviceFields
<1>6. chans <= Len(ldc[cur].moduls[done + 1].channels)
  BY DEF IInv, Progress
<1>7. ASSUME ~torn
      PROVE  /\ ldc[cur].moduls[done + 1].id \in DOMAIN moduls
             /\ ldc[cur].moduls[done + 1].id = devices[ldc[cur].id].moduls[done + 1]
             /\ moduls[ldc[cur].moduls[done + 1].id] = ldc[cur].moduls[done + 1].channels
             /\ \A i \in DOMAIN devices : \A k \in 1..Len(devices[i].moduls) :
                  devices[i].moduls[k] = ldc[cur].moduls[done + 1].id =>
                    i = ldc[cur].id /\ k = done + 1
  <2>1. ModulRows /\ Stored
    BY <1>7 DEF IInv, Tables
  <2>2. /\ ldc[cur].moduls[done + 1].id = devices[ldc[cur].id].moduls[done + 1]
        /\ moduls[ldc[cur].moduls[done + 1].id] = ldc[cur].moduls[done + 1].channels
    BY <1>1, <1>2, <1>4, <2>1 DEF Stored
  <2>3. devices[ldc[cur].id].moduls[done + 1] \in DOMAIN moduls
    BY <1>3, <1>4, <2>1 DEF ModulRows
  <2>4. \A i \in DOMAIN devices : \A k \in 1..Len(devices[i].moduls) :
          devices[i].moduls[k] = devices[ldc[cur].id].moduls[done + 1] =>
            i = ldc[cur].id /\ k = done + 1
    BY <1>3, <1>4, <2>1 DEF ModulRows
  <2>5. QED
    BY <2>2, <2>3, <2>4
<1>8. QED
  BY <1>2, <1>3, <1>4, <1>5, <1>6, <1>7

\* A channel that goes is listed by the modul being deleted only.
LEMMA DeleteChannelKeeps ==
  ASSUME IInv, DeleteChannel
  PROVE  IInv'
<1> DEFINE mod == ldc[cur].moduls[done + 1]
<1>1. /\ pc = "delmodul" /\ pc' = "delmodul" /\ chans < Len(mod.channels)
      /\ channels' = channels \ {mod.channels[chans + 1]} /\ chans' = chans + 1
      /\ UNCHANGED <<devices, moduls, ldc, routes, cur, done, torn, nreboot>>
  BY DEF DeleteChannel
<1>2. mod \in Lmodul
  BY <1>1, NextModul
<1>3. chans \in Nat /\ Len(mod.channels) \in Nat /\ Len(mod.channels) <= ChannelCnt
  BY <1>2, ModulFields, ListFields DEF IInv, TypeOK
<1> HIDE DEF mod
<1>4. chans' \in 0..ChannelCnt /\ chans' <= Len(mod.channels) /\ chans + 1 \in 1..Len(mod.channels)
  BY <1>1, <1>3, Numbers
<1>5. TypeOK'
  <2>1. channels' \subseteq ChanId
    BY <1>1 DEF IInv, TypeOK
  <2>2. QED
    BY <1>1, <1>4 DEF IInv, TypeOK
<1>6. Memory' /\ Accepted' /\ Once'
  BY <1>1 DEF IInv, Memory, Accepted, Once
<1>7. Progress'
  <2>1. mod' = mod
    BY <1>1 DEF mod
  <2>2. QED
    BY <1>1, <1>4 DEF IInv, Progress, Saving, mod
<1>8. ~torn' => Tables'
  <2> SUFFICES ASSUME ~torn PROVE Tables'
    BY <1>1
  <2>1. ModulRows /\ ChannelRows /\ Complete /\ Stored
    BY DEF IInv, Tables
  <2>2. ModulRows' /\ Complete' /\ Stored'
    BY <1>1, <2>1 DEF ModulRows, Complete, Stored
  <2>3. ChannelRows'
    <3>1. /\ \A i, j \in DOMAIN moduls : \A k \in 1..Len(moduls[i]), l \in 1..Len(moduls[j]) :
               moduls[i][k] = moduls[j][l] => i = j /\ k = l
          /\ \A i \in DOMAIN moduls : \A k \in 1..Len(moduls[i]) :
               moduls[i][k] \in channels \/ (i = mod.id /\ k <= chans)
      BY <2>1 DEF ChannelRows, mod
    <3>2. mod.id \in DOMAIN moduls /\ moduls[mod.id] = mod.channels
      BY <1>1, NextModul DEF mod
    <3>3. ASSUME NEW i \in DOMAIN moduls, NEW k \in 1..Len(moduls[i])
          PROVE  moduls[i][k] \in channels' \/ (i = mod.id /\ k <= chans + 1)
      <4>1. CASE moduls[i][k] = mod.channels[chans + 1]
        <5>1. i = mod.id /\ k = chans + 1
          BY <1>4, <3>1, <3>2, <4>1
        <5>2. QED
          BY <5>1
      <4>2. CASE moduls[i][k] # mod.channels[chans + 1] /\ moduls[i][k] \in channels
        BY <1>1, <4>2
      <4>3. CASE i = mod.id /\ k <= chans
        BY <1>3, <4>3
      <4>4. QED
        BY <3>1, <4>1, <4>2, <4>3
    <3>4. mod' = mod
      BY <1>1 DEF mod
    <3>5. QED
      BY <1>1, <3>1, <3>3 DEF ChannelRows, mod
  <2>4. QED
    BY <2>2, <2>3 DEF Tables
<1>9. QED
  BY <1>5, <1>6, <1>7, <1>8 DEF IInv

\* A modul that goes is listed by the device being deleted only.
LEMMA DeleteModulKeeps ==
  ASSUME IInv, DeleteModul
  PROVE  IInv'
<1> DEFINE mod == ldc[cur].moduls[done + 1]
<1>1. /\ pc = "delmodul" /\ chans = Len(mod.channels)
      /\ moduls' = Restrict(moduls, DOMAIN moduls \ {mod.id})
      /\ done' = done + 1 /\ chans' = 0
      /\ pc' = IF done + 1 = Len(ldc[cur].moduls) THEN "deldevice" ELSE "delmodul"
      /\ UNCHANGED <<devices, channels, ldc, routes, cur, torn, nreboot>>
  BY DEF DeleteModul
<1>2. /\ cur \in 1..Len(ldc) /\ mod \in Lmodul /\ Len(ldc[cur].moduls) = ModulCnt
      /\ done \in 0..(ModulCnt - 1) /\ ldc[cur].id \in DOMAIN devices
  BY <1>1, NextModul
<1> HIDE DEF mod
<1>3. /\ DOMAIN moduls' = DOMAIN moduls \ {mod.id}
      /\ \A m \in DOMAIN moduls' : moduls'[m] = moduls[m]
  BY <1>1 DEF Restrict
<1>4. done' \in 0..ModulCnt /\ chans' \in 0..ChannelCnt
  BY <1>1, <1>2, Numbers
<1>5. TypeOK'
  <2>1. DOMAIN moduls' \subseteq ModId /\ \A m \in DOMAIN moduls' : moduls'[m] \in Channels
    BY <1>3 DEF IInv, TypeOK
  <2>2. QED
    BY <1>1, <1>4, <2>1 DEF IInv, TypeOK, Deleting
<1>6. Memory' /\ Accepted' /\ Once'
  BY <1>1 DEF IInv, Memory, Accepted, Once, Saving, Deleting
<1>7. Progress'
  <2>1. CASE pc' = "deldevice"
    <3>1. done' = ModulCnt
      BY <1>1, <1>2, <2>1
    <3>2. QED
      BY <2>1, <3>1 DEF Progress, Saving
  <2>2. CASE pc' = "delmodul"
    <3>1. done + 1 # ModulCnt
      BY <1>1, <1>2, <2>2
    <3>2. done' < ModulCnt /\ done' + 1 \in 1..ModulCnt
      BY <1>1, <1>2, <3>1
    <3>3. ldc[cur] \in Ldevice
      BY <1>2, Typed DEF IInv
    <3>4. ldc[cur].moduls[done' + 1] \in Lmodul
      BY <1>2, <3>2, <3>3, DeviceFields
    <3>5. Len(ldc[cur].moduls[done' + 1].channels) \in Nat
      BY <3>4, ModulFields
    <3>6. chans' <= Len(ldc'[cur'].moduls[done' + 1].channels)
      BY <1>1, <3>5
    <3>7. QED
      BY <2>2, <3>2, <3>6 DEF Progress, Saving
  <2>3. QED
    BY <1>1, <2>1, <2>2
<1>8. ~torn' => Tables'
  <2> SUFFICES ASSUME ~torn PROVE Tables'
    BY <1>1
  <2>1. ModulRows /\ ChannelRows /\ Complete /\ Stored
    BY DEF IInv, Tables
  <2>2. /\ mod.id \in DOMAIN moduls /\ mod.id = devices[ldc[cur].id].moduls[done + 1]
        /\ moduls[mod.id] = mod.channels
        /\ \A i \in DOMAIN devices : \A k \in 1..Len(devices[i].moduls) :
             devices[i].moduls[k] = mod.id => i = ldc[cur].id /\ k = done + 1
    BY <1>1, NextModul DEF mod
  <2>3. pc \in Deleting /\ pc' \in Deleting /\ pc \notin Saving
    BY <1>1 DEF Deleting, Saving
  <2>4. ModulRows'
    <3>1. ASSUME NEW i \in DOMAIN devices, NEW k \in 1..Len(devices[i].moduls)
          PROVE  devices[i].moduls[k] \in DOMAIN moduls' \/ (i = ldc[cur].id /\ k <= done + 1)
      <4>1. CASE devices[i].moduls[k] \in DOMAIN moduls
        <5>1. CASE devices[i].moduls[k] = mod.id
          <6>1. i = ldc[cur].id /\ k = done + 1 /\ done + 1 <= done + 1
            BY <1>2, <2>2, <5>1
          <6>2. QED
            BY <6>1
        <5>2. CASE devices[i].moduls[k] # mod.id
          BY <1>3, <4>1, <5>2
        <5>3. QED
          BY <5>1, <5>2
      <4>2. CASE i = ldc[cur].id /\ k <= done
        BY <1>2, <4>2
      <4>3. QED
        BY <2>1, <4>1, <4>2 DEF ModulRows
    <3>2. \A i, j \in DOMAIN devices :
            \A k \in 1..Len(devices[i].moduls), l \in 1..Len(devices[j].moduls) :
              devices[i].moduls[k] = devices[j].moduls[l] => i = j /\ k = l
      BY <2>1 DEF ModulRows
    <3>3. \A i \in DOMAIN devices' : \A k \in 1..Len(devices'[i].moduls) :
            \/ devices'[i].moduls[k] \in DOMAIN moduls'
            \/ pc' \in Deleting /\ i = ldc'[cur'].id /\ k <= done'
      BY <1>1, <2>3, <3>1
    <3>4. pc' # "linkmodul"
      BY <1>1
    <3>5. QED
      <4>1. \A i, j \in DOMAIN devices' :
              \A k \in 1..Len(devices'[i].moduls), l \in 1..Len(devices'[j].moduls) :
                devices'[i].moduls[k] = devices'[j].moduls[l] => i = j /\ k = l
        BY <1>1, <3>2
      <4>2. QED
        BY <3>3, <3>4, <4>1 DEF ModulRows
  <2>5. ChannelRows'
    <3>1. /\ \A i, j \in DOMAIN moduls : \A k \in 1..Len(moduls[i]), l \in 1..Len(moduls[j]) :
               moduls[i][k] = moduls[j][l] => i = j /\ k = l
          /\ \A i \in DOMAIN moduls : \A k \in 1..Len(moduls[i]) :
               moduls[i][k] \in channels \/ i = mod.id
      BY <2>1 DEF ChannelRows, mod
    <3>2. \A i \in DOMAIN moduls' : i \in DOMAIN moduls /\ i # mod.id /\ moduls'[i] = moduls[i]
      BY <1>3
    <3>3. /\ \A i, j \in DOMAIN moduls' : \A k \in 1..Len(moduls'[i]), l \in 1..Len(moduls'[j]) :
               moduls'[i][k] = moduls'[j][l] => i = j /\ k = l
          /\ \A i \in DOMAIN moduls' : \A k \in 1..Len(moduls'[i]) : moduls'[i][k] \in channels
      BY <3>1, <3>2
    <3>4. pc' # "linkchannel"
      BY <1>1
    <3>5. QED
      BY <1>1, <3>3 DEF ChannelRows
  <2>6. Complete'
    <3>1. \A m \in DOMAIN moduls' : m \in DOMAIN moduls /\ moduls'[m] = moduls[m]
      BY <1>3
    <3>2. QED
      <4>1. devices' = devices
        BY <1>1
      <4>2. QED
        BY <2>1, <3>1, <4>1 DEF Complete
  <2>7. Stored'
    <3>1. ASSUME NEW n \in 1..Len(ldc), NEW k \in 1..ModulCnt
          PROVE  /\ ldc[n].moduls[k].id = devices[ldc[n].id].moduls[k]
                 /\ ~(n = cur /\ k <= done + 1) =>
                      moduls'[ldc[n].moduls[k].id] = ldc[n].moduls[k].channels
      <4>1. ldc[n].moduls[k].id = devices[ldc[n].id].moduls[k]
        BY <2>1, <2>3 DEF Stored
      <4>2. ASSUME ~(n = cur /\ k <= done + 1)
            PROVE  moduls'[ldc[n].moduls[k].id] = ldc[n].moduls[k].channels
        <5>1. ~(n = cur /\ k <= done) /\ ~(n = cur /\ k = done + 1)
          BY <1>2, <4>2
        <5>2. moduls[ldc[n].moduls[k].id] = ldc[n].moduls[k].channels
          BY <2>1, <2>3, <5>1 DEF Stored
        <5>3. /\ ldc[n].id \in DOMAIN devices /\ k \in 1..Len(devices[ldc[n].id].moduls)
              /\ ldc[cur].id = ldc[n].id => n = cur
          BY <1>2, <2>3, AllSaved
        <5>4. devices[ldc[n].id].moduls[k] # mod.id
          BY <2>2, <5>1, <5>3
        <5>5. devices[ldc[n].id].moduls[k] \in DOMAIN moduls
          BY <2>1, <5>1, <5>3 DEF ModulRows
        <5>6. QED
          BY <1>3, <4>1, <5>2, <5>4, <5>5
      <4>3. QED
        BY <4>1, <4>2
    <3>2. ldc' = ldc /\ cur' = cur /\ devices' = devices /\ done' = done + 1
      BY <1>1
    <3>3. QED
      BY <2>3, <3>1, <3>2 DEF Stored
  <2>8. QED
    BY <2>4, <2>5, <2>6, <2>7 DEF Tables
<1>9. QED
  BY <1>5, <1>6, <1>7, <1>8 DEF IInv

\* LDCremove(): the others keep their order and their rows.
LEMMA DeleteDeviceKeeps ==
  ASSUME IInv, DeleteDevice
  PROVE  IInv'
<1> DEFINE id == ldc[cur].id
           Old(k) == IF k < cur THEN k ELSE k + 1
<1>1. /\ pc = "deldevice" /\ pc' = "idle"
      /\ devices' = Restrict(devices, DOMAIN devices \ {id})
      /\ ldc' = SubSeq(ldc, 1, cur - 1) \o SubSeq(ldc, cur + 1, Len(ldc))
      /\ UNCHANGED <<moduls, channels, routes, cur, done, chans, torn, nreboot>>
  BY DEF DeleteDevice, deletion
<1>2. pc \in Deleting /\ pc \notin Saving
  BY <1>1 DEF Deleting, Saving
<1>3. cur \in 1..Len(ldc) /\ ldc \in Seq(Ldevice) /\ Len(ldc) \in Nat
  BY <1>2 DEF IInv, TypeOK, Memory
<1>4. /\ ldc' \in Seq(Ldevice) /\ DOMAIN ldc' = 1..(Len(ldc) - 1)
      /\ \A k \in 1..(Len(ldc) - 1) : ldc'[k] = ldc[Old(k)]
  <2>1. LET r == SubSeq(ldc, 1, cur - 1) \o SubSeq(ldc, cur + 1, Len(ldc))
        IN /\ r \in Seq(Ldevice)
           /\ DOMAIN r = 1..(Len(ldc) - 1)
           /\ \A k \in DOMAIN r : r[k] = IF k < cur THEN ldc[k] ELSE ldc[k + 1]
    BY <1>3, RemoveAt
  <2>2. QED
    BY <1>1, <2>1
<1>5. Len(ldc') = Len(ldc) - 1
  BY <1>3, <1>4
<1>6. /\ \A k \in 1..Len(ldc') : Old(k) \in 1..Len(ldc) /\ Old(k) # cur
      /\ \A k, l \in 1..Len(ldc') : Old(k) = Old(l) => k = l
      /\ \A n \in 1..Len(ldc) : n # cur => \E k \in 1..Len(ldc') : Old(k) = n
  <2>1. \A k \in 1..Len(ldc') : Old(k) \in 1..Len(ldc) /\ Old(k) # cur
    BY <1>5
  <2>2. \A k, l \in 1..Len(ldc') : Old(k) = Old(l) => k = l
    BY <1>3
  <2>3. ASSUME NEW n \in 1..Len(ldc), n # cur
        PROVE  \E k \in 1..Len(ldc') : Old(k) = n
    <3>1. CASE n < cur
      BY <1>3, <1>5, <3>1
    <3>2. CASE n > cur
      <4>1. n - 1 \in 1..Len(ldc') /\ ~(n - 1 < cur) /\ (n - 1) + 1 = n
        BY <1>3, <1>5, <3>2
      <4>2. QED
        BY <4>1
    <3>3. QED
      BY <1>3, <2>3, <3>1, <3>2
  <2>4. QED
    BY <2>1, <2>2, <2>3
<1>7. \A k \in 1..Len(ldc') : ldc'[k] = ldc[Old(k)]
  BY <1>4
<1> HIDE DEF Old
<1>8. /\ DOMAIN devices' = DOMAIN devices \ {id}
      /\ \A i \in DOMAIN devices' : devices'[i] = devices[i]
  BY <1>1 DEF Restrict
<1>9. \A k \in 1..Len(ldc') :
        /\ ldc'[k].id # 0 /\ ldc'[k].id # id /\ ldc'[k].id \in DOMAIN devices'
        /\ devices'[ldc'[k].id] = devices[ldc[Old(k)].id]
        /\ devices'[ldc'[k].id].adr = ldc'[k].adr
        /\ Len(ldc'[k].moduls) = ModulCnt /\ devices'[ldc'[k].id].wkc
        /\ \A l \in 1..Len(ldc') : ldc'[l].id = ldc'[k].id => l = k
  <2> SUFFICES ASSUME NEW k \in 1..Len(ldc')
               PROVE  /\ ldc'[k].id # 0 /\ ldc'[k].id # id /\ ldc'[k].id \in DOMAIN devices'
                      /\ devices'[ldc'[k].id] = devices[ldc[Old(k)].id]
                      /\ devices'[ldc'[k].id].adr = ldc'[k].adr
                      /\ Len(ldc'[k].moduls) = ModulCnt /\ devices'[ldc'[k].id].wkc
                      /\ \A l \in 1..Len(ldc') : ldc'[l].id = ldc'[k].id => l = k
    OBVIOUS
  <2>1. /\ ldc[Old(k)].id # 0 /\ ldc[Old(k)].id \in DOMAIN devices
        /\ devices[ldc[Old(k)].id].adr = ldc[Old(k)].adr
        /\ Len(ldc[Old(k)].moduls) = ModulCnt /\ devices[ldc[Old(k)].id].wkc
        /\ \A m \in 1..Len(ldc) : ldc[m].id = ldc[Old(k)].id => m = Old(k)
    BY <1>2, <1>6, AllSaved
  <2>2. ldc[Old(k)].id # id
    BY <1>3, <1>6, <2>1
  <2>3. \A l \in 1..Len(ldc') : ldc'[l].id = ldc'[k].id => l = k
    BY <1>6, <1>7, <2>1
  <2>4. QED
    BY <1>7, <1>8, <2>1, <2>2, <2>3
<1>10. TypeOK'
  <2>1. DOMAIN devices' \subseteq DevId /\ \A i \in DOMAIN devices' : devices'[i] \in Row
    BY <1>8 DEF IInv, TypeOK
  <2>2. QED
    BY <1>1, <1>4, <2>1 DEF IInv, TypeOK
<1>11. Memory'
  <2>1. pc' \notin Saving /\ pc' \notin Deleting /\ pc' # "down" /\ pc' # "insert"
    BY <1>1 DEF Saving, Deleting
  <2>2. QED
    BY <1>9, <2>1 DEF Memory
<1>12. Accepted'
  BY <1>8 DEF IInv, Accepted
<1>13. Progress'
  BY <1>1 DEF Progress, Saving
<1>14. Once'
  <2> SUFFICES ASSUME nreboot = 0 PROVE Once'
    BY <1>1 DEF Once
  <2>1. /\ \A i \in DOMAIN devices : \E n \in 1..Len(ldc) : ldc[n].id = i
        /\ \A m, n \in 1..Len(ldc) : ldc[m].adr = ldc[n].adr => m = n
    BY DEF IInv, Once
  <2>2. \A m, n \in 1..Len(ldc') : ldc'[m].adr = ldc'[n].adr => m = n
    BY <1>6, <1>7, <2>1
  <2>3. ASSUME NEW i \in DOMAIN devices' PROVE \E k \in 1..Len(ldc') : ldc'[k].id = i
    <3>1. PICK n \in 1..Len(ldc) : ldc[n].id = i
      BY <1>8, <2>1
    <3>2. n # cur
      BY <1>8, <3>1
    <3>3. PICK k \in 1..Len(ldc') : Old(k) = n
      BY <1>6, <3>2
    <3>4. QED
      BY <1>7, <3>1, <3>3
  <2>4. QED
    BY <1>1, <2>2, <2>3 DEF Once
<1>15. ~torn' => Tables'
  <2> SUFFICES ASSUME ~torn PROVE Tables'
    BY <1>1
  <2>1. ModulRows /\ ChannelRows /\ Complete /\ Stored
    BY DEF IInv, Tables
  <2>2. \A i \in DOMAIN devices' : i \in DOMAIN devices /\ i # id /\ devices'[i] = devices[i]
    BY <1>8
  <2>3. ModulRows'
    <3>1. \A i, j \in DOMAIN devices' :
            \A k \in 1..Len(devices'[i].moduls), l \in 1..Len(devices'[j].moduls) :
              devices'[i].moduls[k] = devices'[j].moduls[l] => i = j /\ k = l
      BY <2>1, <2>2 DEF ModulRows
    <3>2. \A i \in DOMAIN devices' : \A k \in 1..Len(devices'[i].moduls) :
            devices'[i].moduls[k] \in DOMAIN moduls'
      BY <1>1, <2>1, <2>2 DEF ModulRows
    <3>3. pc' # "linkmodul"
      BY <1>1
    <3>4. QED
      BY <3>1, <3>2, <3>3 DEF ModulRows
  <2>4. ChannelRows'
    BY <1>1, <2>1 DEF ChannelRows
  <2>5. Complete'
    <3>1. moduls' = moduls
      BY <1>1
    <3>2. QED
      BY <2>1, <2>2, <3>1 DEF Complete
  <2>6. Stored'
    <3>1. ASSUME NEW n \in 1..Len(ldc'), NEW k \in 1..ModulCnt
          PROVE  /\ ldc'[n].moduls[k].id = devices'[ldc'[n].id].moduls[k]
                 /\ moduls[ldc'[n].moduls[k].id] = ldc'[n].moduls[k].channels
      <4>1. Old(n) \in 1..Len(ldc) /\ Old(n) # cur /\ ldc'[n] = ldc[Old(n)]
        BY <1>6, <1>7
      <4>2. /\ ldc[Old(n)].moduls[k].id = devices[ldc[Old(n)].id].moduls[k]
            /\ moduls[ldc[Old(n)].moduls[k].id] = ldc[Old(n)].moduls[k].channels
        BY <2>1, <4>1 DEF Stored
      <4>3. QED
        BY <1>9, <4>1, <4>2
    <3>2. moduls' = moduls
      BY <1>1
    <3>3. QED
      BY <3>1, <3>2 DEF Stored
  <2>7. QED
    BY <2>3, <2>4, <2>5, <2>6 DEF Tables
<1>16. QED
  BY <1>10, <1>11, <1>12, <1>13, <1>14, <1>15 DEF IInv

-----------------------------------------------------------------------------
(* Start *)

\* LDCloadDevices() loads complete rows only, each once.
LEMMA LoadKeeps ==
  ASSUME IInv, Load
  PROVE  IInv'
<1>1. /\ pc = "down" /\ pc' = "idle"
      /\ UNCHANGED <<devices, moduls, channels, routes, cur, done, chans, torn, nreboot>>
  BY DEF Load, tables, deletion
<1>2. PICK rows \in TableOrders : \E n \in 0..Len(rows) :
        /\ Loaded(rows, n)
        /\ \A k \in 1..n : Listed(rows[k])
        /\ ldc' = [k \in 1..n |-> [id |-> rows[k], adr |-> devices[rows[k]].adr,
                                   moduls |-> ModulsOf(rows[k])]]
  BY DEF Load
<1>3. PICK n \in 0..Len(rows) :
        /\ Loaded(rows, n)
        /\ \A k \in 1..n : Listed(rows[k])
        /\ ldc' = [k \in 1..n |-> [id |-> rows[k], adr |-> devices[rows[k]].adr,
                                   moduls |-> ModulsOf(rows[k])]]
  BY <1>2
<1>4. Cardinality(DOMAIN devices) \in Nat
  <2>1. DOMAIN devices \subseteq 1..MaxDev /\ MaxDev \in Nat
    BY Numbers DEF IInv, TypeOK, DevId
  <2>2. IsFiniteSet(DOMAIN devices)
    <3>1. IsFiniteSet(1..MaxDev)
      <4>1. 1 \in Int /\ MaxDev \in Int
        BY <2>1
      <4>2. QED
        BY <4>1, FS_Interval
    <3>2. QED
      BY <2>1, <3>1, FS_Subset
  <2>3. QED
    BY <2>2, FS_CardinalityType
<1>5. /\ rows \in [1..Cardinality(DOMAIN devices) -> DOMAIN devices]
      /\ \A k, l \in 1..Cardinality(DOMAIN devices) : rows[k] = rows[l] => k = l
  BY DEF TableOrders, Bijection, Injection, IsInjective
<1>6. Len(rows) = Cardinality(DOMAIN devices)
  BY <1>4, <1>5
<1>7. n \in Nat /\ \A k \in 1..n : k \in 1..Cardinality(DOMAIN devices)
  BY <1>6
<1>8. /\ \A k \in 1..n : rows[k] \in DOMAIN devices /\ devices[rows[k]] \in Row
                         /\ devices[rows[k]].wkc /\ Listed(rows[k])
      /\ \A k, l \in 1..n : rows[k] = rows[l] => k = l
  BY <1>3, <1>5, <1>7, Typed DEF IInv, Loaded
<1>9. \A k \in 1..n : Len(devices[rows[k]].moduls) = ModulCnt
                      /\ DOMAIN devices[rows[k]].moduls = 1..ModulCnt
  <2>1. \A k \in 1..n : Len(devices[rows[k]].moduls) = ModulCnt
    BY <1>8 DEF IInv, Accepted
  <2>2. \A k \in 1..n : devices[rows[k]].moduls \in Seq(ModId)
    BY <1>8, RowFields
  <2>3. QED
    BY <2>1
<1>10. \A k \in 1..n : /\ ModulsOf(rows[k]) \in Seq(Lmodul) /\ Len(ModulsOf(rows[k])) = ModulCnt
                       /\ \A l \in 1..ModulCnt :
                            /\ ModulsOf(rows[k])[l].id = devices[rows[k]].moduls[l]
                            /\ ModulsOf(rows[k])[l].channels = moduls[devices[rows[k]].moduls[l]]
  <2> TAKE k \in 1..n
  <2> DEFINE ms == devices[rows[k]].moduls
             ds == ModulsOf(rows[k])
  <2>1. ds = [l \in 1..ModulCnt |-> [id |-> ms[l], channels |-> moduls[ms[l]]]]
    BY <1>9 DEF ModulsOf
  <2>2. \A l \in 1..ModulCnt : ms[l] \in ModId /\ ms[l] \in DOMAIN moduls
    <3>1. \A l \in 1..ModulCnt : ms[l] \in ModId
      BY <1>8, <1>9, RowFields
    <3>2. \A l \in 1..ModulCnt : ms[l] \in Range(ms)
      BY <1>9 DEF Range
    <3>3. QED
      BY <1>8, <3>1, <3>2 DEF Listed
  <2>3. \A l \in 1..ModulCnt : moduls[ms[l]] \in Channels
    BY <2>2, Typed DEF IInv
  <2> HIDE DEF ms
  <2>4. \A l \in 1..ModulCnt : [id |-> ms[l], channels |-> moduls[ms[l]]] \in Lmodul
    BY <2>2, <2>3 DEF Lmodul
  <2> HIDE DEF ds
  <2>5. ds \in [1..ModulCnt -> Lmodul]
    BY <2>1, <2>4
  <2>6. ds \in Seq(Lmodul) /\ Len(ds) = ModulCnt
    BY <2>5, Numbers
  <2>7. \A l \in 1..ModulCnt : ds[l].id = ms[l] /\ ds[l].channels = moduls[ms[l]]
    BY <2>1
  <2>8. QED
    BY <2>6, <2>7 DEF ms, ds
<1>11. \A k \in 1..n : /\ ldc'[k].id = rows[k] /\ ldc'[k].adr = devices[rows[k]].adr
                       /\ ldc'[k].moduls = ModulsOf(rows[k])
  BY <1>3
<1>12. ldc' \in Seq(Ldevice) /\ Len(ldc') = n
  <2>1. \A k \in 1..n : [id |-> rows[k], adr |-> devices[rows[k]].adr,
                         moduls |-> ModulsOf(rows[k])] \in Ldevice
    <3> TAKE k \in 1..n
    <3>1. rows[k] \in DevId /\ devices[rows[k]].adr \in Adr
      BY <1>8, RowFields DEF IInv, TypeOK
    <3>2. ModulsOf(rows[k]) \in Seq(Lmodul)
      BY <1>10
    <3>3. QED
      BY <3>1, <3>2 DEF Ldevice
  <2>2. ldc' \in [1..n -> Ldevice]
    BY <1>3, <2>1
  <2>3. QED
    BY <2>2
<1>13. TypeOK'
  BY <1>1, <1>12 DEF IInv, TypeOK
<1>14. Memory'
  <2>1. \A k \in 1..n : ldc'[k].id # 0 /\ ldc'[k].id \in DOMAIN devices
                        /\ devices[ldc'[k].id].adr = ldc'[k].adr
                        /\ Len(ldc'[k].moduls) = ModulCnt /\ devices[ldc'[k].id].wkc
                        /\ \A l \in 1..n : ldc'[l].id = ldc'[k].id => l = k
    BY <1>8, <1>10, <1>11, Typed DEF IInv
  <2>2. QED
    BY <1>1, <1>12, <2>1 DEF Memory, Saving, Deleting
<1>15. Accepted' /\ Progress' /\ Once'
  BY <1>1 DEF IInv, Accepted, Progress, Once, Saving
<1>16. ~torn' => Tables'
  <2> SUFFICES ASSUME ~torn PROVE Tables'
    BY <1>1
  <2>1. ModulRows /\ ChannelRows /\ Complete
    BY DEF IInv, Tables
  <2>2. ModulRows'
    BY <1>1, <2>1 DEF ModulRows, Deleting
  <2>3. ChannelRows'
    BY <1>1, <2>1 DEF ChannelRows
  <2>4. Complete'
    BY <1>1, <2>1 DEF Complete
  <2>5. Stored'
    BY <1>1, <1>10, <1>11, <1>12 DEF Stored
  <2>6. QED
    BY <2>2, <2>3, <2>4, <2>5 DEF Tables
<1>17. QED
  BY <1>13, <1>14, <1>15, <1>16 DEF IInv

-----------------------------------------------------------------------------
(* Theorems *)

\* Every step keeps the invariant.
LEMMA StepHolds == IInv /\ [Next]_vars => IInv'
<1> SUFFICES ASSUME IInv, [Next]_vars PROVE IInv'
  OBVIOUS
<1>1. CASE ReadRoutes \/ SkipKnown \/ ScanEnds \/ GiveUp
  BY <1>1, ScanKeeps
<1>2. CASE Discover
  BY <1>2, DiscoverKeeps
<1>3. CASE SaveNewDevice
  BY <1>3, SaveNewDeviceKeeps
<1>4. CASE SaveModul
  BY <1>4, SaveModulKeeps
<1>5. CASE LinkModul
  BY <1>5, LinkModulKeeps
<1>6. CASE SaveChannel
  BY <1>6, SaveChannelKeeps
<1>7. CASE LinkChannel
  BY <1>7, LinkChannelKeeps
<1>8. CASE SaveWKC
  BY <1>8, SaveWKCKeeps
<1>9. ASSUME NEW n \in DOMAIN ldc, Delete(n) PROVE IInv'
  BY <1>9, DeleteKeeps
<1>10. CASE DeleteChannel
  BY <1>10, DeleteChannelKeeps
<1>11. CASE DeleteModul
  BY <1>11, DeleteModulKeeps
<1>12. CASE DeleteDevice
  BY <1>12, DeleteDeviceKeeps
<1>13. CASE Crash
  BY <1>13, CrashKeeps
<1>14. CASE Load
  BY <1>14, LoadKeeps
<1>15. CASE LoadFaults \/ UNCHANGED vars
  <2>1. UNCHANGED <<devices, moduls, channels, ldc, routes, pc, cur, done, chans, torn, nreboot>>
    BY <1>15 DEF LoadFaults, vars, tables, deletion
  <2>2. TypeOK' /\ Memory' /\ Accepted' /\ Once'
    BY <2>1 DEF IInv, TypeOK, Memory, Accepted, Once
  <2>3. Progress'
    <3>1. ASSUME Saved(ldc[cur], devices[ldc[cur].id])
          PROVE  Saved(ldc[cur], devices[ldc[cur].id])'
      <4>1. Current' = Current
        BY <2>1 DEF Current
      <4>2. QED
        BY <2>1, <3>1, <4>1 DEF Saved
    <3>2. QED
      BY <2>1, <3>1 DEF IInv, Progress
  <2>4. ~torn' => Tables'
    <3>1. ModulRows /\ ChannelRows => ModulRows' /\ ChannelRows'
      BY <2>1 DEF ModulRows, ChannelRows, Current
    <3>2. Complete /\ Stored => Complete' /\ Stored'
      BY <2>1 DEF Complete, Stored
    <3>3. QED
      BY <2>1, <3>1, <3>2 DEF IInv, Tables
  <2>5. QED
    BY <2>2, <2>3, <2>4 DEF IInv
<1>16. QED
  BY <1>1, <1>2, <1>3, <1>4, <1>5, <1>6, <1>7, <1>8, <1>9, <1>10, <1>11, <1>12, <1>13,
     <1>14, <1>15 DEF Next

\* The invariant holds in every state.
LEMMA Invariance == Spec => []IInv
  BY InitHolds, StepHolds, PTL DEF Spec

\* Types of the tables and of the container.
THEOREM RegistryTyped == Spec => []TypeOK
<1>1. IInv => TypeOK
  BY DEF IInv
<1>2. QED
  BY <1>1, Invariance, PTL

\* A row with a description lists all moduls, and these all channels, for any number
\* of moduls, channels and crashes.
THEOREM RowsAreComplete == Spec => []AcceptedIsComplete
<1>1. IInv => AcceptedIsComplete
  <2> SUFFICES ASSUME IInv, NEW i \in DOMAIN devices, devices[i].wkc
               PROVE  /\ Len(devices[i].moduls) = ModulCnt
                      /\ ~torn => \A m \in Range(devices[i].moduls) \intersect DOMAIN moduls :
                                     Len(moduls[m]) = ChannelCnt
    BY DEF AcceptedIsComplete
  <2>1. Len(devices[i].moduls) = ModulCnt
    BY DEF IInv, Accepted
  <2>2. devices[i].moduls \in Seq(ModId)
    BY Typed, RowFields DEF IInv
  <2>3. \A m \in Range(devices[i].moduls) :
          \E k \in 1..Len(devices[i].moduls) : m = devices[i].moduls[k]
    BY DEF Range
  <2>4. ~torn => Complete
    BY DEF IInv, Tables
  <2>5. QED
    BY <2>1, <2>3, <2>4 DEF Complete
<1>2. QED
  BY <1>1, Invariance, PTL

\* A number that is listed is in its table and has one owner.
THEOREM NumbersAreOwned == Spec => []ModulsAreOwned
<1>1. IInv => ModulsAreOwned
  <2> SUFFICES ASSUME IInv, ~torn, pc \notin Deleting
               PROVE  /\ \A i \in DOMAIN devices : Listed(i)
                      /\ OneOwner([i \in DOMAIN devices |-> devices[i].moduls])
                      /\ OneOwner(moduls)
    BY DEF ModulsAreOwned
  <2>1. ModulRows /\ ChannelRows /\ pc # "delmodul"
    BY DEF IInv, Tables, Deleting
  <2>2. /\ \A i \in DOMAIN devices : devices[i].moduls \in Seq(ModId)
        /\ \A i \in DOMAIN moduls : moduls[i] \in Seq(ChanId)
    BY Typed, RowFields, ListFields DEF IInv
  <2>3. /\ \A i \in DOMAIN devices : DOMAIN devices[i].moduls = 1..Len(devices[i].moduls)
        /\ \A i \in DOMAIN moduls : DOMAIN moduls[i] = 1..Len(moduls[i])
    OBVIOUS
  <2>4. ASSUME NEW i \in DOMAIN devices PROVE Listed(i)
    <3>1. \A m \in Range(devices[i].moduls) : m \in DOMAIN moduls
      BY <2>1 DEF ModulRows, Range
    <3>2. \A m \in DOMAIN moduls : Range(moduls[m]) \subseteq channels
      BY <2>1 DEF ChannelRows, Range
    <3>3. QED
      BY <3>1, <3>2 DEF Listed
  <2>5. OneOwner([i \in DOMAIN devices |-> devices[i].moduls])
    <3> DEFINE lists == [i \in DOMAIN devices |-> devices[i].moduls]
    <3>1. /\ DOMAIN lists = DOMAIN devices
          /\ \A i \in DOMAIN devices : lists[i] = devices[i].moduls
      OBVIOUS
    <3> HIDE DEF lists
    <3>2. \A i, j \in DOMAIN lists : \A k \in 1..Len(lists[i]), l \in 1..Len(lists[j]) :
            lists[i][k] = lists[j][l] => i = j /\ k = l
      BY <2>1, <3>1 DEF ModulRows
    <3>3. \A i \in DOMAIN lists : DOMAIN lists[i] = 1..Len(lists[i])
      OBVIOUS
    <3>4. OneOwner(lists)
      BY <3>2, <3>3 DEF OneOwner
    <3>5. QED
      BY <3>4 DEF lists
  <2>6. OneOwner(moduls)
    BY <2>1 DEF ChannelRows, OneOwner
  <2>7. QED
    BY <2>4, <2>5, <2>6
<1>2. QED
  BY <1>1, Invariance, PTL

\* A device in memory is the one of its row in the tables, and of no other.
THEOREM ContainerIsStored == Spec => []MemoryIsStored
<1>1. IInv => MemoryIsStored
  <2> SUFFICES ASSUME IInv, ~torn, pc \in {"idle", "scan"}, NEW n \in 1..Len(ldc)
               PROVE  /\ ldc[n].id \in DOMAIN devices
                      /\ devices[ldc[n].id].adr = ldc[n].adr
                      /\ ldc[n].moduls = ModulsOf(ldc[n].id)
                      /\ \A m \in 1..Len(ldc) : ldc[m].id = ldc[n].id => m = n
    BY Typed DEF MemoryIsStored
  <2>1. pc \notin Saving /\ pc \notin Deleting /\ Stored
    BY DEF Saving, Deleting, IInv, Tables
  <2>2. /\ ldc[n].id \in DOMAIN devices /\ devices[ldc[n].id].adr = ldc[n].adr
        /\ Len(ldc[n].moduls) = ModulCnt /\ Len(devices[ldc[n].id].moduls) = ModulCnt
        /\ \A m \in 1..Len(ldc) : ldc[m].id = ldc[n].id => m = n
    BY <2>1, AllSaved
  <2> DEFINE ms == devices[ldc[n].id].moduls
             ds == ldc[n].moduls
  <2>3. ds \in Seq(Lmodul) /\ ms \in Seq(ModId)
    BY <2>2, Typed, DeviceFields, RowFields DEF IInv
  <2>4. Len(ds) = ModulCnt /\ DOMAIN ds = 1..ModulCnt /\ DOMAIN ms = 1..ModulCnt
    BY <2>2
  <2>5. \A k \in 1..ModulCnt : ds[k].id = ms[k] /\ ds[k].channels = moduls[ms[k]]
    BY <2>1 DEF Stored
  <2>6. \A k \in 1..ModulCnt : ds[k] = [id |-> ms[k], channels |-> moduls[ms[k]]]
    <3>1. \A m \in Lmodul : m = [id |-> m.id, channels |-> m.channels]
      BY DEF Lmodul
    <3> HIDE DEF ds, ms
    <3>2. \A k \in 1..ModulCnt : ds[k] \in Lmodul
      BY <2>3, <2>4
    <3>3. QED
      BY <2>5, <3>1, <3>2
  <2>7. ds = [k \in 1..ModulCnt |-> [id |-> ms[k], channels |-> moduls[ms[k]]]]
    <3>1. ds = [k \in DOMAIN ds |-> ds[k]]
      BY <2>3
    <3> HIDE DEF ds, ms
    <3>2. QED
      BY <2>4, <2>6, <3>1
  <2>8. ds = ModulsOf(ldc[n].id)
    BY <2>4, <2>7 DEF ModulsOf
  <2>9. QED
    BY <2>2, <2>8
<1>2. QED
  BY <1>1, Invariance, PTL

\* Until the first crash an address is registered once.
THEOREM OneRegistration == Spec => []RegisteredOnceUntilCrash
<1>1. IInv => RegisteredOnceUntilCrash
  <2> SUFFICES ASSUME IInv, nreboot = 0
               PROVE  /\ RegisteredOnce
                      /\ \A m, n \in 1..Len(ldc) : ldc[m].adr = ldc[n].adr => m = n
    BY DEF RegisteredOnceUntilCrash
  <2>1. /\ \A i \in DOMAIN devices : \E n \in 1..Len(ldc) : ldc[n].id = i
        /\ \A m, n \in 1..Len(ldc) : ldc[m].adr = ldc[n].adr => m = n
    BY DEF IInv, Once
  <2>2. 0 \notin DOMAIN devices
    BY Typed DEF IInv
  <2>3. \A n \in 1..Len(ldc) : ldc[n].id # 0 => devices[ldc[n].id].adr = ldc[n].adr
    BY DEF IInv, Memory
  <2>4. RegisteredOnce
    BY <2>1, <2>2, <2>3 DEF RegisteredOnce
  <2>5. QED
    BY <2>1, <2>4
<1>2. QED
  BY <1>1, Invariance, PTL
=============================================================================

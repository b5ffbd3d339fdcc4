------------------------------ MODULE Registry ------------------------------
(***************************************************************************)
(* The registry of devices: liegw/src/lielas/devicecontainer.c and the     *)
(* delete command of lbus.c.                                               *)
(*                                                                         *)
(* A device is registered in memory (deviceContainer) and in the tables    *)
(* devices, moduls and channels.  Once a minute the main thread reads the  *)
(* routing table of the radio network, asks every address it does not know *)
(* for its description and saves the new device statement by statement;    *)
(* nothing is a transaction.  At start LDCloadDevices() fills the          *)
(* container from the tables.  The main thread does all this alone, so     *)
(* that the only other actor is a crash between two statements.            *)
(*                                                                         *)
(* Left out are the commands that set up the new device itself, see        *)
(* DeviceScan, and the updates of rows that already exist, which do not    *)
(* happen: LDCsaveUpdatedDevice() is called for new devices only.          *)
(***************************************************************************)
EXTENDS Integers, Sequences, FiniteSets, Functions

CONSTANTS Adr,              \* addresses of devices in the radio network
          ModulCnt,         \* moduls of each device, at least one
          ChannelCnt,       \* channels of each modul, at least one
          MaxDev,           \* bound: device numbers
          MaxMod,           \* bound: modul numbers
          MaxChan,          \* bound: channel numbers
          MaxRoutes,        \* bound: entries of the routing table
          MaxReboot         \* bound: crashes

ASSUME RegistryAssumption == /\ {ModulCnt, ChannelCnt} \subseteq Nat \ {0}
                             /\ {MaxDev, MaxMod, MaxChan, MaxRoutes, MaxReboot} \subseteq Nat
                             /\ IsFiniteSet(Adr)

DevId == 1..MaxDev
ModId == 1..MaxMod
ChanId == 1..MaxChan

\* What the columns moduls and channels list, "1;2;3" for example.
Moduls == {s \in Seq(ModId) : Len(s) <= ModulCnt}
Channels == {s \in Seq(ChanId) : Len(s) <= ChannelCnt}

\* A row of table devices.
Row == [adr : Adr, moduls : Moduls, wkc : BOOLEAN]

\* A device in memory; id is 0 until it is saved.  Of its moduls and channels
\* only those that have been saved are shown.
Lmodul == [id : ModId, channels : Channels]
Ldevice == [id : DevId \union {0}, adr : Adr, moduls : Seq(Lmodul)]

VARIABLES
  devices,  \* table devices: a function on the numbers in use
  moduls,   \* table moduls: the channels listed by each number in use
  channels, \* table channels: the numbers in use
  ldc,      \* deviceContainer, in order
  routes,   \* the part of the routing table still to be looked at
  pc,       \* where the main thread is; "down" while no process runs
  cur,      \* the position in ldc of the device being saved or deleted
  done,     \* how many of its moduls are deleted
  chans,    \* how many channels of the next one are deleted
  torn,     \* history: a crash has interrupted a deletion
  nreboot

tables == <<devices, moduls, channels>>
deletion == <<done, chans>>
vars == <<tables, ldc, routes, pc, cur, deletion, torn, nreboot>>

Saving == {"insert", "modul", "linkmodul", "channel", "linkchannel", "wkc"}
Deleting == {"delmodul", "deldevice"}

TypeOK == /\ DOMAIN devices \subseteq DevId
          /\ \A i \in DOMAIN devices : devices[i] \in Row
          /\ DOMAIN moduls \subseteq ModId
          /\ \A m \in DOMAIN moduls : moduls[m] \in Channels
          /\ channels \subseteq ChanId
          /\ ldc \in Seq(Ldevice)
          /\ routes \in Seq(Adr)
          /\ pc \in {"idle", "scan", "down"} \union Saving \union Deleting
          /\ cur \in Nat /\ done \in 0..ModulCnt /\ chans \in 0..ChannelCnt
          /\ torn \in BOOLEAN
          /\ nreboot \in 0..MaxReboot

Init == /\ devices = <<>> /\ moduls = <<>> /\ channels = {}
        /\ ldc = <<>>
        /\ routes = <<>>
        /\ pc = "idle" /\ cur = 0 /\ done = 0 /\ chans = 0
        /\ torn = FALSE /\ nreboot = 0

-----------------------------------------------------------------------------
\* Mutated: the number of rows plus one.
CountedId(ids, i) == i = Cardinality(ids) + 1

\* getNewId: one above the highest number in use.
NewId(ids, i) == /\ \A j \in ids : j < i
                 /\ i = 1 \/ i - 1 \in ids

\* Mutated: stops before the last device of the container.
KnownButLast(a) == \E n \in 1..(Len(ldc) - 1) : ldc[n].adr = a

\* LDCgetDeviceByAddress
Known(a) == \E n \in DOMAIN ldc : ldc[n].adr = a

-----------------------------------------------------------------------------
(* LDCcheckForNewDevices *)

\* The file may name an address more than once.
ReadRoutes == /\ pc = "idle"
              /\ \E n \in 1..MaxRoutes : routes' \in [1..n -> Adr]
              /\ pc' = "scan"
              /\ UNCHANGED <<tables, ldc, cur, deletion, torn, nreboot>>

SkipKnown == /\ pc = "scan"
             /\ routes # <<>>
             /\ Known(Head(routes))
             /\ routes' = Tail(routes)
             /\ UNCHANGED <<tables, ldc, pc, cur, deletion, torn, nreboot>>

ScanEnds == /\ pc = "scan"
            /\ routes = <<>>
            /\ pc' = "idle"
            /\ UNCHANGED <<tables, ldc, routes, cur, deletion, torn, nreboot>>

\* A request to an unknown device fails or its answer does not parse: the
\* function returns and drops the rest of the routing table.
GiveUp == /\ pc = "scan"
          /\ routes # <<>>
          /\ ~Known(Head(routes))
          /\ routes' = <<>>
          /\ pc' = "idle"
          /\ UNCHANGED <<tables, ldc, cur, deletion, torn, nreboot>>

\* Bound: there are numbers for one more device, its moduls and their channels.
Room == /\ MaxDev \notin DOMAIN devices
        /\ \A i \in DOMAIN moduls : i + ModulCnt <= MaxMod
        /\ \A i \in channels : i + ModulCnt * ChannelCnt <= MaxChan

\* The description is complete: LDCadd.
Discover == /\ pc = "scan"
            /\ routes # <<>>
            /\ Room
            /\ ~Known(Head(routes))
            /\ ldc' = Append(ldc, [id |-> 0, adr |-> Head(routes), moduls |-> <<>>])
            /\ cur' = Len(ldc) + 1
            /\ routes' = Tail(routes)
            /\ pc' = "insert"
            /\ UNCHANGED <<tables, deletion, torn, nreboot>>

\* Mutated: the description is stored with the row.
SaveNewDeviceWithWKC ==
  /\ pc = "insert"
  /\ \E i \in DevId :
       /\ NewId(DOMAIN devices, i)
       /\ devices' = [j \in DOMAIN devices \union {i} |->
                        IF j = i THEN [adr |-> ldc[cur].adr, moduls |-> <<>>, wkc |-> TRUE]
                        ELSE devices[j]]
       /\ ldc' = [ldc EXCEPT ![cur].id = i]
  /\ pc' = "modul"
  /\ UNCHANGED <<moduls, channels, routes, cur, deletion, torn, nreboot>>

\* LDCsaveNewDevice
SaveNewDevice ==
  /\ pc = "insert"
  /\ \E i \in DevId :
       /\ NewId(DOMAIN devices, i)
       /\ devices' = [j \in DOMAIN devices \union {i} |->
                        IF j = i THEN [adr |-> ldc[cur].adr, moduls |-> <<>>, wkc |-> FALSE]
                        ELSE devices[j]]
       /\ ldc' = [ldc EXCEPT ![cur].id = i]
  /\ pc' = "modul"
  /\ UNCHANGED <<moduls, channels, routes, cur, deletion, torn, nreboot>>

\* LDCsaveUpdatedDevice: each modul is inserted and then listed in the device,
\* and each of its channels is inserted and then listed in the modul.
SaveModul == /\ pc = "modul"
             /\ \E i \in ModId :
                  /\ NewId(DOMAIN moduls, i)
                  /\ moduls' = [m \in DOMAIN moduls \union {i} |->
                                  IF m = i THEN <<>> ELSE moduls[m]]
                  /\ ldc' = [ldc EXCEPT ![cur].moduls =
                               Append(@, [id |-> i, channels |-> <<>>])]
             /\ pc' = "linkmodul"
             /\ UNCHANGED <<devices, channels, routes, cur, deletion, torn, nreboot>>

\* The modul that is being saved.
Current == ldc[cur].moduls[Len(ldc[cur].moduls)]

LinkModul == /\ pc = "linkmodul"
             /\ devices' = [devices EXCEPT ![ldc[cur].id].moduls = Append(@, Current.id)]
             /\ pc' = "channel"
             /\ UNCHANGED <<moduls, channels, ldc, routes, cur, deletion, torn, nreboot>>

SaveChannel == /\ pc = "channel"
               /\ \E i \in ChanId :
                    /\ NewId(channels, i)
                    /\ channels' = channels \union {i}
                    /\ ldc' = [ldc EXCEPT ![cur].moduls[Len(ldc[cur].moduls)].channels =
                                 Append(@, i)]
               /\ pc' = "linkchannel"
               /\ UNCHANGED <<devices, moduls, routes, cur, deletion, torn, nreboot>>

\* Mutated: one modul too many.
LinkChannelTooMany ==
  /\ pc = "linkchannel"
  /\ moduls' = [moduls EXCEPT ![Current.id] = Current.channels]
  /\ pc' = (IF Len(Current.channels) < ChannelCnt THEN "channel"
            ELSE IF Len(ldc[cur].moduls) <= ModulCnt THEN "modul" ELSE "wkc")
  /\ UNCHANGED <<devices, channels, ldc, routes, cur, deletion, torn, nreboot>>

\* What the modul lists is what was listed before and the new channel.
LinkChannel ==
  /\ pc = "linkchannel"
  /\ moduls' = [moduls EXCEPT ![Current.id] =
                  Append(@, Current.channels[Len(Current.channels)])]
  /\ pc' = (IF Len(Current.channels) < ChannelCnt THEN "channel"
            ELSE IF Len(ldc[cur].moduls) < ModulCnt THEN "modul" ELSE "wkc")
  /\ UNCHANGED <<devices, channels, ldc, routes, cur, deletion, torn, nreboot>>

\* LDCsaveWKC, then the device is set up and the scan goes on.
SaveWKC == /\ pc = "wkc"
           /\ devices' = [devices EXCEPT ![ldc[cur].id].wkc = TRUE]
           /\ pc' = "scan"
           /\ UNCHANGED <<moduls, channels, ldc, routes, cur, deletion, torn, nreboot>>

-----------------------------------------------------------------------------
(* handleDelCmd *)

Delete(n) == /\ pc = "idle"
             /\ cur' = n
             /\ done' = 0 /\ chans' = 0
             /\ pc' = "delmodul"
             /\ UNCHANGED <<tables, ldc, routes, torn, nreboot>>

\* The rows of a modul's channels go before its own.
DeleteChannel == /\ pc = "delmodul"
                 /\ chans < Len(ldc[cur].moduls[done + 1].channels)
                 /\ channels' = channels \ {ldc[cur].moduls[done + 1].channels[chans + 1]}
                 /\ chans' = chans + 1
                 /\ UNCHANGED <<devices, moduls, ldc, routes, pc, cur, done, torn, nreboot>>

DeleteModul == /\ pc = "delmodul"
               /\ chans = Len(ldc[cur].moduls[done + 1].channels)
               /\ moduls' = Restrict(moduls, DOMAIN moduls \ {ldc[cur].moduls[done + 1].id})
               /\ done' = done + 1 /\ chans' = 0
               /\ pc' = IF done + 1 = Len(ldc[cur].moduls) THEN "deldevice"
                                                          ELSE "delmodul"
               /\ UNCHANGED <<devices, channels, ldc, routes, cur, torn, nreboot>>

\* Mutated: LDCremove() is not called.
DeleteRowOnly ==
  /\ pc = "deldevice"
  /\ devices' = Restrict(devices, DOMAIN devices \ {ldc[cur].id})
  /\ pc' = "idle"
  /\ UNCHANGED <<moduls, channels, ldc, routes, cur, deletion, torn, nreboot>>

\* The row goes, then LDCremove() takes the device out of the container.
DeleteDevice ==
  /\ pc = "deldevice"
  /\ devices' = Restrict(devices, DOMAIN devices \ {ldc[cur].id})
  /\ ldc' = SubSeq(ldc, 1, cur - 1) \o SubSeq(ldc, cur + 1, Len(ldc))
  /\ pc' = "idle"
  /\ UNCHANGED <<moduls, channels, routes, cur, deletion, torn, nreboot>>

-----------------------------------------------------------------------------
Crash == /\ pc # "down"
         /\ nreboot < MaxReboot
         /\ nreboot' = nreboot + 1
         /\ torn' = (torn \/ pc \in Deleting)
         /\ pc' = "down"
         /\ ldc' = <<>> /\ routes' = <<>> /\ cur' = 0 /\ done' = 0 /\ chans' = 0
         /\ UNCHANGED tables

\* LDCloadDevices reads the rows in the order the database returns them and
\* returns at the first one whose wkc is empty.
Loaded(rows, n) == /\ \A k \in 1..n : devices[rows[k]].wkc
                   /\ n < Len(rows) => ~devices[rows[n + 1]].wkc

\* loadModuls and loadChannels read through NULL when a modul or channel that is
\* listed is not in the table.
Listed(i) == \A m \in Range(devices[i].moduls) :
               m \in DOMAIN moduls /\ Range(moduls[m]) \subseteq channels

ModulsOf(i) == [k \in DOMAIN devices[i].moduls |->
                  [id |-> devices[i].moduls[k], channels |-> moduls[devices[i].moduls[k]]]]

TableOrders == Bijection(1..Cardinality(DOMAIN devices), DOMAIN devices)

Load == /\ pc = "down"
        /\ \E rows \in TableOrders : \E n \in 0..Len(rows) :
             /\ Loaded(rows, n)
             /\ \A k \in 1..n : Listed(rows[k])
             /\ ldc' = [k \in 1..n |-> [id |-> rows[k], adr |-> devices[rows[k]].adr,
                                        moduls |-> ModulsOf(rows[k])]]
        /\ pc' = "idle"
        /\ UNCHANGED <<tables, routes, cur, deletion, torn, nreboot>>

\* The process dies while it loads, and is down as before.
LoadFaults == /\ pc = "down"
              /\ \E rows \in TableOrders : \E n \in 0..Len(rows) :
                   /\ Loaded(rows, n)
                   /\ \E k \in 1..n : ~Listed(rows[k])
              /\ UNCHANGED vars

Next == \/ ReadRoutes \/ SkipKnown \/ ScanEnds \/ GiveUp \/ Discover
        \/ SaveNewDevice \/ SaveModul \/ LinkModul \/ SaveChannel \/ LinkChannel \/ SaveWKC
        \/ \E n \in DOMAIN ldc : Delete(n)
        \/ DeleteChannel \/ DeleteModul \/ DeleteDevice
        \/ Crash \/ Load \/ LoadFaults

Spec == Init /\ [][Next]_vars

-----------------------------------------------------------------------------
(* Properties *)

\* The wkc column is written last and works as a commit mark: a row that
\* LDCloadDevices accepts lists all moduls of its device, and these all their
\* channels, whenever the gateway crashed while they were being written.
AcceptedIsComplete ==
  \A i \in DOMAIN devices : devices[i].wkc =>
    /\ Len(devices[i].moduls) = ModulCnt
    /\ ~torn => \A m \in Range(devices[i].moduls) \intersect DOMAIN moduls :
                   Len(moduls[m]) = ChannelCnt

\* No number is listed twice, in one list or in two.
OneOwner(lists) ==
  \A i, j \in DOMAIN lists : \A k \in DOMAIN lists[i], l \in DOMAIN lists[j] :
    lists[i][k] = lists[j][l] => i = j /\ k = l

\* As long as no deletion has been interrupted, every modul and channel that is
\* listed is in its table and has one owner: no crash during a registration makes
\* the loader read through NULL, and a number given to a new modul or channel is
\* listed by no row that an earlier crash left behind.
ModulsAreOwned ==
  (~torn /\ pc \notin Deleting) =>
    /\ \A i \in DOMAIN devices : Listed(i)
    /\ OneOwner([i \in DOMAIN devices |-> devices[i].moduls])
    /\ OneOwner(moduls)

\* Whatever registration crashed before: a device in memory is one the tables
\* have, with the same address, moduls and channels, and no two devices in memory
\* share a row; a delete command finds by its number the device that was meant, and
\* deletes the rows of that one only.  After a deletion that was interrupted this
\* is lost with the next crash: the row that is left lists numbers that are given
\* to the moduls of another device.
MemoryIsStored ==
  (~torn /\ pc \in {"idle", "scan"}) =>
    \A n \in DOMAIN ldc :
      /\ ldc[n].id \in DOMAIN devices
      /\ devices[ldc[n].id].adr = ldc[n].adr
      /\ ldc[n].moduls = ModulsOf(ldc[n].id)
      /\ \A m \in DOMAIN ldc : ldc[m].id = ldc[n].id => m = n

\* An address is registered once.
RegisteredOnce == \A i, j \in DOMAIN devices :
                     devices[i].adr = devices[j].adr => i = j

\* Without a crash an address is registered once, in the tables and in memory.
RegisteredOnceUntilCrash ==
  nreboot = 0 => /\ RegisteredOnce
                 /\ \A m, n \in DOMAIN ldc : ldc[m].adr = ldc[n].adr => m = n
=============================================================================

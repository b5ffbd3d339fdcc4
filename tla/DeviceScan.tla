----------------------------- MODULE DeviceScan -----------------------------
(***************************************************************************)
(* The acquisition of data: HandleDevices() in liegw/src/devicehandler.c   *)
(* and the cursor of the device container, liegw/src/lielas/               *)
(* devicecontainer.c.                                                      *)
(*                                                                         *)
(* When it is due, a lap of the main loop takes the next device of the     *)
(* container, turns its cycle mode off, asks for the values logged since   *)
(* the last date that is in the table, stores them value by value, sets    *)
(* clock and interval of the device and turns the cycle mode on again.     *)
(* Between two laps commands delete devices and the scan registers new     *)
(* ones.  Requests get lost or only their answers do, statements fail, the *)
(* gateway crashes, devices restart and lose their clock.                  *)
(*                                                                         *)
(* The devices' own program is not in the repository.  NoGap and what      *)
(* follows from it rest on the assumption that a device asked for its      *)
(* values from a date on sends those of that date too (Answers): the last  *)
(* row of the table may have only some of its channels.                    *)
(***************************************************************************)
EXTENDS Integers, Sequences, FiniteSets, Functions

CONSTANTS Dev,       \* devices
          NULL,      \* no device
          Gone,      \* a pointer to a device or container that was removed
          Channels,  \* channels of a device
          BufRows,   \* rows of a log that fit into the buffer of an answer
          MaxDate,   \* bound: dates
          MaxEvents  \* bound: faults, registrations and changed intervals

ASSUME ScanAssumption == /\ Channels \in Nat \ {0} /\ BufRows \in Nat \ {0, 1}
                         /\ {MaxDate, MaxEvents} \subseteq Nat
                         /\ IsFiniteSet(Dev) /\ {NULL, Gone} \cap Dev = {} /\ NULL # Gone

\* Dates a device logs: those of a clock that is right, and of one that is not.
Date == 1..MaxDate
Past == 0
Future == MaxDate + 1
Unreadable == -1
Channel == 1..Channels

VARIABLES
  ldc,         \* deviceContainer, in order
  container,   \* deviceContainer # NULL
  dcPtr,       \* the device whose container dcPtr points to
  lastDevice,  \* static of HandleDevices
  due,         \* the time nextScan is reached
  pc,          \* where HandleDevices() is; "down" while no process runs
  cur,         \* the device d of HandleDevices
  paket,       \* the values still to be stored: channel and date
  cells,       \* table data: device, channel, date of the values in it
  log,         \* the log of each device, in the order it was written
  dev,         \* of each device: cycle mode on, clock right, interval as wanted
  refused,     \* history: values a statement failed to store
  skewed,      \* history: devices that lost their clock
  nevent

container_vars == <<ldc, container, dcPtr, lastDevice>>
history == <<refused, skewed>>
device_vars == <<log, dev>>
vars == <<container_vars, due, pc, cur, paket, cells, device_vars, history, nevent>>

Steps == {"off", "fetch", "save", "clock", "mint", "on"}

TypeOK == /\ ldc \in Seq(Dev) /\ container \in BOOLEAN
          /\ dcPtr \in Dev \union {NULL, Gone} /\ lastDevice \in Dev \union {NULL, Gone}
          /\ due \in BOOLEAN /\ pc \in Steps \union {"loop", "down"}
          /\ cur \in Dev \union {NULL} /\ (pc \in Steps => cur \in Dev)
          /\ paket \in Seq(Channel \X (Past..Future))
          /\ cells \subseteq Dev \X Channel \X (Past..Future)
          /\ log \in [Dev -> Seq(Unreadable..Future)]
          /\ dev \in [Dev -> [cycle : BOOLEAN, clock : BOOLEAN, mint : BOOLEAN]]
          /\ refused \subseteq Dev \X Channel \X (Past..Future) /\ skewed \subseteq Dev
          /\ nevent \in 0..MaxEvents

Init == /\ \E n \in 1..Cardinality(Dev) :
             ldc = CHOOSE s \in [1..n -> Dev] : IsInjective(s)
        /\ container = TRUE /\ dcPtr = NULL /\ lastDevice = NULL
        /\ due = TRUE /\ pc = "loop" /\ cur = NULL /\ paket = <<>>
        /\ cells = {}
        /\ log = [d \in Dev |-> <<>>]
        /\ dev = [d \in Dev |-> [cycle |-> TRUE, clock |-> TRUE, mint |-> TRUE]]
        /\ refused = {} /\ skewed = {} /\ nevent = 0

\* An event that is none of the gateway's own steps.
Event == nevent < MaxEvents /\ nevent' = nevent + 1
NoEvent == UNCHANGED nevent

-----------------------------------------------------------------------------
(* The choice of the device *)

\* LDCgetFirstDevice
FirstDevice == IF ldc = <<>> THEN NULL ELSE ldc[1]

\* Mutated: the last device has no successor that is scanned.
FollowingOnlyFirst(d) == FirstDevice

\* LDCgetNextDevice, with dcPtr on d
Following(d) == IF \E n \in 1..(Len(ldc) - 1) : ldc[n] = d
                THEN ldc[(CHOOSE n \in 1..(Len(ldc) - 1) : ldc[n] = d) + 1]
                ELSE NULL

\* The device behind the last one; the first if there is none behind it or the
\* last one has been deleted.
Picked == IF Following(lastDevice) # NULL THEN Following(lastDevice) ELSE FirstDevice

\* Mutated: goes on without a device.
PickUnchecked == /\ pc = "loop" /\ due
                 /\ lastDevice' = Picked /\ dcPtr' = Following(Picked)
                 /\ due' = FALSE /\ pc' = "off" /\ cur' = Picked
                 /\ UNCHANGED <<ldc, container, paket, cells, device_vars, history, nevent>>

Pick == /\ pc = "loop" /\ due
        /\ lastDevice' = Picked /\ dcPtr' = Following(Picked)
        /\ due' = FALSE
        /\ IF Picked = NULL THEN UNCHANGED <<pc, cur>>
                            ELSE pc' = "off" /\ cur' = Picked
        /\ UNCHANGED <<ldc, container, paket, cells, device_vars, history, nevent>>

Down == /\ pc' = "down" /\ ldc' = ldc
        /\ container' = TRUE /\ dcPtr' = NULL /\ lastDevice' = NULL
        /\ due' = FALSE /\ cur' = NULL /\ paket' = <<>>
        /\ UNCHANGED <<cells, device_vars, history>>

\* Without a container LDCgetFirstDevice() leaves dcPtr where it was, and
\* LDCgetNextDevice() reads a container that was freed: old contents, which lead
\* to no device (Pick), or the end of the process.
PickFaults == /\ pc = "loop" /\ due
              /\ ~container /\ dcPtr = Gone
              /\ Down /\ NoEvent

-----------------------------------------------------------------------------
(* Requests to the device; each of them may be repeated before it fails *)

\* A request that sets a field: answered, or not and carried out or not.
Request(field, value, next, else) ==
  \/ /\ dev' = [dev EXCEPT ![cur][field] = value]
     /\ pc' = next /\ NoEvent
  \/ /\ dev' \in {dev, [dev EXCEPT ![cur][field] = value]}
     /\ pc' = else /\ Event

quiet == <<container_vars, due, cur, paket, cells, log, history>>

\* Mutated: returns without switching the cycle mode on.
SetCycleModeOnForgotten == /\ pc = "on"
                           /\ pc' = "loop" /\ UNCHANGED dev /\ NoEvent
                           /\ UNCHANGED quiet

SetCycleModeOff == /\ pc = "off"
                   /\ Request("cycle", FALSE, "fetch", "loop")
                   /\ UNCHANGED quiet

DeviceSetDatetime == /\ pc = "clock"
                     /\ Request("clock", TRUE, "mint", "mint")
                     /\ UNCHANGED quiet

SetLoggerMint == /\ pc = "mint"
                 /\ Request("mint", TRUE, "on", "on")
                 /\ UNCHANGED quiet

SetCycleModeOn == /\ pc = "on"
                  /\ Request("cycle", TRUE, "loop", "loop")
                  /\ UNCHANGED quiet

-----------------------------------------------------------------------------
(* The values *)

\* Mutated: the last date of any channel, not of the first.
LastDateOfAny(d) ==
  LET dates == {t \in Past..Future : \E c \in Channel : <<d, c, t>> \in cells}
  IN IF dates = {} THEN Past ELSE (CHOOSE t \in dates : \A u \in dates : u <= t) + 1

\* The date asked from: the last one in the column of the first channel.
LastDate(d) ==
  LET dates == {t \in Past..Future : <<d, 1, t>> \in cells}
  IN IF dates = {} THEN Past ELSE CHOOSE t \in dates : \A u \in dates : u <= t

\* The rows at some positions of the log of d, in their order there.
RowsAt(d, positions) ==
  {[k \in DOMAIN p |-> log[d][p[k]]] :
     p \in {q \in UNION {[1..n -> positions] : n \in 0..Len(log[d])} :
               /\ Range(q) = positions
               /\ \A j, k \in DOMAIN q : j < k => q[j] < q[k]}}

\* What a device answers (external, an assumption): the rows from that date on, or its log
\* from the first such row on; the whole log if it is asked for all.
Answers(d, from) ==
  LET since == {n \in DOMAIN log[d] : log[d][n] >= from}
      behind == {n \in DOMAIN log[d] : \E k \in since : k <= n}
  IN RowsAt(d, IF from = Past THEN DOMAIN log[d] ELSE since) \union RowsAt(d, behind)

\* The rows that fit into the buffer, up to the first unreadable date.
Readable(answer) ==
  LET ends == {n \in 0..Len(answer) : /\ n <= BufRows
                                      /\ \A k \in 1..n : answer[k] # Unreadable}
  IN SubSeq(answer, 1, CHOOSE n \in ends : \A m \in ends : m <= n)

\* Mutated: one channel after the other.
ValuesByChannel(dates) == [k \in 1..(Channels * Len(dates)) |->
                             <<((k - 1) \div Len(dates)) + 1, dates[((k - 1) % Len(dates)) + 1]>>]

\* Row by row, and in a row channel by channel.
Values(dates) == [k \in 1..(Channels * Len(dates)) |->
                    <<((k - 1) % Channels) + 1, dates[((k - 1) \div Channels) + 1]>>]

GetDeviceData == /\ pc = "fetch"
                 /\ \E answer \in Answers(cur, LastDate(cur)) :
                      paket' = Values(Readable(answer))
                 /\ pc' = "save"
                 /\ UNCHANGED <<container_vars, due, cur, cells, device_vars, history, nevent>>

\* The query for the last date fails: everything is asked for again.
GetDeviceDataAgain == /\ pc = "fetch"
                      /\ Event
                      /\ paket' = Values(Readable(log[cur]))
                      /\ pc' = "save"
                      /\ UNCHANGED <<container_vars, due, cur, cells, device_vars, history>>

GetDeviceDataFails == /\ pc = "fetch"
                      /\ Event
                      /\ pc' = "clock"
                      /\ UNCHANGED <<container_vars, due, cur, paket, cells, device_vars,
                                     history>>

\* The value that is stored next.
NextValue == <<cur, Head(paket)[1], Head(paket)[2]>>

\* INSERT if SQLCellExists finds no row of that date, else UPDATE of all its
\* rows; a query that fails only leads to a second row.
SaveValue == /\ pc = "save" /\ paket # <<>>
             /\ cells' = cells \union {NextValue}
             /\ paket' = Tail(paket)
             /\ UNCHANGED <<container_vars, due, pc, cur, device_vars, history, nevent>>

\* An INSERT or UPDATE that fails is counted as a success.
SaveValueFails == /\ pc = "save" /\ paket # <<>>
                  /\ Event
                  /\ refused' = refused \union {NextValue}
                  /\ paket' = Tail(paket)
                  /\ UNCHANGED <<container_vars, due, pc, cur, cells, device_vars, skewed>>

Saved == /\ pc = "save" /\ paket = <<>>
         /\ pc' = "clock"
         /\ UNCHANGED <<container_vars, due, cur, paket, cells, device_vars, history, nevent>>

-----------------------------------------------------------------------------
(* Between two scans *)

Without(d) == LET n == CHOOSE k \in DOMAIN ldc : ldc[k] = d
              IN SubSeq(ldc, 1, n - 1) \o SubSeq(ldc, n + 1, Len(ldc))

\* LDCremove; the memory of the device itself is kept.
Remove(d) == /\ pc = "loop" /\ d \in Range(ldc)
             /\ ldc' = Without(d)
             /\ container' = (Without(d) # <<>>)
             /\ dcPtr' = IF dcPtr = d THEN Gone ELSE dcPtr
             /\ lastDevice' = IF lastDevice = d THEN Gone ELSE lastDevice
             /\ UNCHANGED <<due, pc, cur, paket, cells, device_vars, history, nevent>>

\* LDCgetDeviceByAddress and LDCgetDeviceById: LDCinit if there is no container
LookUp == /\ pc = "loop" /\ ~container
          /\ container' = TRUE /\ dcPtr' = NULL
          /\ UNCHANGED <<ldc, lastDevice, due, pc, cur, paket, cells, device_vars,
                         history, nevent>>

\* LDCadd; a new device is set up before the scan goes on.
Register(d) == /\ pc = "loop" /\ d \notin Range(ldc)
               /\ container
               /\ Event
               /\ ldc' = Append(ldc, d)
               /\ UNCHANGED <<container, dcPtr, lastDevice, due, pc, cur, paket, cells,
                              device_vars, history>>

\* A command gives the logger of d another interval.
ChangeMint(d) == /\ pc = "loop" /\ d \in Range(ldc)
                 /\ Event
                 /\ dev' = [dev EXCEPT ![d].mint = FALSE]
                 /\ UNCHANGED <<container_vars, due, pc, cur, paket, cells, log, history>>

Tick == /\ pc = "loop" /\ ~due
        /\ due' = TRUE
        /\ UNCHANGED <<container_vars, pc, cur, paket, cells, device_vars, history, nevent>>

-----------------------------------------------------------------------------
(* Devices and power (external), and the start *)

\* A device logs a row; bound: one for each date.  A row logged in another step
\* of the scan is seen by the same requests as one logged in these.
Record(d) == /\ Len(log[d]) < MaxDate
             /\ pc = "loop" \/ (pc = "save" /\ paket = <<>>)
             /\ \E t \in Unreadable..Future :
                  /\ IF dev[d].clock THEN t = Len(log[d]) + 1 ELSE t \notin Date
                  /\ log' = [log EXCEPT ![d] = Append(@, t)]
             /\ UNCHANGED <<container_vars, due, pc, cur, paket, cells, dev, history, nevent>>

DeviceRestarts(d) == /\ Event
                     /\ dev' = [dev EXCEPT ![d].clock = FALSE]
                     /\ skewed' = skewed \union {d}
                     /\ UNCHANGED <<container_vars, due, pc, cur, paket, cells, log, refused>>

Crash == pc # "down" /\ Down /\ Event

\* LDCloadDevices
Restart == /\ pc = "down"
           /\ pc' = "loop" /\ due' = TRUE
           /\ ldc' \in {s \in [DOMAIN ldc -> Range(ldc)] : IsInjective(s)}
           /\ UNCHANGED <<container, dcPtr, lastDevice, cur, paket, cells, device_vars,
                          history, nevent>>

Scan == \/ Pick \/ SetCycleModeOff \/ SetCycleModeOn \/ DeviceSetDatetime \/ SetLoggerMint
        \/ GetDeviceData \/ GetDeviceDataAgain \/ GetDeviceDataFails
        \/ SaveValue \/ SaveValueFails \/ Saved

Next == \/ Scan \/ PickFaults \/ LookUp \/ Tick
        \/ \E d \in Dev : Remove(d) \/ Register(d) \/ ChangeMint(d)
        \/ \E d \in Dev : Record(d) \/ DeviceRestarts(d)
        \/ Crash \/ Restart

Spec == Init /\ [][Next]_vars

\* The main loop goes on and time passes; nobody has to restart the gateway.
FairSpec == Spec /\ WF_vars(Scan) /\ WF_vars(Tick)

-----------------------------------------------------------------------------
(* Properties *)

\* The next fetch starts at the last date of the first channel.  No value lies
\* behind it that is missing in any channel, wherever a scan was interrupted; a
\* statement that fails costs the one value it stores.
NoGap == \A d \in Dev \ skewed :
           \A n \in DOMAIN log[d] : log[d][n] < LastDate(d) =>
             \A c \in Channel : <<d, c, log[d][n]>> \in cells \union refused

\* Devices that lost their clock, or a value of which was refused.
Damaged == {v[1] : v \in refused} \union skewed

\* Every row stays once it is complete, and rows become complete in order.
Archive == INSTANCE DataLog WITH
  recorded <- {r \in Dev \X Date : r[2] \in Range(log[r[1]])},
  archived <- {r \in Dev \X Date : /\ r[2] \in Range(log[r[1]])
                                   /\ \A c \in Channel : <<r[1], c, r[2]>> \in cells},
  damaged <- Damaged
ImplementsArchive == Archive!Spec

\* A request, or only its answer, that is lost leaves a device with its cycle
\* mode off or a clock or interval that is wrong.  The round robin comes back to it:
\* a gateway that stays up has it as wanted again and again, or deletes it.
SettingsArrive ==
  \A d \in Dev : []<>\/ pc = "down" \/ d \notin Range(ldc)
                     \/ dev[d] = [cycle |-> TRUE, clock |-> TRUE, mint |-> TRUE]

\* What a device has logged is again and again in the table, in all channels, if the
\* gateway stays up, however often it was down before.
ValuesArrive ==
  \A d \in Dev : []<>\/ pc = "down" \/ d \notin Range(ldc) \/ d \in Damaged
                     \/ \A t \in Range(log[d]), c \in Channel : <<d, c, t>> \in cells
=============================================================================

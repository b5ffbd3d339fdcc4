# A TLA+ verification project for lielas

lielas collects the values of wireless IPv6 data loggers and presents them in
a web interface. This directory holds TLA+ models of its core logic, TLC
configurations that check them on small instances, and TLAPS proofs of their
main properties for every value of the constants. Line numbers refer to the
commit beside which this directory lives.

- [Inventory](#inventory): the parts of the system and their hard behaviours
- [Modules](#modules): how the models correspond to the code
- [Runs](#runs): what each check shows, its bounds and fairness
- [Proofs](#proofs): what is proved and how
- [What is not modelled](#what-is-not-modelled)
- [Plan](#plan)

To repeat a check: `tlc -config Lbus.cfg MCLbus.tla`; a proof:
`tlapm LbusProofs.tla`.

## Inventory

Three programs share one PostgreSQL database and one machine:

- **liegw** (`liegw/src`, C): the gateway daemon. It talks CoAP to the devices
  of the radio network and serves CoAP to the web interface.
- **ipchanger** (`ipchanger/src/main.c`, C): a helper that liegw runs with
  root rights to rewrite the network configuration of `eth0`.
- **lieweb** (`lieweb/src`, Java): the web interface. It reads and writes the
  database directly and sends *lbus commands* to liegw over CoAP.

liegw has two threads. The **main thread** starts everything
(`liegw.c:50-163`) and then loops for ever: it handles one lbus command, looks
for new devices (once a minute) and fetches data. The **CoAP thread**
(`COAPhandleServer`) answers requests for `rtc`, `runmode` and `lbus`. They share
the list of lbus commands, the run mode with its timer, the clock state, and the
database connection.

| part | state | operations | modelled in |
|---|---|---|---|
| command bus, `lbus.c` | list `lbuscon`, one cursor `lbusconPtr`, a mutex, `netTypeChanged`, table `lbus` | add, remove, load, handle one command per lap; `del`, `chg`, `login` | `Lbus` |
| CoAP server, `coapserver.c` | resources, observers | GET and PUT of `lbus`, GET of `rtc` and `runmode` | `Lbus`, `Clock` |
| registry, `devicecontainer.c` | container `deviceContainer`, cursor `dcPtr`, tables `devices`, `moduls`, `channels` | load at start, scan for new devices, save, delete | `Registry`, `DeviceScan` |
| data acquisition, `devicehandler.c` | `lastDevice`, `nextScan`, table `data` | round-robin fetch of values, storing, clock and interval of a device | `DeviceScan` |
| clock, `rtc/` | `rtc_state`, `oscfailed`, a recursive mutex, the chip | set the system time from the chip or the network, set the date | `Clock` |
| requests to devices, `mycoap.c` | `optlist`, `ready`, the caller's buffer | one blocking request with attempts and blocks | `MyCoap` |
| settings change: `OptionsScreen`, `SQLHelper`, `changeNetType`, `ipchanger` | settings `NET_*`, `NET_NEW_*`, `interfaces`, `interfaces.bak`, `resolv.conf` | apply, wait for a relogin, keep or reset | `NetChange` |
| lbus client, `CoapHelper`, `LBusReceiver`, `LBusSender` | `recvState`, `payload` | send a command, poll for an answer | `CoapClient`, `NetChange` |
| jCoAP, `org/ws4d/coap` | send buffer, timers, `timeoutConMsgMap` | transmit, retransmit, confirm, call back | `CoapClient` |
| run mode, `devicehandler.c:701-784` | `runmode`, `endRegModeTimer` | set, end by timer | no: it never changes |
| text: `lwp.c`, `jsmn.c`, `settings.c`, `log.c` | none over time | parsers and formatters | no |

The behaviours that are hard here, each listed with its line under "hazards" in
`PROJECT.json`:

- **One cursor, two threads.** The list functions move the shared cursor under
  the mutex but read through it after the unlock; requests walk the list with no
  lock between two commands; `lbus_remove()` leaves the cursor on freed memory.
- **Crashes between statements.** Nothing is a transaction. A command, a device
  or a setting is written by several statements, and a restart sees any prefix.
- **A commit protocol with a human in it.** New network settings are applied,
  then kept if somebody logs in under them within ten minutes, else taken back.
  Logins, several changes, power failures and the timer race each other, and the
  state that decides (`netTypeChanged`, `tmnexthandle`) is not stored.
- **Pointers that outlive their object**: `lastDevice` and `dcPtr` point to devices
  that a command may have deleted since the last lap.
- **An archive without transactions**: values are stored one by one, and the next
  fetch starts at the last date of the first channel.
- **Transfers that fail unnoticed**: the chip of the clock is read and written by
  a helper program whose result nobody looks at.
- **Messages without identity**: requests to devices have no token, blocks are
  appended without a look at their number, options of one request survive into
  the next; the web interface's helper clears an answer that came too soon.
- **Waiting**: the clock's mutex, which one error path keeps, the lbus client's
  polling, the starvation of commands by requests.

What makes each part correct: the *bus* loses no accepted command, repeats no
handled one, and serves what can be served; the *settings change* keeps only what
was confirmed and otherwise comes back to what was confirmed; the *registry* and
its tables agree, and a device is registered once and completely; *acquisition*
skips no value, stores rows in order, and comes back to every device; the *clock*
agrees with its chip, and no data are acquired without a time; a *request* gets
its own, complete answer or an error, and returns.

## Modules

| module | models |
|---|---|
| `CommandBus` | abstract: what the lbus promises the web interface |
| `CommandBusProofs` | proofs about `CommandBus` |
| `Lbus` | `lbus.c` and the lbus resource of `coapserver.c` |
| `LbusProofs` | proofs about `Lbus`, and that it implements `CommandBus` |
| `NetChange` | the network settings change across lieweb, liegw, ipchanger |
| `NetChangeProofs` | proofs about `NetChange` |
| `Registry` | registration, loading and deletion in `devicecontainer.c`, `lbus.c` |
| `RegistryProofs` | proofs about `Registry` |
| `DataLog` | abstract: what the acquisition of data promises |
| `DeviceScan` | `devicehandler.c`, the cursor of the container, table `data`; implements `DataLog` |
| `DeviceScanProofs` | proofs about `DeviceScan`, and that it implements `DataLog` |
| `Clock` | `rtc/`, the start and the two modes of `liegw.c`, GET of `rtc` |
| `ClockProofs` | proofs about `Clock` |
| `MyCoap` | `coap_send_cmd()` in `mycoap.c` over libcoap and UDP |
| `MyCoapProofs` | proofs about `MyCoap` |
| `CoapClient` | `LBusReceiver`, `LBusSender`, `CoapHelper` over jCoAP |
| `CoapClientProofs` | proofs about `CoapClient` |
| `MC*` | instances for TLC |

Definitions under the comment "Mutated" are the wrong variants that `PROJECT.json`
lists as mutants: substituted for the definition that follows them, each makes
TLC find the property violated that it belongs to. No specification uses them.

### CommandBus and Lbus

`CommandBus` knows rows of a durable table (absent, empty, pending, handled),
whether the process runs, and the set of commands it still has to visit. `Lbus`
has the list (`queue`), the cursor, the static `cmd` of `lbus_handler()`
(`visiting`), the times `tmnexthandle`, and the positions of both threads.

The handler's lap is one step, since it holds the mutex from its first to its
last line, except for the walk of `handleLoginCmd()`: there every command is a
step, because the CoAP thread can still read through the cursor, without the
mutex, in between. The CoAP thread takes the mutex once per list operation:
`PutCreate`, `PutAdd`, `WalkFirst`, `PrintThenNext` are the locked parts,
`ReadCursor` and `ReadFaults` the reads after the unlock.

A freed container is modelled by what may still be read in it, the link to its
successor. A read through freed memory is a choice between the two things the
build does: the old contents are still there, or the process dies
(`StaleLink`, `ReadFaults`). The kinds of command are the classes the dispatch
tells apart; "stuck" are those the code never marks handled, "two" is a payload
that names a device and the clock, after whose first half the loop of
`handleChgCmd()` goes on with the freed command.

### NetChange

Four actors: sessions of the web interface, the main thread inside
`changeNetType` and `handleLoginCmd`, ipchanger (which the main thread waits
for, so that it is part of the same thread of control), and the power. The six
settings are three: type, address (with mask and gateway) and name servers.
Each UPDATE and each file operation of ipchanger is a step. Since requests move
the cursor of the list, any command in the list may be visited next
(`Lbus` shows that the cursor may be anywhere in it). The kept settings are read
again on the second visit, as the code does, and written row by row (`Keep`).
With `Faulty` every SQL statement and every step of ipchanger may fail; a query that
fails leaves the buffer of the settings as it was, with what an earlier call has read or
with nothing that is a setting (`GetSettings`).
`IfUp` is `ifup eth0`: for dhcp it starts dhclient (external), which writes
`resolv.conf` (`"lease"`); this is why `changeNetType` sets no name servers for dhcp
(`lbus.c:931-939`). A `Reboot` loads the commands in any order, as the query has no
ORDER BY. `via` and `confirmed` are history: the settings over which a message was sent,
and the interfaces file at the last login handled.

### Registry

One thread, one crash at any point. The scan reads a routing table (with
repetitions), skips known addresses, returns on the first request that fails
(`GiveUp`) and saves a device by `SaveNewDevice`, per modul `SaveModul` and
`LinkModul`, per channel of it `SaveChannel` and `LinkChannel`, and `SaveWKC`, one
statement each. A deletion goes the other way: channels, their modul, the
device. Numbers are the highest in use plus one, so that those of deleted rows
at the top are given out again. `Load` reads the rows in any order, as the query
has no ORDER BY, and stops at the first row without a description. `LoadFaults`
is the process dying in `loadModuls()` or `loadChannels()` when a number that is
listed is missing in its table. `torn` is history: a crash interrupted a deletion.
After that, with a further crash, numbers of deleted moduls are given to another
device while the row that was left still lists them, and the container is loaded with
both; `ModulsAreOwned`, `MemoryIsStored` and the channels of `AcceptedIsComplete`
are therefore stated as long as no deletion was interrupted.

### DataLog and DeviceScan

`DataLog` knows what devices have logged and what of it is in the table: rows
arrive whole and in order and stay. `DeviceScan` has the positions of
`HandleDevices()` as `pc`; each request to the device, each value stored and each
step between two laps is an action. Requests (`Request`) are answered, or carried
out without an answer, or lost; coap's own repetitions are inside, see `MyCoap`.
`Answers` is what a device may send: from the date asked for on, its rows in the order
of the log (`RowsAt`). That the device includes the row of that date is an assumption
about devices, whose program is not in the repository; `NoGap` rests on it. Rows with wrong dates (`Past`, `Future`, `Unreadable`) are those of a
device that lost its clock. `Readable` is the part of an answer that fits the
buffer and parses. `SaveValue` is one query for the row of the date and one INSERT or
UPDATE; no other thread writes the table, so that both are one step. A query that
fails leads to a second row of the same date, which adds nothing to what is in the
table (`cells`); a statement that fails is counted as a success (`SaveValueFails`),
and its value is in `refused`.

`Gone` stands for a pointer to a freed device or container. `Remove` follows
`LDCremove()`, which frees the container itself with its last device; `LookUp` is
the next `LDCinit()`. A lap in between reads the freed container: `Pick` with the
old contents, or `PickFaults`. `cells` are the values in the table. `refused` (values)
and `skewed` (devices that lost their clock) are history.

### Clock

The main thread (`rtc_init()`, then one of the two loops of `main()`, then
`rtc_set_dt()` for a command) and the CoAP thread (`rtc_get_state_text()`) share
`rtcmutex`. `locks` counts how often the main thread holds it; it is recursive.
`rtc_set_dt()` returns without unlocking when the command `date` fails
(`rtc.c:161`, `DateFails`). A transfer to the chip fails without notice, as
`a10i2c.c` only looks at whether its helper could be started: `ReadTime` and
`WriteTime` then read, or leave behind, anything. `rtc4162_set()` makes two
transfers, the time (`WriteTime`) and, if the oscillator had failed, the flag
(`ClearFlag`), with a step between them in which the gateway may crash. `FlagsAgain`
and `NtpReadBack` are the second `rtc4162_init()` and `rtc4162_get()` of a start
that took the time from the network; both transfers may fail.

`Times` are times that pass `testdt()`, `Other` are dates that do not but that
`strptime()` accepts in a command (`lbus.c:1016`), which hands them on unchecked. The
chip keeps the year as two digits counted from 2000 (`rtc4162.c:146`), so that 1999
is stored as 2095: what the registers hold after such a date is any date (`Stored`).
The sets are not ordered: a clock that runs on, or whose seconds are cleared with the
oscillator's flag, is still "the time it was set to". `PowerFails` takes the
system's time, and with the battery the chip's. `faulty`, `dateFailed` and `kept`
are history.

### MyCoap

A call makes attempts; `Send` opens a socket and sends `optlist`, the options
collected so far (also those an attempt that failed early left behind).
`ReceiveMore`, `ReceiveLast`, `ReceiveError`, `ReceiveChanged` (a 2.xx without content,
which ends the attempt as if it had failed) and `ReceiveReset` (ignored) are the
branches of `message_handler()`; devices may send any of these (`Serve`,
`ServeWithout`). A device is taken to answer in the acknowledgement of a request:
libcoap's queue is then empty after the first answer, so that `coap_can_exit()`
(`mycoap.c:625`) never keeps a call that is ready. `Silence` is the select that times out, and ends an attempt.
`net` holds requests and answers; opening a socket removes answers to the old
one. Messages are lost, repeated (`dup`) or late. `new` of a block tells whether
it was made for the present call.

### CoapClient

Per request a thread that asks and a worker thread with a socket, as in the code:
`SendMessage`, `ClearPayload` and `Get` are the asking thread, in the order of
`CoapHelper.send()` and `LBusReceiver.get()`; `SendBufferedMessages`, `Receive`,
`Respond`, `Retransmit`, `LostConnection` and `TimerOfConfirmed` the worker.
`onResponse()` is two steps, the payload and then the state, since the other
thread reads between them. The gateway answers in the acknowledgement: the handlers of
`coapserver.c` only fill the response that libcoap has made for it. The worker's
branches for a separate answer (`BasicCoapSocketHandler.java:259-274`), an empty
acknowledgement and a reset (`:296-335`) are therefore never taken and not in
`Receive`. `MaxSockets` is a limit of the process: the sockets are
never closed.

## Runs

| run | constants | shows |
|---|---|---|
| `lbus` | 3 rows, all 7 kinds | list = pending rows; cursor; reservation; rows final; refinement; service |
| `net` | 2 sessions, 1 address, 2 changes, 4 messages, 1 power failure | the flag is cleared only over confirmed settings; kept settings are those in force; a single change is reset; the gateway comes back by itself |
| `net_faults` | as `net`, failing steps | settings are kept only in a login's walk |
| `net_reset` | 2 sessions, 2 addresses, 4 messages, 2 changes, 1 power failure | *violated:* a reset goes back to confirmed settings |
| `net_dns` | 1 session, 2 addresses, 4 messages, 2 changes | *violated:* a reset from one static address to another restores the name servers |
| `net_relogin` | 2 sessions, 2 addresses, 4 messages, 1 change | *violated:* the login that ends the wait came over the new settings |
| `registry` | 2 addresses, 2 moduls of 2 channels, routing tables of 2, 2 crashes | loaded rows are complete; moduls and channels have one owner; memory and tables agree; once without a crash |
| `registry_once` | as `registry` | *violated:* an address is registered once |
| `scan` | 2 devices of 2 channels, answers of 2 rows, 3 dates, 1 fault | no gap before the last date; refinement of `DataLog`; settings and values arrive |
| `clock` | 2 times, 1 date the chip does not hold, 5 events | a time in normal mode; chip and system agree; set once is enough; who waits for the mutex |
| `mycoap` | 2 resources of 1 and 3 blocks, buffer of 4, 3 attempts, 5 faults or answers without content | complete, exact and own content; calls return; options left behind are shed |
| `client` | 2 gets, 1 command, 1 socket, 2 transmissions, 4 faults | a success stays; errors are explained; `get()` returns |

**Why the bounds are enough.** Three rows give a list with a first, a middle and
a last container, the three cases `lbus_remove()` distinguishes besides the only
one, and a reader, a removed and a newly added command at the same time. Two
changes with four messages give two logins and two changes, so that one walk can
keep a change and apply another, and a second change can come before, while and
after the first waits; one power failure can fall between any two steps. With one
address there are still two types, name servers and the settings they make
together, which is what `net` needs to tell old from new; the counterexamples
have two addresses because they are shorter to read so; `net_dns` needs two, and two
changes, since a static address must be confirmed before another one is taken back. Two
devices with two
moduls of two channels give rows before and behind a broken one; two crashes give
a crash, its recovery, and a crash during that. In `scan` two devices make the
round robin, its end and its restart after a deletion; two channels are the least
in which a row can be half stored; an answer of two rows of three makes a second
fetch necessary; one fault, of any kind, anywhere, is what the state space allows
(about 490 000 states), and every fault named in the hazards shows within it. In
`clock` five events are a failing transfer, a command, its failure, a power failure
and one more. In `mycoap` one resource fits into one answer, the other needs a
first, a middle and a last block; a buffer of four overflows when blocks are
repeated. In `client` two transmissions make an answer to the first race the timer
of the second, and one socket is one too few for three requests.

`MaxId`, `MaxSent`, `MaxNet`, `MaxReboot`, `MaxRoutes`, `MaxDev`, `MaxMod`, `MaxChan`, `MaxDate`
and `MaxEvents` are bounds of the models only; the program has none of them. The
theorems hold for all their values. `Addresses` and `Sessions` are symmetric in the
runs that have no liveness property.

**Fairness.**

- `Lbus` assumes that the main loop goes on calling `lbus_handler()`
  (`liegw.c:172-196`) and that time passes. The handler blocks in two places: while
  ipchanger runs, which terminates, and on the clock's mutex; that the latter does
  not stop the main thread is `DateIsHandled` of `Clock`. Nothing is assumed of
  clients, of the CoAP thread, or that anyone restarts a dead process.
  `QuietBusServesAll` has the premise that the clients are quiet from some point on:
  every walk of a request resets the handler's cursor, and without the premise
  requests can starve commands.
- `NetChange` assumes the same of the main loop, that ipchanger terminates, and
  that time passes; nobody has to log in.
- `DeviceScan` assumes weak fairness of the scan's steps and of the time of the next
  one, because one thread runs them in a loop. It assumes nothing of devices or of
  restarts: a gateway that stays down is an excuse in both liveness properties.
- `Clock` assumes weak fairness of the start and of the answer, and strong fairness
  of taking the mutex, for either thread: a thread that waits on a pthread mutex
  gets it if it is free again and again, which holds for the short critical
  sections here, though POSIX promises it for some schedulers only.
- `MyCoap` assumes that `select()` returns, for a message or after two seconds. It
  does not assume that any message arrives.
- `CoapClient` assumes that its threads run and its timers expire, for each request
  on its own; nothing of the network.
- `Registry` has no liveness property.

**Deadlock** is checked in all runs but two. In `clock` the CoAP thread may wait
for ever on the mutex that `rtc_set_dt()` keeps, and with the events used up no
step is left: what this may stop and what not is said by `GetIsAnswered` and
`DateIsHandled`. In `client` all requests come to an end.

**What `clock` says about the kept mutex.** A GET of `rtc` is answered as long as no
command `date` has failed (`GetIsAnswered`); after that the CoAP thread hangs, and
with it the whole CoAP server. The main thread is not affected, because the mutex
is recursive (`DateIsHandled`). No document promises more, so this is a hazard and
not listed as a disagreement.

### Disagreements with comments

1. `net_reset`: `save_backup()` always overwrites `interfaces.bak`. After a power
   failure while a change is being applied the command is visited as if for the
   first time, the change is applied again, and the backup is now the change
   itself. Likewise when a second change is applied before the first is
   confirmed. Against `lbus.c:65`.
2. `net_dns`: `ipchanger restore` leaves `resolv.conf` as the change wrote it. With
   static settings before and after the change nothing rewrites it, so that the reset
   restores the address but not its name servers; settings with dhcp are not affected,
   since dhclient writes the file when `ifup` starts it. Against `lbus.c:65`.
3. `net_relogin`: any login that stands in the list confirms a change, also one
   sent over the old settings while ipchanger was running. Against `lbus.c:64`.
4. `registry_once`: after a crash in the middle of a registration
   `LDCloadDevices()` stops at the incomplete row, and the scan registers that
   device and those behind it again. Against `devicecontainer.c:983`.

What holds in spite of this: the stored *standard* settings are only ever set by
a login's walk (`KeptOnlyAtLogin`, with all failures), and without failing steps
the flag is cleared only over confirmed settings (`FlagMeansConfirmed`), whatever
the order of changes, logins and power failures.

## Proofs

All proofs are by an inductive invariant `IInv`, with the steps
`Init => IInv`, `IInv /\ [Next]_vars => IInv'` (one step per action) and
`IInv => Inv`, combined by PTL.

**CommandBusProofs**: `NothingIsLost` and `PromiseIsKept`, for every `MaxId`. By
the refinement they say of `lbus.c` that no accepted command is lost and no
handled one comes back, whatever threads, crashes and restarts do.

**LbusProofs** assumes `MaxId \in Nat \ {0}` and `Kind \subseteq AllKinds`. That the
list is the set of pending rows is not inductive alone: removing the command at
the cursor needs that the cursor names a queued command, which needs the cursor
after a removal (`CursorIsUsable`), and adding one needs that the row under
construction is not yet in the list (`ReservationIsFresh`). The invariant joins
these with the positions of the two threads (the CoAP thread has a row exactly
while it builds a command; the walk of a login stands on a queued command while
it visits one). Theorems: `TypeCorrect`, `ListMatchesTable`, `CursorStaysUsable`,
`ReservationStaysFresh`, `RowsStayFinal` (an action property, from the same
invariant), and `Refinement`: every step of `Lbus` is a step of `CommandBus` or
leaves its variables alone, with `serving` mapped to the range of the list.

**NetChangeProofs** assumes `NetChangeAssumption`. For `KeptOnlyAtLogin` the
invariant must follow the walk: while a walk stands at position *n* with the flag
cleared, no command before *n* waits, and a change that the walk applies sets the
flag again. `FlagMeansConfirmed` additionally needs that steps do not fail
(`~Faulty`): an ipchanger that fails after writing the file leaves the flag as it
was. It holds that assumption in its statement.

The second half of the module is about a *single* change without a power failure.
`StandardIsInForce` and `OneGoesBack` need to know where that change is: being typed in
by a session, on its way, in the list, waiting there for its second visit, or being
applied, kept or reset (`InOnePlace`); what the files hold meanwhile (`FilesOfOne`, with
failing steps too); and, if nothing fails, that the settings stay the delivered ones
until the change is kept and nobody alters those that were read before they are read
again (`SettingsOfOne`). `InvarianceOfOne` proves these together with the types. That the
premises cannot be dropped is what `net_reset` shows.

**RegistryProofs** assumes `RegistryAssumption`, for every number of addresses, moduls,
channels and crashes. None of the five invariants of the run is inductive. `Memory`
says which devices of the container have a row of their own with a description: all
but the one being saved. `Progress` says how far that one has come, statement by
statement: which of its moduls and channels are in the tables and which of these are
listed. `ModulRows`, `ChannelRows`, `Complete` and `Stored` relate the three tables
and the container, with exceptions for a deletion under way; they hold until a
deletion is interrupted. `Once` says that before the first crash every row has a
device in memory, which is why the scan, that only looks into memory, finds it.

**DeviceScanProofs** assumes `ScanAssumption`, for every number of devices, channels,
dates, faults and rows that fit into an answer. `NoGap` is not inductive: whether a value
that is stored leaves a gap depends on what was read before. `Ahead` says that what
comes before a waiting value, in an earlier row or in an earlier channel of its row, is
in the table, was refused (`Settled`) or waits before it; `Complete` that a date in the first channel has all
earlier dates complete; `LogsInOrder` that a device that never lost its clock has its
dates one after the other; `FromLogs` that only what was logged is stored or waits.
When an answer arrives, `Complete` gives what is left out of it, because the date asked
from is in the first channel, and the order of `Values` (row by row, `ValuesEffect`) gives
`Ahead` for what is in it (`AnswerAhead`); the answer may be cut anywhere
(`ReadableEffect`). A crash forgets what waits, which leaves `Complete` alone. From there
`NothingIsSkipped` is a consequence, and `Refinement` maps each step: a row that is
recorded is `Log`, the value that makes a row complete is `Archive`, with everything
before it archived by `Ahead`; a refused statement or a lost clock is `Damage`; all other
steps stutter.
The last date and the longest readable beginning are greatest elements of finite sets of
integers: `GreatestBelow` derives them from the least element of a set of naturals
(`LeastNatural`), and that from the well-foundedness of `<` in the library.

**ClockProofs** assumes `ClockAssumption`. `NormalModeHasTime` needs to know where a
time comes from at each position of the start (`TimeIsSet`). `ClocksAgree` is not
inductive: between the write to the chip and the command `date` the three copies
(`dt`, chip, system) differ, and `InStep` says which pair agrees where, and that the
system's time is never `Junk` without a fault; from the write to the chip to the command
`date` the chip holds `dt`, unless `dt` is one of `Other`. `SetOnceIsEnough` needs `SetOnce`: as
long as nothing failed, a flag OF that is set in the chip is known to the process
(`oscfailed`), so that whoever sets the chip also clears the flag; the chip counts as
set (`kept`) after the second transfer only. That
`rtc_set_dt()` holds the mutex at most once per command bounds `locks`.

**MyCoapProofs** assumes `CoapAssumption`, for every number and size of resources,
buffer and attempts. `Attempts`: opening a socket drops what was under way, so that
all that is under way in an attempt carries its options, and its answers are to
this call. `BlocksBefore`: a request or an answer for block *n* implies that the
buffer has the blocks before *n*; this survives repetition, since a block that is
repeated only adds one that is there. For `ContentIsExact`, `OneUnderWay` adds
that without repetition a single message is under way and the buffer holds exactly
the blocks before it.

**CoapClientProofs** assumes `ClientAssumption`. `Order` says that nothing is under way
or confirmed before the first transmission, `Confirmed` that an answer is taken out
of `timeoutConMsgMap` before it is reported and that a failure was reported only
after all transmissions: therefore no timer finds a request that was answered
(`SuccessIsFinal`), and an error has one of its two causes (`ErrorIsExplained`).

Model-checked only: all liveness (`QuietBusServesAll`, `ComesBack`, `SettingsArrive`,
`ValuesArrive`, `GetIsAnswered`, `DateIsHandled`, `CallReturns`, `WorksAgain`, `GetReturns`),
which is beyond the prover. Every other property of a passing run, the two refinements
among them, is a theorem.

## What is not modelled

- Text: parsing, formatting, response buffers and their sizes; `lwp.c`, `jsmn.c`.
  Models distinguish what parses from what does not.
- Settings file and log; `deviceevent.c`, which nothing uses.
- Run mode: `lielas_setRunmode()` is called with the normal mode only, and
  `lielas/reghandler.h`, which `liegw.c` includes, is not in the repository. The mode
  never changes and its timer never runs.
- Failing `malloc`; failing SQL statements in `Lbus` and `Registry`.
- `Lbus`: the token that is compared after a command was freed is taken to be
  unreadable or unchanged, as classed by "two"; the extra unlock of the mutex on
  a bad device id (`lbus.c:844`); the case that a rejected PUT's command is never
  freed.
- `NetChange`: a lost message is one that was not sent; a duplicated one is sent
  twice. `ipchanger get` changes nothing.
- `Registry`: devices that report no modul or more than 19, for which the code
  writes behind its arrays; the commands that set a new device up, which are those
  of `DeviceScan`.
- `DeviceScan`: the decoding of a value; answers with more values than the 5000 of
  `dp[]`, for which the code writes behind the array (`devicehandler.c:334`).
- `Clock`: which date a command that the chip cannot hold becomes (`Stored` allows all);
  calendars. Reader and writer count the months of the chip from 0
  (`rtc4162.c:125`, `:145`), so that the chip ends them at the wrong day; a time of
  the model has no month.
- `MyCoap`: separate answers, after which `coap_can_exit()` may keep a call that is
  ready until its queue is empty; the block option of a PUT, which no caller uses; libcoap, whose C files
  are not in the tree, is external.
- `CoapClient`: jCoAP's server side and block-wise transfer, which lieweb does not
  use; separate answers, empty acknowledgements and resets, which the gateway does not
  send; error codes and answers that do not parse; what a virtual machine may make of the missing synchronisation.
- Two threads on one database connection (`sql.c:90`): libpq is not in the tree.
- libpq, Vaadin; the Java event classes, which are not in the repository.

## Plan

Done: `Lbus`, `CommandBus`, `NetChange`, `Registry`, `DataLog`, `DeviceScan`, `Clock`, `MyCoap`
and `CoapClient` with their proofs.

What could come next, in this order:

1. Composition of `CoapClient` with `Lbus` for a repeated PUT: the gateway creates a
   command for each copy it receives.
2. Pure functions: `lwp_compdt_to_struct_tm`, `convertValueWithExponent`,
   `lwp_parse_wkc` against reference definitions on bounded inputs, with integers
   of the code's width.

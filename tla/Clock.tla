-------------------------------- MODULE Clock --------------------------------
(***************************************************************************)
(* The clock of the gateway: liegw/src/rtc/rtc.c over the chip driver      *)
(* rtc4162.c, the start and the two modes of liegw/src/liegw.c, and the    *)
(* thread of the CoAP server, which asks for the state of the clock.       *)
(*                                                                         *)
(* The main thread sets the system's time from the chip.  Without a valid  *)
(* time it runs in a reduced mode, in which only commands are handled,     *)
(* until a command sets the date.  Both threads take a recursive mutex;    *)
(* rtc_set_dt() keeps it when it fails to set the system's time.           *)
(* Transfers to the chip fail without notice, the programs that set the    *)
(* time fail, the gateway crashes, power and the chip's battery fail.      *)
(*                                                                         *)
(* A time stands for all times of a clock that was once set to it: the     *)
(* reset of the oscillator at the start, which changes the seconds, leaves *)
(* it the same.  A command may set every date that strptime() reads, also  *)
(* one that testdt() refuses.  The chip keeps the year in one byte, as two *)
(* digits counted from 2000: 1999 becomes 2095, which testdt() accepts,    *)
(* 2101 stays what it is.                                                  *)
(***************************************************************************)
EXTENDS Integers

CONSTANTS Times,     \* times that pass testdt()
          Other,     \* other dates, as of 1999 or 2101
          Junk,      \* what is no date
          NoTime,    \* no command; a system clock that was not set
          MaxEvents  \* bound: faults, crashes, power failures, requests of the client

ASSUME ClockAssumption == /\ Times # {} /\ Times \cap Other = {}
                          /\ {Junk, NoTime} \cap (Times \union Other) = {} /\ Junk # NoTime
                          /\ MaxEvents \in Nat

VARIABLES
  chip,       \* the time in the chip and its flag OF, oscillator failed
  sys,        \* the system's time
  ntp,        \* the system's time is synchronised over the network
  oscfailed,  \* static of rtc4162.c
  rtc_state,  \* static of rtc.c
  dt,         \* the time a function of rtc.c works on
  locks,      \* how often the main thread holds rtcmutex
  pc,         \* where the main thread is
  mode,       \* the loop of main() it is in
  coap,       \* the CoAP thread: idle, has a GET, holds rtcmutex; "off"
  cmd,        \* the date of a command that is not handled
  nevent,
  faulty,     \* history: a transfer to the chip or the command date failed
  dateFailed, \* history: the command date failed
  kept        \* history: the chip was set to the time it holds, and that is valid

clocks == <<chip, sys, ntp>>
statics == <<oscfailed, rtc_state>>
main == <<dt, locks, pc, mode>>
history == <<faulty, dateFailed, kept>>
vars == <<clocks, statics, main, coap, cmd, nevent, history>>

Dates == Times \union Other

TypeOK == /\ chip \in [time : Dates \union {Junk}, of : BOOLEAN]
          /\ sys \in Dates \union {Junk, NoTime} /\ ntp \in BOOLEAN
          /\ oscfailed \in BOOLEAN
          /\ rtc_state \in {"uninitialized", "running", "not_synced"}
          /\ dt \in Dates \union {Junk} /\ locks \in 0..MaxEvents
          /\ pc \in {"down", "flags", "get", "ntp", "ntpflag", "again", "ntpget", "start",
                     "loop", "set", "flag", "readback", "date"}
          /\ mode \in {"off", "reduced", "normal"}
          /\ coap \in {"off", "idle", "get", "holds"}
          /\ cmd \in Dates \union {NoTime}
          /\ nevent \in 0..MaxEvents
          /\ faulty \in BOOLEAN /\ dateFailed \in BOOLEAN /\ kept \in BOOLEAN

Init == /\ chip \in {[time |-> t, of |-> o] : t \in Dates \union {Junk}, o \in BOOLEAN}
        /\ sys = NoTime /\ ntp = FALSE
        /\ oscfailed = FALSE /\ rtc_state = "uninitialized"
        /\ dt = Junk /\ locks = 0 /\ pc = "flags" /\ mode = "off"
        /\ coap = "off" /\ cmd = NoTime
        /\ nevent = 0 /\ faulty = FALSE /\ dateFailed = FALSE /\ kept = FALSE

Event == nevent < MaxEvents /\ nevent' = nevent + 1
Fault == Event /\ faulty' = TRUE /\ UNCHANGED dateFailed
NoFault == UNCHANGED <<nevent, faulty, dateFailed>>

-----------------------------------------------------------------------------
(* The chip *)

\* rtc4162_init: the flag of the chip is read
ReadFlags == \/ oscfailed' = chip.of /\ NoFault
             \/ oscfailed' \in BOOLEAN /\ Fault

\* testdt
Valid(t) == t \in Times

\* rtc4162_get and testdt: what is read is in dt.  A transfer that fails leaves
\* dt as it was, or anything in it.
ReadTime(valid, invalid) ==
  \/ /\ oscfailed
     /\ dt' = dt /\ pc' = invalid /\ NoFault
  \/ /\ ~oscfailed
     /\ dt' = chip.time /\ pc' = (IF Valid(dt') THEN valid ELSE invalid) /\ NoFault
  \/ /\ ~oscfailed /\ Fault
     /\ \/ dt' = dt /\ pc' = invalid
        \/ dt' \in Times /\ pc' = valid
        \/ dt' \in Other \union {Junk} /\ pc' = invalid

\* What the registers of the chip hold after t was written to them.  A date before
\* 2000 can become one that is valid.
Stored(t) == IF Valid(t) THEN {t} ELSE Dates

\* rtc4162_set, first transfer: the time is written, next is OF if it was set at the
\* last start.  The caller does not ask whether that worked.
WriteTime(t, flag, done) ==
  \/ \E s \in Stored(t) :
       /\ chip' = [chip EXCEPT !.time = s]
       /\ kept' = (Valid(s) /\ (oscfailed => kept))
       /\ pc' = (IF oscfailed THEN flag ELSE done)
       /\ NoFault
  \/ \E s \in Stored(t) \union {chip.time, Junk} :
       /\ chip' = [chip EXCEPT !.time = s]
       /\ kept' = FALSE
       /\ pc' \in (IF oscfailed THEN {flag, done} ELSE {done})
       /\ Fault

\* Mutated: does not clear the flag OF.
FlagStays(flag, done) == /\ pc = flag
                         /\ kept' = Valid(chip.time) /\ NoFault
                         /\ pc' = done
                         /\ UNCHANGED <<clocks, statics, dt, locks, mode, coap, cmd>>

\* rtc4162_set, second transfer: OF is cleared in the chip, oscfailed stays.
ClearFlag(flag, done) ==
  /\ pc = flag
  /\ \/ chip' = [chip EXCEPT !.of = FALSE] /\ kept' = Valid(chip.time) /\ NoFault
     \/ chip' \in {chip, [chip EXCEPT !.of = FALSE]} /\ kept' = FALSE /\ Fault
  /\ pc' = done
  /\ UNCHANGED <<sys, ntp, statics, dt, locks, mode, coap, cmd>>

-----------------------------------------------------------------------------
(* The start: rtc_init *)

InitFlags == /\ pc = "flags"
             /\ ReadFlags
             /\ pc' = "get"
             /\ UNCHANGED <<clocks, rtc_state, dt, locks, mode, coap, cmd, kept>>

\* A process that ends; what it held in memory is gone.
Ends == /\ pc' = "down" /\ mode' = "off" /\ coap' = "off"
        /\ locks' = 0 /\ dt' = Junk /\ oscfailed' = FALSE /\ rtc_state' = "uninitialized"

\* rtc4162_init returns -1 and with it main().
InitFails == /\ pc \in {"flags", "again"}
             /\ Ends /\ Fault
             /\ UNCHANGED <<clocks, cmd, kept>>

InitGet == /\ pc = "get"
           /\ ReadTime("start", "ntp")
           /\ UNCHANGED <<clocks, statics, locks, mode, coap, cmd, kept>>

\* The rest of the start, to one of the two loops of main().
Started(m) == pc' = "loop" /\ mode' = m /\ coap' = "idle"

\* No time at all.  A stale errno has the same effect.
NotSynced == /\ pc = "ntp"
             /\ rtc_state' = "not_synced"
             /\ Started("reduced")
             /\ UNCHANGED <<clocks, oscfailed, dt, locks, cmd, nevent, history>>

NtpToChip == /\ pc = "ntp" /\ ntp
             /\ WriteTime(sys, "ntpflag", "again")
             /\ UNCHANGED <<sys, ntp, statics, dt, locks, mode, coap, cmd>>

FlagsAgain == /\ pc = "again"
              /\ ReadFlags
              /\ pc' = "ntpget"
              /\ UNCHANGED <<clocks, rtc_state, dt, locks, mode, coap, cmd, kept>>

\* Without a valid time main() returns; rtc_state stays uninitialized.
NtpReadBack == /\ pc = "ntpget"
               /\ ReadTime("loop", "down")
               /\ IF pc' = "loop" THEN mode' = "normal" /\ coap' = "idle"
                                  ELSE UNCHANGED <<mode, coap>>
               /\ UNCHANGED <<clocks, statics, locks, cmd, kept>>

\* Mutated: the state is set before the system's time.
SetSystemTimeLate == /\ pc = "start"
                     /\ rtc_state' = "running"
                     /\ Started("normal")
                     /\ UNCHANGED <<clocks, oscfailed, dt, locks, cmd, nevent, history>>

\* date --set, the date and then the time of day
SetSystemTime == /\ pc = "start"
                 /\ sys' = dt /\ rtc_state' = "running"
                 /\ Started("normal")
                 /\ UNCHANGED <<chip, ntp, oscfailed, dt, locks, cmd, nevent, history>>

SetSystemTimeFails == /\ pc = "start"
                      /\ Ends /\ Event
                      /\ sys' \in {sys, Junk}
                      /\ faulty' = TRUE /\ dateFailed' = TRUE
                      /\ UNCHANGED <<chip, ntp, cmd, kept>>

-----------------------------------------------------------------------------
(* A command that sets the date: changeRtcDateTime and rtc_set_dt *)

\* Mutated: a mutex that is not recursive.
FreeForMainOnce == coap # "holds" /\ locks = 0

\* rtcmutex is recursive.
FreeForMain == coap # "holds"

SetDate == /\ pc = "loop" /\ cmd # NoTime
           /\ FreeForMain
           /\ locks' = locks + 1
           /\ dt' = cmd /\ pc' = "set"
           /\ UNCHANGED <<clocks, statics, mode, coap, cmd, nevent, history>>

\* Mutated: not if the oscillator failed.
SetChipUnlessFailed == /\ pc = "set"
                       /\ IF oscfailed THEN UNCHANGED <<chip, kept>> /\ NoFault /\ pc' = "readback"
                                       ELSE WriteTime(dt, "flag", "readback")
                       /\ UNCHANGED <<sys, ntp, statics, dt, locks, mode, coap, cmd>>

SetChip == /\ pc = "set"
           /\ WriteTime(dt, "flag", "readback")
           /\ UNCHANGED <<sys, ntp, statics, dt, locks, mode, coap, cmd>>

\* A time that was not read, or not valid, is taken all the same.
ReadChip == /\ pc = "readback"
            /\ ReadTime("date", "date")
            /\ UNCHANGED <<clocks, statics, locks, mode, coap, cmd, kept>>

\* Mutated: returns with the mutex locked.
DateSetKeepsLock == /\ pc = "date" /\ dt # Junk
                    /\ sys' = dt /\ rtc_state' = "running"
                    /\ pc' = "loop" /\ cmd' = NoTime
                    /\ UNCHANGED <<chip, ntp, oscfailed, dt, locks, mode, coap, nevent, history>>

\* Mutated: unlocked a second time by the caller.
DateSetUnlocksTwice == /\ pc = "date" /\ dt # Junk
                       /\ sys' = dt /\ rtc_state' = "running"
                       /\ locks' = locks - 2
                       /\ pc' = "loop" /\ cmd' = NoTime
                       /\ UNCHANGED <<chip, ntp, oscfailed, dt, mode, coap, nevent, history>>

DateSet == /\ pc = "date" /\ dt # Junk
           /\ sys' = dt /\ rtc_state' = "running"
           /\ locks' = locks - 1
           /\ pc' = "loop" /\ cmd' = NoTime
           /\ UNCHANGED <<chip, ntp, oscfailed, dt, mode, coap, nevent, history>>

\* Returns without unlocking.
DateFails == /\ pc = "date"
             /\ IF dt = Junk THEN UNCHANGED nevent ELSE Event
             /\ sys' \in {sys, Junk}
             /\ faulty' = TRUE /\ dateFailed' = TRUE
             /\ pc' = "loop" /\ cmd' = NoTime
             /\ UNCHANGED <<chip, ntp, statics, dt, locks, mode, coap, kept>>

\* The loop of the reduced mode asks for the state.
LeaveReducedMode == /\ pc = "loop" /\ mode = "reduced"
                    /\ FreeForMain
                    /\ rtc_state # "not_synced"
                    /\ mode' = "normal"
                    /\ UNCHANGED <<clocks, statics, dt, locks, pc, coap, cmd, nevent, history>>

-----------------------------------------------------------------------------
(* The CoAP thread: one request after the other *)

\* Every date that strptime() reads.
PutDate(t) == /\ coap = "idle" /\ cmd = NoTime
              /\ Event
              /\ cmd' = t
              /\ UNCHANGED <<clocks, statics, main, coap, history>>

GetRtc == /\ coap = "idle"
          /\ coap' = "get"
          /\ UNCHANGED <<clocks, statics, main, cmd, nevent, history>>

\* rtc_get_state_text
LockForState == /\ coap = "get" /\ locks = 0
                /\ coap' = "holds"
                /\ UNCHANGED <<clocks, statics, main, cmd, nevent, history>>

Answer == /\ coap = "holds"
          /\ coap' = "idle"
          /\ UNCHANGED <<clocks, statics, main, cmd, nevent, history>>

-----------------------------------------------------------------------------
(* Power and network (external); commands that are not handled are loaded    *)
(* again at the start                                                        *)

NtpSync == /\ ~ntp /\ Event
           /\ ntp' = TRUE /\ sys' \in Times
           /\ UNCHANGED <<chip, statics, main, coap, cmd, history>>

Crash == /\ pc # "down" /\ Event
         /\ Ends
         /\ UNCHANGED <<clocks, cmd, history>>

\* The chip goes on as long as its battery does.
PowerFails == /\ Event
              /\ Ends
              /\ sys' = NoTime /\ ntp' = FALSE
              /\ \/ UNCHANGED <<chip, kept>>
                 \/ chip' = [time |-> Junk, of |-> TRUE] /\ kept' = FALSE
              /\ UNCHANGED <<cmd, faulty, dateFailed>>

Boot == /\ pc = "down"
        /\ pc' = "flags"
        /\ UNCHANGED <<clocks, statics, dt, locks, mode, coap, cmd, nevent, history>>

Start == \/ InitFlags \/ InitFails \/ InitGet \/ NotSynced
         \/ NtpToChip \/ ClearFlag("ntpflag", "again") \/ FlagsAgain \/ NtpReadBack
         \/ SetSystemTime \/ SetSystemTimeFails

Command == \/ SetDate \/ SetChip \/ ClearFlag("flag", "readback") \/ ReadChip \/ DateSet \/ DateFails \/ LeaveReducedMode

Next == \/ Start \/ Command
        \/ \E t \in Dates : PutDate(t)
        \/ GetRtc \/ LockForState \/ Answer
        \/ NtpSync \/ Crash \/ PowerFails \/ Boot

Spec == Init /\ [][Next]_vars

\* Both threads run; a thread that waits for a mutex gets it if it is free again
\* and again.
FairSpec == /\ Spec
            /\ WF_vars(Start) /\ SF_vars(Command)
            /\ SF_vars(LockForState) /\ WF_vars(Answer)

-----------------------------------------------------------------------------
(* Properties *)

\* Data are acquired in the normal mode only, and there the system has a time,
\* whatever the chip, the network and the commands did; one that is a date, as long
\* as no transfer and no command date failed.
NormalModeHasTime == mode = "normal" /\ pc = "loop" =>
                       sys # NoTime /\ (~faulty => sys \in Dates)

\* A clock that is said to run and the chip have the same time, also after a
\* command that found the oscillator failed and reported a failure.  A date that
\* testdt() refuses is the exception: with a failed oscillator it is not read back,
\* and the system gets 1999 while the chip holds 2095.
ClocksAgree == rtc_state = "running" /\ pc = "loop" /\ ~faulty /\ ~ntp =>
                 sys = chip.time \/ sys \in Other

\* A chip that was set once keeps the gateway out of the reduced mode, over all
\* later crashes and power failures its battery survives.
SetOnceIsEnough == kept /\ pc = "loop" /\ ~dateFailed /\ ~faulty => rtc_state # "not_synced"

\* A GET for the state is answered, as long as no command date has failed.
GetIsAnswered == [](coap = "get" => <>(coap # "get" \/ dateFailed))

\* The mutex that rtc_set_dt() keeps does not stop the main thread itself: each
\* command that sets a date is handled, the gateway staying up.
DateIsHandled == cmd # NoTime ~> (cmd = NoTime \/ pc = "down")
=============================================================================

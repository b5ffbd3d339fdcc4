---------------------------- MODULE ClockProofs ----------------------------
(***************************************************************************)
(* Proofs about the clock of Clock.tla, for every set of times and every   *)
(* number of faults, crashes, power failures and commands.                 *)
(***************************************************************************)
EXTENDS Clock, TLAPS

USE DEF Valid, Dates

Setting == {"set", "flag", "readback", "date"}

\* The positions of the main thread, and how often it can hold the mutex: once for
\* each command that was put, minus the one that still waits.
Control == /\ mode = "off" <=> pc \in {"down", "flags", "get", "ntp", "ntpflag", "again",
                                     "ntpget", "start"}
           /\ mode = "off" => rtc_state = "uninitialized" /\ locks = 0
           /\ pc \in Setting => cmd # NoTime /\ locks >= 1
           /\ pc = "set" => dt \in Dates
           /\ IF cmd # NoTime /\ pc \notin Setting
              THEN locks + 1 <= nevent ELSE locks <= nevent

\* Where a time comes from.
TimeIsSet == /\ ntp => sys # NoTime
             /\ pc \in {"ntpflag", "again", "ntpget"} => sys # NoTime
             /\ mode = "normal" => sys # NoTime
             /\ mode # "off" /\ rtc_state # "not_synced" => sys # NoTime
             /\ pc = "start" => dt \in Times

\* Between the transfers to the chip and the command date.
InStep == ~faulty => /\ sys # Junk
                     /\ pc = "start" => dt = chip.time
                     /\ pc \in {"flag", "readback", "date"} => dt = chip.time \/ dt \in Other
                     /\ rtc_state = "running" /\ pc = "loop" /\ ~ntp =>
                          sys = chip.time \/ sys \in Other

\* What a chip that was set once is worth.  Its flag OF is known to the process
\* that cleared it.
SetOnce == ~faulty =>
  /\ chip.of /\ pc \notin {"down", "flags"} => oscfailed
  /\ kept => /\ chip.time \in Times /\ ~chip.of
             /\ pc = "get" => ~oscfailed
             /\ pc # "ntp"
             /\ rtc_state = "not_synced" => pc \in {"readback", "date"}

IInv == TypeOK /\ Control /\ TimeIsSet /\ InStep /\ SetOnce

-----------------------------------------------------------------------------
(* The invariant is inductive *)

LEMMA InitHolds == Init => IInv
<1> SUFFICES ASSUME Init PROVE IInv
  OBVIOUS
<1>1. chip \in [time : Dates \union {Junk}, of : BOOLEAN]
  <2>1. PICK t \in Dates \union {Junk}, o \in BOOLEAN : chip = [time |-> t, of |-> o]
    BY DEF Init
  <2>2. QED
    BY <2>1
<1>2. TypeOK
  <2>1. nevent \in 0..MaxEvents /\ locks \in 0..MaxEvents
    BY ClockAssumption DEF Init
  <2>2. QED
    BY <1>1, <2>1 DEF Init, TypeOK
<1>3. Control /\ TimeIsSet
  BY DEF Init, Control, TimeIsSet, Setting
<1>4. InStep /\ SetOnce
  BY ClockAssumption DEF Init, InStep, SetOnce
<1>5. QED
  BY <1>2, <1>3, <1>4 DEF IInv

\* What a transfer to the chip leaves, whether it works or not.
Transferred == /\ chip' \in [time : Dates \union {Junk}, of : BOOLEAN]
               /\ kept' \in BOOLEAN /\ faulty' \in BOOLEAN /\ dateFailed' = dateFailed
               /\ nevent' \in 0..MaxEvents /\ nevent <= nevent'
               /\ ~faulty' => ~faulty

\* What the first transfer of rtc4162_set() leaves if it works.
TimeWritten(t, flag, done) == /\ chip'.of = chip.of
                              /\ t \in Times => chip'.time = t
                              /\ kept' = (chip'.time \in Times /\ (oscfailed => kept))
                              /\ pc' = (IF oscfailed THEN flag ELSE done)

LEMMA WriteTimeEffect ==
  ASSUME TypeOK, NEW t \in Dates \union {Junk}, NEW flag, NEW done, WriteTime(t, flag, done)
  PROVE  /\ Transferred
         /\ pc' \in {flag, done}
         /\ ~faulty' => TimeWritten(t, flag, done)
<1>1. ASSUME NEW s \in Stored(t),
             chip' = [chip EXCEPT !.time = s],
             kept' = (Valid(s) /\ (oscfailed => kept)),
             pc' = (IF oscfailed THEN flag ELSE done), NoFault
      PROVE  Transferred /\ pc' \in {flag, done} /\ TimeWritten(t, flag, done)
  <2>1. s \in Dates \union {Junk} /\ (t \in Times => s = t)
    BY DEF Stored
  <2>2. chip'.time = s /\ chip'.of = chip.of
    BY <1>1 DEF TypeOK
  <2>3. chip' \in [time : Dates \union {Junk}, of : BOOLEAN]
    BY <1>1, <2>1 DEF TypeOK
  <2>4. /\ kept' \in BOOLEAN /\ faulty' \in BOOLEAN /\ dateFailed' = dateFailed
        /\ nevent' = nevent /\ faulty' = faulty
    BY <1>1 DEF NoFault, TypeOK
  <2>5. nevent' \in 0..MaxEvents /\ nevent <= nevent'
    BY <2>4 DEF TypeOK
  <2>6. kept' = (chip'.time \in Times /\ (oscfailed => kept))
    BY <1>1, <2>2
  <2>7. QED
    BY <1>1, <2>1, <2>2, <2>3, <2>4, <2>5, <2>6 DEF Transferred, TimeWritten
<1>2. ASSUME NEW s \in Stored(t) \union {chip.time, Junk},
             chip' = [chip EXCEPT !.time = s], kept' = FALSE,
             pc' \in (IF oscfailed THEN {flag, done} ELSE {done}), Fault
      PROVE  Transferred /\ pc' \in {flag, done} /\ faulty'
  <2>1. s \in Dates \union {Junk}
    BY DEF Stored, TypeOK
  <2>2. chip' \in [time : Dates \union {Junk}, of : BOOLEAN]
    BY <1>2, <2>1 DEF TypeOK
  <2>3. nevent' \in 0..MaxEvents /\ nevent <= nevent'
    BY <1>2, ClockAssumption DEF Fault, Event, TypeOK
  <2>4. faulty' = TRUE /\ dateFailed' = dateFailed
    BY <1>2 DEF Fault
  <2>5. pc' \in {flag, done}
    BY <1>2
  <2>6. QED
    BY <1>2, <2>2, <2>3, <2>4, <2>5 DEF Transferred
<1>3. QED
  BY <1>1, <1>2 DEF WriteTime

\* What its second transfer leaves.
LEMMA ClearFlagEffect ==
  ASSUME TypeOK, NEW flag, NEW done, ClearFlag(flag, done)
  PROVE  /\ Transferred
         /\ pc' = done /\ chip'.time = chip.time
         /\ ~faulty' => ~chip'.of /\ kept' = (chip.time \in Times)
<1>1. CASE chip' = [chip EXCEPT !.of = FALSE] /\ kept' = Valid(chip.time) /\ NoFault
  <2>1. chip' \in [time : Dates \union {Junk}, of : BOOLEAN]
    BY <1>1 DEF TypeOK
  <2>2. chip'.time = chip.time /\ ~chip'.of
    BY <1>1 DEF TypeOK
  <2>3. /\ kept' \in BOOLEAN /\ faulty' \in BOOLEAN /\ dateFailed' = dateFailed
        /\ nevent' = nevent /\ faulty' = faulty
    BY <1>1 DEF NoFault, TypeOK
  <2>4. nevent' \in 0..MaxEvents /\ nevent <= nevent'
    BY <2>3 DEF TypeOK
  <2>5. QED
    BY <1>1, <2>1, <2>2, <2>3, <2>4 DEF Transferred, ClearFlag
<1>2. CASE chip' \in {chip, [chip EXCEPT !.of = FALSE]} /\ kept' = FALSE /\ Fault
  <2>1. chip' \in [time : Dates \union {Junk}, of : BOOLEAN] /\ chip'.time = chip.time
    BY <1>2 DEF TypeOK
  <2>2. nevent' \in 0..MaxEvents /\ nevent <= nevent'
    BY <1>2, ClockAssumption DEF Fault, Event, TypeOK
  <2>3. faulty' = TRUE /\ dateFailed' = dateFailed
    BY <1>2 DEF Fault
  <2>4. QED
    BY <1>2, <2>1, <2>2, <2>3 DEF Transferred, ClearFlag
<1>3. QED
  BY <1>1, <1>2 DEF ClearFlag

LEMMA StepHolds == IInv /\ [Next]_vars => IInv'
<1> SUFFICES ASSUME IInv, [Next]_vars PROVE IInv'
  OBVIOUS
<1> USE DEF IInv
<1>1. ASSUME InitFlags PROVE IInv'
  <2>1. TypeOK'
    <3>1. chip' \in [time : Dates \union {Junk}, of : BOOLEAN]
      BY <1>1 DEF InitFlags, clocks, TypeOK
    <3>2. nevent' \in 0..MaxEvents /\ locks' \in 0..MaxEvents
      BY <1>1, ClockAssumption DEF InitFlags, ReadFlags, Fault, Event, NoFault, TypeOK
    <3>3. oscfailed' \in BOOLEAN /\ faulty' \in BOOLEAN /\ dateFailed' \in BOOLEAN
      BY <1>1 DEF InitFlags, ReadFlags, Fault, NoFault, TypeOK
    <3>4. sys' \in Dates \union {Junk, NoTime} /\ ntp' \in BOOLEAN /\ kept' \in BOOLEAN
      BY <1>1 DEF InitFlags, clocks, TypeOK
    <3>5. /\ rtc_state' \in {"uninitialized", "running", "not_synced"}
           /\ dt' \in Dates \union {Junk} /\ cmd' \in Dates \union {NoTime}
           /\ pc' \in {"down", "flags", "get", "ntp", "ntpflag", "again", "ntpget", "start",
                     "loop", "set", "flag", "readback", "date"}
           /\ mode' \in {"off", "reduced", "normal"}
           /\ coap' \in {"off", "idle", "get", "holds"}
      BY <1>1 DEF InitFlags, TypeOK
    <3>6. QED
      BY <3>1, <3>2, <3>3, <3>4, <3>5 DEF TypeOK
  <2>2. Control'
    BY <1>1 DEF InitFlags, ReadFlags, Fault, Event, NoFault, TypeOK, Control, Setting
  <2>3. TimeIsSet'
    BY <1>1 DEF InitFlags, clocks, TimeIsSet
  <2>4. InStep'
    BY <1>1 DEF InitFlags, clocks, ReadFlags, Fault, NoFault, InStep
  <2>5. SetOnce'
    BY <1>1 DEF InitFlags, clocks, ReadFlags, Fault, NoFault, SetOnce
  <2>6. QED
    BY <2>1, <2>2, <2>3, <2>4, <2>5
<1>2. ASSUME InitFails PROVE IInv'
  <2>1. TypeOK'
    <3>1. chip' \in [time : Dates \union {Junk}, of : BOOLEAN]
      BY <1>2 DEF InitFails, clocks, TypeOK
    <3>2. nevent' \in 0..MaxEvents /\ locks' \in 0..MaxEvents
      BY <1>2, ClockAssumption DEF InitFails, Fault, Event, Ends, TypeOK
    <3>3. oscfailed' \in BOOLEAN /\ faulty' \in BOOLEAN /\ dateFailed' \in BOOLEAN
      BY <1>2 DEF InitFails, Fault, Ends, TypeOK
    <3>4. sys' \in Dates \union {Junk, NoTime} /\ ntp' \in BOOLEAN /\ kept' \in BOOLEAN
      BY <1>2 DEF InitFails, clocks, TypeOK
    <3>5. /\ rtc_state' \in {"uninitialized", "running", "not_synced"}
           /\ dt' \in Dates \union {Junk} /\ cmd' \in Dates \union {NoTime}
           /\ pc' \in {"down", "flags", "get", "ntp", "ntpflag", "again", "ntpget", "start",
                     "loop", "set", "flag", "readback", "date"}
           /\ mode' \in {"off", "reduced", "normal"}
           /\ coap' \in {"off", "idle", "get", "holds"}
      BY <1>2 DEF InitFails, Ends, TypeOK
    <3>6. QED
      BY <3>1, <3>2, <3>3, <3>4, <3>5 DEF TypeOK
  <2>2. Control'
    BY <1>2 DEF InitFails, Fault, Event, Ends, TypeOK, Control, Setting
  <2>3. TimeIsSet'
    BY <1>2 DEF InitFails, clocks, Ends, TimeIsSet
  <2>4. InStep'
    BY <1>2 DEF InitFails, Fault, InStep
  <2>5. SetOnce'
    BY <1>2 DEF InitFails, Fault, SetOnce
  <2>6. QED
    BY <2>1, <2>2, <2>3, <2>4, <2>5
<1>3. ASSUME InitGet PROVE IInv'
  <2>1. TypeOK'
    <3>1. chip' \in [time : Dates \union {Junk}, of : BOOLEAN]
      BY <1>3 DEF InitGet, clocks, TypeOK
    <3>2. nevent' \in 0..MaxEvents /\ locks' \in 0..MaxEvents
      BY <1>3, ClockAssumption DEF InitGet, ReadTime, Fault, Event, NoFault, TypeOK
    <3>3. oscfailed' \in BOOLEAN /\ faulty' \in BOOLEAN /\ dateFailed' \in BOOLEAN
      BY <1>3 DEF InitGet, statics, ReadTime, Fault, NoFault, TypeOK
    <3>4. sys' \in Dates \union {Junk, NoTime} /\ ntp' \in BOOLEAN /\ kept' \in BOOLEAN
      BY <1>3 DEF InitGet, clocks, TypeOK
    <3>5. /\ rtc_state' \in {"uninitialized", "running", "not_synced"}
           /\ dt' \in Dates \union {Junk} /\ cmd' \in Dates \union {NoTime}
           /\ pc' \in {"down", "flags", "get", "ntp", "ntpflag", "again", "ntpget", "start",
                     "loop", "set", "flag", "readback", "date"}
           /\ mode' \in {"off", "reduced", "normal"}
           /\ coap' \in {"off", "idle", "get", "holds"}
      BY <1>3 DEF InitGet, statics, ReadTime, TypeOK
    <3>6. QED
      BY <3>1, <3>2, <3>3, <3>4, <3>5 DEF TypeOK
  <2>2. Control'
    BY <1>3 DEF InitGet, statics, ReadTime, Fault, Event, NoFault, TypeOK, Control,
       Setting
  <2>3. TimeIsSet'
    BY <1>3 DEF InitGet, clocks, ReadTime, Control, TimeIsSet
  <2>4. InStep'
    BY <1>3 DEF InitGet, clocks, ReadTime, Fault, NoFault, InStep
  <2>5. SetOnce'
    BY <1>3 DEF InitGet, clocks, statics, ReadTime, Fault, NoFault, SetOnce
  <2>6. QED
    BY <2>1, <2>2, <2>3, <2>4, <2>5
<1>4. ASSUME NotSynced PROVE IInv'
  <2>1. TypeOK'
    BY <1>4 DEF NotSynced, clocks, history, Started, TypeOK
  <2>2. Control'
    BY <1>4 DEF NotSynced, Started, Control, Setting
  <2>3. TimeIsSet'
    BY <1>4 DEF NotSynced, clocks, Started, TimeIsSet
  <2>4. InStep'
    BY <1>4 DEF NotSynced, clocks, history, Started, InStep
  <2>5. SetOnce'
    BY <1>4 DEF NotSynced, clocks, history, SetOnce
  <2>6. QED
    BY <2>1, <2>2, <2>3, <2>4, <2>5
<1>5. ASSUME NtpToChip PROVE IInv'
  <2>0. /\ Transferred /\ pc' \in {"ntpflag", "again"}
        /\ ~faulty' => TimeWritten(sys, "ntpflag", "again")
    BY <1>5, WriteTimeEffect DEF NtpToChip, TypeOK, TimeIsSet
  <2>1. TypeOK'
    <3>1. locks' \in 0..MaxEvents
      BY <1>5, <2>0, ClockAssumption DEF NtpToChip, TypeOK, Control
    <3>2. sys' \in Dates \union {Junk, NoTime} /\ ntp' \in BOOLEAN /\ oscfailed' \in BOOLEAN
      BY <1>5 DEF NtpToChip, statics, TypeOK
    <3>3. /\ rtc_state' \in {"uninitialized", "running", "not_synced"}
          /\ dt' \in Dates \union {Junk} /\ cmd' \in Dates \union {NoTime}
          /\ mode' \in {"off", "reduced", "normal"}
          /\ coap' \in {"off", "idle", "get", "holds"}
      BY <1>5 DEF NtpToChip, statics, TypeOK
    <3>4. pc' \in {"ntpflag", "again"} /\ dateFailed' \in BOOLEAN
      BY <2>0 DEF Transferred, TypeOK
    <3>5. QED
      BY <2>0, <3>1, <3>2, <3>3, <3>4 DEF TypeOK, Transferred
  <2>2. Control'
    BY <1>5, <2>0 DEF NtpToChip, statics, Transferred, TypeOK, Control, Setting
  <2>3. TimeIsSet'
    BY <1>5, <2>0 DEF NtpToChip, statics, TypeOK, TimeIsSet
  <2>4. InStep'
    BY <1>5, <2>0 DEF NtpToChip, statics, Transferred, TimeWritten, TypeOK, Control, InStep
  <2>5. SetOnce'
    BY <1>5, <2>0 DEF NtpToChip, statics, Transferred, TimeWritten, TypeOK, Control, InStep, SetOnce
  <2>6. QED
    BY <2>1, <2>2, <2>3, <2>4, <2>5
<1>5a. ASSUME ClearFlag("ntpflag", "again") PROVE IInv'
  <2>0. /\ Transferred /\ pc' = "again" /\ chip'.time = chip.time
        /\ ~faulty' => ~chip'.of /\ kept' = (chip.time \in Times)
    BY <1>5a, ClearFlagEffect
  <2>1. TypeOK'
    <3>1. locks' \in 0..MaxEvents
      BY <1>5a, <2>0, ClockAssumption DEF ClearFlag, TypeOK, Control
    <3>2. sys' \in Dates \union {Junk, NoTime} /\ ntp' \in BOOLEAN /\ oscfailed' \in BOOLEAN
      BY <1>5a DEF ClearFlag, statics, TypeOK
    <3>3. /\ rtc_state' \in {"uninitialized", "running", "not_synced"}
          /\ dt' \in Dates \union {Junk} /\ cmd' \in Dates \union {NoTime}
          /\ mode' \in {"off", "reduced", "normal"}
          /\ coap' \in {"off", "idle", "get", "holds"}
      BY <1>5a DEF ClearFlag, statics, TypeOK
    <3>4. pc' \in {"again"} /\ dateFailed' \in BOOLEAN
      BY <2>0 DEF Transferred, TypeOK
    <3>5. QED
      BY <2>0, <3>1, <3>2, <3>3, <3>4 DEF TypeOK, Transferred
  <2>2. Control'
    BY <1>5a, <2>0 DEF ClearFlag, statics, Transferred, TypeOK, Control, Setting
  <2>3. TimeIsSet'
    BY <1>5a, <2>0 DEF ClearFlag, statics, TypeOK, TimeIsSet
  <2>4. InStep'
    BY <1>5a, <2>0 DEF ClearFlag, statics, Transferred, TimeWritten, TypeOK, Control, InStep
  <2>5. SetOnce'
    BY <1>5a, <2>0 DEF ClearFlag, statics, Transferred, TimeWritten, TypeOK, Control, InStep, SetOnce
  <2>6. QED
    BY <2>1, <2>2, <2>3, <2>4, <2>5
<1>5b. ASSUME FlagsAgain PROVE IInv'
  <2>1. TypeOK'
    <3>1. chip' \in [time : Dates \union {Junk}, of : BOOLEAN]
      BY <1>5b DEF FlagsAgain, clocks, TypeOK
    <3>2. nevent' \in 0..MaxEvents /\ locks' \in 0..MaxEvents
      BY <1>5b, ClockAssumption DEF FlagsAgain, ReadFlags, Fault, Event, NoFault, TypeOK
    <3>3. oscfailed' \in BOOLEAN /\ faulty' \in BOOLEAN /\ dateFailed' \in BOOLEAN
      BY <1>5b DEF FlagsAgain, ReadFlags, Fault, NoFault, TypeOK
    <3>4. sys' \in Dates \union {Junk, NoTime} /\ ntp' \in BOOLEAN /\ kept' \in BOOLEAN
      BY <1>5b DEF FlagsAgain, clocks, TypeOK
    <3>5. /\ rtc_state' \in {"uninitialized", "running", "not_synced"}
           /\ dt' \in Dates \union {Junk} /\ cmd' \in Dates \union {NoTime}
           /\ pc' \in {"down", "flags", "get", "ntp", "ntpflag", "again", "ntpget", "start",
                     "loop", "set", "flag", "readback", "date"}
           /\ mode' \in {"off", "reduced", "normal"}
           /\ coap' \in {"off", "idle", "get", "holds"}
      BY <1>5b DEF FlagsAgain, TypeOK
    <3>6. QED
      BY <3>1, <3>2, <3>3, <3>4, <3>5 DEF TypeOK
  <2>2. Control'
    BY <1>5b DEF FlagsAgain, ReadFlags, Fault, Event, NoFault, TypeOK, Control, Setting
  <2>3. TimeIsSet'
    BY <1>5b DEF FlagsAgain, clocks, TimeIsSet
  <2>4. InStep'
    BY <1>5b DEF FlagsAgain, clocks, ReadFlags, Fault, NoFault, InStep
  <2>5. SetOnce'
    BY <1>5b DEF FlagsAgain, clocks, ReadFlags, Fault, NoFault, SetOnce
  <2>6. QED
    BY <2>1, <2>2, <2>3, <2>4, <2>5
<1>6. ASSUME NtpReadBack PROVE IInv'
  <2>1. TypeOK'
    <3>1. chip' \in [time : Dates \union {Junk}, of : BOOLEAN]
      BY <1>6 DEF NtpReadBack, clocks, TypeOK
    <3>2. nevent' \in 0..MaxEvents /\ locks' \in 0..MaxEvents
      BY <1>6, ClockAssumption DEF NtpReadBack, ReadTime, Fault, Event, NoFault, TypeOK
    <3>3. oscfailed' \in BOOLEAN /\ faulty' \in BOOLEAN /\ dateFailed' \in BOOLEAN
      BY <1>6 DEF NtpReadBack, statics, ReadTime, Fault, NoFault, TypeOK
    <3>4. sys' \in Dates \union {Junk, NoTime} /\ ntp' \in BOOLEAN /\ kept' \in BOOLEAN
      BY <1>6 DEF NtpReadBack, clocks, TypeOK
    <3>5. /\ rtc_state' \in {"uninitialized", "running", "not_synced"}
           /\ dt' \in Dates \union {Junk} /\ cmd' \in Dates \union {NoTime}
           /\ pc' \in {"down", "flags", "get", "ntp", "ntpflag", "again", "ntpget", "start",
                     "loop", "set", "flag", "readback", "date"}
           /\ mode' \in {"off", "reduced", "normal"}
           /\ coap' \in {"off", "idle", "get", "holds"}
      BY <1>6 DEF NtpReadBack, statics, ReadTime, TypeOK
    <3>6. QED
      BY <3>1, <3>2, <3>3, <3>4, <3>5 DEF TypeOK
  <2>2. Control'
    BY <1>6 DEF NtpReadBack, statics, ReadTime, Fault, Event, NoFault, TypeOK, Control,
       Setting
  <2>3. TimeIsSet'
    BY <1>6 DEF NtpReadBack, clocks, ReadTime, Control, TimeIsSet
  <2>4. InStep'
    BY <1>6 DEF NtpReadBack, clocks, statics, ReadTime, Fault, NoFault, Control, InStep
  <2>5. SetOnce'
    BY <1>6 DEF NtpReadBack, clocks, statics, ReadTime, Fault, NoFault, SetOnce
  <2>6. QED
    BY <2>1, <2>2, <2>3, <2>4, <2>5
<1>7. ASSUME SetSystemTime PROVE IInv'
  <2>1. TypeOK'
    BY <1>7 DEF SetSystemTime, history, Started, TypeOK
  <2>2. Control'
    BY <1>7 DEF SetSystemTime, Started, Control, Setting
  <2>3. TimeIsSet'
    BY <1>7, ClockAssumption DEF SetSystemTime, TimeIsSet
  <2>4. InStep'
    BY <1>7, ClockAssumption DEF SetSystemTime, history, TimeIsSet, InStep
  <2>5. SetOnce'
    BY <1>7 DEF SetSystemTime, history, Started, SetOnce
  <2>6. QED
    BY <2>1, <2>2, <2>3, <2>4, <2>5
<1>8. ASSUME SetSystemTimeFails PROVE IInv'
  <2>1. TypeOK'
    <3>1. chip' \in [time : Dates \union {Junk}, of : BOOLEAN]
      BY <1>8 DEF SetSystemTimeFails, TypeOK
    <3>2. nevent' \in 0..MaxEvents /\ locks' \in 0..MaxEvents
      BY <1>8, ClockAssumption DEF SetSystemTimeFails, Event, Ends, TypeOK
    <3>3. oscfailed' \in BOOLEAN /\ faulty' \in BOOLEAN /\ dateFailed' \in BOOLEAN
      BY <1>8 DEF SetSystemTimeFails, Ends
    <3>4. sys' \in Dates \union {Junk, NoTime} /\ ntp' \in BOOLEAN /\ kept' \in BOOLEAN
      BY <1>8 DEF SetSystemTimeFails, TypeOK
    <3>5. /\ rtc_state' \in {"uninitialized", "running", "not_synced"}
           /\ dt' \in Dates \union {Junk} /\ cmd' \in Dates \union {NoTime}
           /\ pc' \in {"down", "flags", "get", "ntp", "ntpflag", "again", "ntpget", "start",
                     "loop", "set", "flag", "readback", "date"}
           /\ mode' \in {"off", "reduced", "normal"}
           /\ coap' \in {"off", "idle", "get", "holds"}
      BY <1>8 DEF SetSystemTimeFails, Ends, TypeOK
    <3>6. QED
      BY <3>1, <3>2, <3>3, <3>4, <3>5 DEF TypeOK
  <2>2. Control'
    BY <1>8 DEF SetSystemTimeFails, Event, Ends, TypeOK, Control, Setting
  <2>3. TimeIsSet'
    BY <1>8, ClockAssumption DEF SetSystemTimeFails, Ends, TimeIsSet
  <2>4. InStep'
    BY <1>8 DEF SetSystemTimeFails, InStep
  <2>5. SetOnce'
    BY <1>8 DEF SetSystemTimeFails, SetOnce
  <2>6. QED
    BY <2>1, <2>2, <2>3, <2>4, <2>5
<1>9. ASSUME SetDate PROVE IInv'
  <2>1. TypeOK'
    BY <1>9, ClockAssumption DEF SetDate, clocks, statics, history, TypeOK, Control,
       Setting
  <2>2. Control'
    BY <1>9 DEF SetDate, TypeOK, Control, Setting
  <2>3. TimeIsSet'
    BY <1>9 DEF SetDate, clocks, statics, TimeIsSet
  <2>4. InStep'
    BY <1>9 DEF SetDate, clocks, history, InStep
  <2>5. SetOnce'
    BY <1>9 DEF SetDate, clocks, statics, history, SetOnce
  <2>6. QED
    BY <2>1, <2>2, <2>3, <2>4, <2>5
<1>10. ASSUME SetChip PROVE IInv'
  <2>0. /\ Transferred /\ pc' \in {"flag", "readback"}
        /\ ~faulty' => TimeWritten(dt, "flag", "readback")
    BY <1>10, WriteTimeEffect DEF SetChip, Control
  <2>1. TypeOK'
    <3>1. locks' \in 0..MaxEvents
      BY <1>10, <2>0, ClockAssumption DEF SetChip, TypeOK, Control
    <3>2. sys' \in Dates \union {Junk, NoTime} /\ ntp' \in BOOLEAN /\ oscfailed' \in BOOLEAN
      BY <1>10 DEF SetChip, statics, TypeOK
    <3>3. /\ rtc_state' \in {"uninitialized", "running", "not_synced"}
          /\ dt' \in Dates \union {Junk} /\ cmd' \in Dates \union {NoTime}
          /\ mode' \in {"off", "reduced", "normal"}
          /\ coap' \in {"off", "idle", "get", "holds"}
      BY <1>10 DEF SetChip, statics, TypeOK
    <3>4. pc' \in {"flag", "readback"} /\ dateFailed' \in BOOLEAN
      BY <2>0 DEF Transferred, TypeOK
    <3>5. QED
      BY <2>0, <3>1, <3>2, <3>3, <3>4 DEF TypeOK, Transferred
  <2>2. Control'
    BY <1>10, <2>0 DEF SetChip, statics, Transferred, TypeOK, Control, Setting
  <2>3. TimeIsSet'
    BY <1>10, <2>0 DEF SetChip, statics, TypeOK, TimeIsSet
  <2>4. InStep'
    BY <1>10, <2>0 DEF SetChip, statics, Transferred, TimeWritten, TypeOK, Control, InStep
  <2>5. SetOnce'
    BY <1>10, <2>0 DEF SetChip, statics, Transferred, TimeWritten, TypeOK, Control, InStep, SetOnce
  <2>6. QED
    BY <2>1, <2>2, <2>3, <2>4, <2>5
<1>10a. ASSUME ClearFlag("flag", "readback") PROVE IInv'
  <2>0. /\ Transferred /\ pc' = "readback" /\ chip'.time = chip.time
        /\ ~faulty' => ~chip'.of /\ kept' = (chip.time \in Times)
    BY <1>10a, ClearFlagEffect
  <2>1. TypeOK'
    <3>1. locks' \in 0..MaxEvents
      BY <1>10a, <2>0, ClockAssumption DEF ClearFlag, TypeOK, Control
    <3>2. sys' \in Dates \union {Junk, NoTime} /\ ntp' \in BOOLEAN /\ oscfailed' \in BOOLEAN
      BY <1>10a DEF ClearFlag, statics, TypeOK
    <3>3. /\ rtc_state' \in {"uninitialized", "running", "not_synced"}
          /\ dt' \in Dates \union {Junk} /\ cmd' \in Dates \union {NoTime}
          /\ mode' \in {"off", "reduced", "normal"}
          /\ coap' \in {"off", "idle", "get", "holds"}
      BY <1>10a DEF ClearFlag, statics, TypeOK
    <3>4. pc' \in {"readback"} /\ dateFailed' \in BOOLEAN
      BY <2>0 DEF Transferred, TypeOK
    <3>5. QED
      BY <2>0, <3>1, <3>2, <3>3, <3>4 DEF TypeOK, Transferred
  <2>2. Control'
    BY <1>10a, <2>0 DEF ClearFlag, statics, Transferred, TypeOK, Control, Setting
  <2>3. TimeIsSet'
    BY <1>10a, <2>0 DEF ClearFlag, statics, TypeOK, TimeIsSet
  <2>4. InStep'
    BY <1>10a, <2>0 DEF ClearFlag, statics, Transferred, TimeWritten, TypeOK, Control, InStep
  <2>5. SetOnce'
    BY <1>10a, <2>0 DEF ClearFlag, statics, Transferred, TimeWritten, TypeOK, Control, InStep, SetOnce
  <2>6. QED
    BY <2>1, <2>2, <2>3, <2>4, <2>5
<1>11. ASSUME ReadChip PROVE IInv'
  <2>1. TypeOK'
    <3>1. chip' \in [time : Dates \union {Junk}, of : BOOLEAN]
      BY <1>11 DEF ReadChip, clocks, TypeOK
    <3>2. nevent' \in 0..MaxEvents /\ locks' \in 0..MaxEvents
      BY <1>11, ClockAssumption DEF ReadChip, ReadTime, Fault, Event, NoFault, TypeOK
    <3>3. oscfailed' \in BOOLEAN /\ faulty' \in BOOLEAN /\ dateFailed' \in BOOLEAN
      BY <1>11 DEF ReadChip, statics, ReadTime, Fault, NoFault, TypeOK
    <3>4. sys' \in Dates \union {Junk, NoTime} /\ ntp' \in BOOLEAN /\ kept' \in BOOLEAN
      BY <1>11 DEF ReadChip, clocks, TypeOK
    <3>5. /\ rtc_state' \in {"uninitialized", "running", "not_synced"}
           /\ dt' \in Dates \union {Junk} /\ cmd' \in Dates \union {NoTime}
           /\ pc' \in {"down", "flags", "get", "ntp", "ntpflag", "again", "ntpget", "start",
                     "loop", "set", "flag", "readback", "date"}
           /\ mode' \in {"off", "reduced", "normal"}
           /\ coap' \in {"off", "idle", "get", "holds"}
      BY <1>11 DEF ReadChip, statics, ReadTime, TypeOK
    <3>6. QED
      BY <3>1, <3>2, <3>3, <3>4, <3>5 DEF TypeOK
  <2>2. Control'
    BY <1>11 DEF ReadChip, ReadTime, Fault, Event, NoFault, TypeOK, Control, Setting
  <2>3. TimeIsSet'
    BY <1>11 DEF ReadChip, clocks, statics, ReadTime, TimeIsSet
  <2>4. InStep'
    BY <1>11 DEF ReadChip, clocks, ReadTime, Fault, NoFault, InStep
  <2>5. SetOnce'
    BY <1>11 DEF ReadChip, clocks, statics, ReadTime, Fault, NoFault, SetOnce
  <2>6. QED
    BY <2>1, <2>2, <2>3, <2>4, <2>5
<1>12. ASSUME DateSet PROVE IInv'
  <2>1. TypeOK'
    BY <1>12, ClockAssumption DEF DateSet, history, TypeOK, Control, Setting
  <2>2. Control'
    BY <1>12 DEF DateSet, TypeOK, Control, Setting
  <2>3. TimeIsSet'
    BY <1>12, ClockAssumption DEF DateSet, TypeOK, TimeIsSet
  <2>4. InStep'
    BY <1>12 DEF DateSet, history, InStep
  <2>5. SetOnce'
    BY <1>12 DEF DateSet, history, SetOnce
  <2>6. QED
    BY <2>1, <2>2, <2>3, <2>4, <2>5
<1>13. ASSUME DateFails PROVE IInv'
  <2>1. TypeOK'
    BY <1>13, ClockAssumption DEF DateFails, statics, Event, TypeOK
  <2>2. Control'
    BY <1>13 DEF DateFails, Event, TypeOK, Control, Setting
  <2>3. TimeIsSet'
    BY <1>13, ClockAssumption DEF DateFails, statics, TimeIsSet
  <2>4. InStep'
    BY <1>13 DEF DateFails, InStep
  <2>5. SetOnce'
    BY <1>13 DEF DateFails, SetOnce
  <2>6. QED
    BY <2>1, <2>2, <2>3, <2>4, <2>5
<1>14. ASSUME LeaveReducedMode PROVE IInv'
  <2>1. TypeOK'
    BY <1>14 DEF LeaveReducedMode, clocks, statics, history, TypeOK
  <2>2. Control'
    BY <1>14 DEF LeaveReducedMode, Control
  <2>3. TimeIsSet'
    BY <1>14 DEF LeaveReducedMode, clocks, TimeIsSet
  <2>4. InStep'
    BY <1>14 DEF LeaveReducedMode, clocks, statics, history, InStep
  <2>5. SetOnce'
    BY <1>14 DEF LeaveReducedMode, clocks, statics, history, SetOnce
  <2>6. QED
    BY <2>1, <2>2, <2>3, <2>4, <2>5
<1>15. ASSUME NEW t \in Dates, PutDate(t) PROVE IInv'
  <2>1. TypeOK'
    BY <1>15, ClockAssumption DEF PutDate, clocks, statics, main, history, Event, TypeOK
  <2>2. Control'
    BY <1>15 DEF PutDate, statics, main, Event, TypeOK, Control
  <2>3. TimeIsSet'
    BY <1>15 DEF PutDate, clocks, statics, main, TimeIsSet
  <2>4. InStep'
    BY <1>15 DEF PutDate, clocks, statics, main, history, InStep
  <2>5. SetOnce'
    BY <1>15 DEF PutDate, clocks, statics, main, history, SetOnce
  <2>6. QED
    BY <2>1, <2>2, <2>3, <2>4, <2>5
<1>16. ASSUME GetRtc PROVE IInv'
  <2>1. TypeOK'
    BY <1>16 DEF GetRtc, clocks, statics, main, history, TypeOK
  <2>2. Control'
    BY <1>16 DEF GetRtc, statics, main, Control
  <2>3. TimeIsSet'
    BY <1>16 DEF GetRtc, clocks, statics, main, TimeIsSet
  <2>4. InStep'
    BY <1>16 DEF GetRtc, clocks, statics, main, history, InStep
  <2>5. SetOnce'
    BY <1>16 DEF GetRtc, clocks, statics, main, history, SetOnce
  <2>6. QED
    BY <2>1, <2>2, <2>3, <2>4, <2>5
<1>17. ASSUME LockForState PROVE IInv'
  <2>1. TypeOK'
    BY <1>17 DEF LockForState, clocks, statics, main, history, TypeOK
  <2>2. Control'
    BY <1>17 DEF LockForState, statics, main, Control
  <2>3. TimeIsSet'
    BY <1>17 DEF LockForState, clocks, statics, main, TimeIsSet
  <2>4. InStep'
    BY <1>17 DEF LockForState, clocks, statics, main, history, InStep
  <2>5. SetOnce'
    BY <1>17 DEF LockForState, clocks, statics, main, history, SetOnce
  <2>6. QED
    BY <2>1, <2>2, <2>3, <2>4, <2>5
<1>18. ASSUME Answer PROVE IInv'
  <2>1. TypeOK'
    BY <1>18 DEF Answer, clocks, statics, main, history, TypeOK
  <2>2. Control'
    BY <1>18 DEF Answer, statics, main, Control
  <2>3. TimeIsSet'
    BY <1>18 DEF Answer, clocks, statics, main, TimeIsSet
  <2>4. InStep'
    BY <1>18 DEF Answer, clocks, statics, main, history, InStep
  <2>5. SetOnce'
    BY <1>18 DEF Answer, clocks, statics, main, history, SetOnce
  <2>6. QED
    BY <2>1, <2>2, <2>3, <2>4, <2>5
<1>19. ASSUME NtpSync PROVE IInv'
  <2>1. TypeOK'
    BY <1>19, ClockAssumption DEF NtpSync, statics, main, history, Event, TypeOK
  <2>2. Control'
    BY <1>19 DEF NtpSync, statics, main, Event, TypeOK, Control
  <2>3. TimeIsSet'
    BY <1>19, ClockAssumption DEF NtpSync, main, TimeIsSet
  <2>4. InStep'
    BY <1>19, ClockAssumption DEF NtpSync, main, history, InStep
  <2>5. SetOnce'
    BY <1>19 DEF NtpSync, statics, main, history, SetOnce
  <2>6. QED
    BY <2>1, <2>2, <2>3, <2>4, <2>5
<1>20. ASSUME Crash PROVE IInv'
  <2>1. TypeOK'
    <3>1. chip' \in [time : Dates \union {Junk}, of : BOOLEAN]
      BY <1>20 DEF Crash, clocks, TypeOK
    <3>2. nevent' \in 0..MaxEvents /\ locks' \in 0..MaxEvents
      BY <1>20, ClockAssumption DEF Crash, Event, Ends, TypeOK
    <3>3. oscfailed' \in BOOLEAN /\ faulty' \in BOOLEAN /\ dateFailed' \in BOOLEAN
      BY <1>20 DEF Crash, history, Ends, TypeOK
    <3>4. sys' \in Dates \union {Junk, NoTime} /\ ntp' \in BOOLEAN /\ kept' \in BOOLEAN
      BY <1>20 DEF Crash, clocks, history, TypeOK
    <3>5. /\ rtc_state' \in {"uninitialized", "running", "not_synced"}
           /\ dt' \in Dates \union {Junk} /\ cmd' \in Dates \union {NoTime}
           /\ pc' \in {"down", "flags", "get", "ntp", "ntpflag", "again", "ntpget", "start",
                     "loop", "set", "flag", "readback", "date"}
           /\ mode' \in {"off", "reduced", "normal"}
           /\ coap' \in {"off", "idle", "get", "holds"}
      BY <1>20 DEF Crash, Ends, TypeOK
    <3>6. QED
      BY <3>1, <3>2, <3>3, <3>4, <3>5 DEF TypeOK
  <2>2. Control'
    BY <1>20 DEF Crash, Event, Ends, TypeOK, Control, Setting
  <2>3. TimeIsSet'
    BY <1>20 DEF Crash, clocks, Ends, TimeIsSet
  <2>4. InStep'
    BY <1>20 DEF Crash, clocks, history, Ends, InStep
  <2>5. SetOnce'
    BY <1>20 DEF Crash, clocks, history, Ends, SetOnce
  <2>6. QED
    BY <2>1, <2>2, <2>3, <2>4, <2>5
<1>21. ASSUME PowerFails PROVE IInv'
  <2>1. TypeOK'
    <3>1. chip' \in [time : Dates \union {Junk}, of : BOOLEAN]
      <4>1. CASE UNCHANGED <<chip, kept>>
        BY <4>1 DEF TypeOK
      <4>2. CASE chip' = [time |-> Junk, of |-> TRUE]
        BY <4>2
      <4>3. QED
        BY <1>21, <4>1, <4>2 DEF PowerFails
    <3>2. nevent' \in 0..MaxEvents /\ locks' \in 0..MaxEvents
      BY <1>21, ClockAssumption DEF PowerFails, Event, Ends, TypeOK
    <3>3. oscfailed' \in BOOLEAN /\ faulty' \in BOOLEAN /\ dateFailed' \in BOOLEAN
      BY <1>21 DEF PowerFails, Ends, TypeOK
    <3>4. sys' \in Dates \union {Junk, NoTime} /\ ntp' \in BOOLEAN /\ kept' \in BOOLEAN
      BY <1>21 DEF PowerFails, TypeOK
    <3>5. /\ rtc_state' \in {"uninitialized", "running", "not_synced"}
           /\ dt' \in Dates \union {Junk} /\ cmd' \in Dates \union {NoTime}
           /\ pc' \in {"down", "flags", "get", "ntp", "ntpflag", "again", "ntpget", "start",
                     "loop", "set", "flag", "readback", "date"}
           /\ mode' \in {"off", "reduced", "normal"}
           /\ coap' \in {"off", "idle", "get", "holds"}
      BY <1>21 DEF PowerFails, Ends, TypeOK
    <3>6. QED
      BY <3>1, <3>2, <3>3, <3>4, <3>5 DEF TypeOK
  <2>2. Control'
    BY <1>21 DEF PowerFails, Event, Ends, TypeOK, Control, Setting
  <2>3. TimeIsSet'
    BY <1>21 DEF PowerFails, Ends, TimeIsSet
  <2>4. InStep'
    BY <1>21, ClockAssumption DEF PowerFails, Ends, InStep
  <2>5. SetOnce'
    BY <1>21 DEF PowerFails, Ends, SetOnce
  <2>6. QED
    BY <2>1, <2>2, <2>3, <2>4, <2>5
<1>22. ASSUME Boot PROVE IInv'
  <2>1. TypeOK'
    BY <1>22 DEF Boot, clocks, statics, history, TypeOK
  <2>2. Control'
    BY <1>22 DEF Boot, statics, Control, Setting
  <2>3. TimeIsSet'
    BY <1>22 DEF Boot, clocks, Control, TimeIsSet
  <2>4. InStep'
    BY <1>22 DEF Boot, clocks, history, InStep
  <2>5. SetOnce'
    BY <1>22 DEF Boot, clocks, statics, history, SetOnce
  <2>6. QED
    BY <2>1, <2>2, <2>3, <2>4, <2>5
<1>23. CASE UNCHANGED vars
  BY <1>23 DEF vars, clocks, statics, main, history, TypeOK, Control, TimeIsSet, InStep,
     SetOnce
<1>24. QED
  BY <1>1, <1>2, <1>3, <1>4, <1>5, <1>5a, <1>5b, <1>6, <1>7, <1>8, <1>9, <1>10, <1>10a, <1>11, <1>12, <1>13,
     <1>14, <1>15, <1>16, <1>17, <1>18, <1>19, <1>20, <1>21, <1>22, <1>23 DEF Next, Start,
     Command

-----------------------------------------------------------------------------
(* Theorems *)

\* The inductive invariant holds in every reachable state.
THEOREM Invariance == Spec => []IInv
<1>1. Init => IInv
  BY InitHolds
<1>2. IInv /\ [Next]_vars => IInv'
  BY StepHolds
<1>3. QED
  BY <1>1, <1>2, PTL DEF Spec

\* Type correctness of Clock; the recursive mutex of rtc.c is never held more often
\* than there were commands.
THEOREM TypeCorrect == Spec => []TypeOK
<1>1. IInv => TypeOK
  BY DEF IInv
<1>2. QED
  BY <1>1, Invariance, PTL

\* main() is in its normal loop, which acquires data, only with a system time, which
\* is a date unless something failed.
THEOREM NormalHasTime == Spec => []NormalModeHasTime
<1>1. IInv => NormalModeHasTime
  BY DEF IInv, TypeOK, TimeIsSet, InStep, NormalModeHasTime
<1>2. QED
  BY <1>1, Invariance, PTL

\* Unless a transfer or a command failed, rtc_init() and rtc_set_dt() leave the chip
\* and the system with the same time, or the system with a date testdt() refuses.
THEOREM ClocksStayEqual == Spec => []ClocksAgree
<1>1. IInv => ClocksAgree
  BY DEF IInv, InStep, ClocksAgree
<1>2. QED
  BY <1>1, Invariance, PTL

\* A chip that rtc4162_set() wrote once is accepted by every later rtc_init().
THEOREM OnceIsEnough == Spec => []SetOnceIsEnough
<1>1. IInv => SetOnceIsEnough
  BY DEF IInv, SetOnce, SetOnceIsEnough
<1>2. QED
  BY <1>1, Invariance, PTL
=============================================================================

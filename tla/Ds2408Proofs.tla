---------------------------- MODULE Ds2408Proofs ----------------------------
(***************************************************************************)
(* The restore of a device's outputs, for any number of outputs and        *)
(* latches: type correctness, OutputsComeBack, RestoresOnlyWhatWasOn and   *)
(* PressIsReal of Ds2408.                                                  *)
(***************************************************************************)
EXTENDS Ds2408, TLAPS

\* A restore under way has taken the reset it restores from.
TakenForRestore == pc \in {"restore", "levels"} => ~pending

(***************************************************************************)
(* Where the outputs as they have to be are kept.  A reset moves them: at  *)
(* first the copy of the registers has them, from the read that sees the   *)
(* flag to the restore wdt_out has them, then the copy again.              *)
(***************************************************************************)
KeptInWdt == sure /\ (pending \/ pc = "restore") => wknown /\ wout = want
KeptInCopy ==
  sure /\ ~pending /\ pc # "restore" =>
    known /\ out = want /\ (dflag \/ mode = "boot" \/ dout = want)

\* What is known of the outputs was on at some time.
WasOn == /\ dout \subseteq ever
         /\ known => out \subseteq ever
         /\ wknown => wout \subseteq ever

\* An alarm the device answered has its latches, and has not handed them yet.
AsRead == pc = "alarm" => handed = {} /\ (stat = "ok" => last = seen)

Inv == TypeOK /\ TakenForRestore /\ KeptInWdt /\ KeptInCopy /\ WasOn /\ AsRead

-----------------------------------------------------------------------------
(***************************************************************************)
(* The steps keep the invariant, one lemma per operation.                  *)
(***************************************************************************)
LEMMA InitInv == Init => Inv
  BY Ds2408Assumption
     DEF Init, Inv, TypeOK, OpState, TakenForRestore, KeptInWdt, KeptInCopy,
         WasOn, AsRead

\* A register read, whatever it is followed by
LEMMA RegReadInv ==
  ASSUME Inv, pc = "free",
         NEW next \in {"free", "latch", "alarm"}, RegRead(next),
         UNCHANGED <<device, latched, busy, ever>>,
         handed' = handed \/ handed' = {}, next = "alarm" => handed' = {}
  PROVE  Inv'
<1> USE Ds2408Assumption DEF device, watchdog
<1>1. CASE GoodRead /\ pc' = next
  <2>1. TypeOK'
    BY <1>1 DEF Inv, TypeOK, OpState, GoodRead, SeeStatus, PrevOut
  <2>2. TakenForRestore'
    BY <1>1 DEF TakenForRestore
  <2>3. KeptInWdt' /\ KeptInCopy'
    BY <1>1 DEF Inv, TypeOK, KeptInWdt, KeptInCopy, GoodRead, SeeStatus, PrevOut
  <2>4. WasOn'
    BY <1>1 DEF Inv, TypeOK, WasOn, GoodRead, SeeStatus, PrevOut
  <2>5. AsRead'
    BY <1>1 DEF Inv, AsRead, GoodRead
  <2> QED BY <2>1, <2>2, <2>3, <2>4, <2>5 DEF Inv
<1>2. CASE NoAnswer /\ \/ last' = Latches /\ pc' = next
                       \/ UNCHANGED last /\ pc' = "free"
  BY <1>2 DEF Inv, TypeOK, OpState, TakenForRestore, KeptInWdt, KeptInCopy, WasOn,
              AsRead, NoAnswer, SeeStatus
<1>3. CASE BadCrc /\ pc' = "free"
  BY <1>3 DEF Inv, TypeOK, OpState, TakenForRestore, KeptInWdt, KeptInCopy, WasOn,
              AsRead, BadCrc
<1> QED BY <1>1, <1>2, <1>3 DEF RegRead

\* The rest of an alarm, of a discovery, and latch.*
LEMMA LatchInv ==
  ASSUME Inv, AlarmDone \/ BeginDone \/ ClearLatches
  PROVE  Inv'
<1> USE Ds2408Assumption DEF LatchReset, FlagKept, latchCopy, watchdog, history
<1>1. CASE AlarmDone
  BY <1>1 DEF AlarmDone, Usable, Inv, TypeOK, OpState, TakenForRestore, KeptInWdt,
              KeptInCopy, WasOn, AsRead
<1>2. CASE BeginDone
  BY <1>2 DEF BeginDone, Inv, TypeOK, OpState, TakenForRestore, KeptInWdt,
              KeptInCopy, WasOn, AsRead
<1>3. CASE ClearLatches
  BY <1>3 DEF ClearLatches, Inv, TypeOK, OpState, TakenForRestore, KeptInWdt,
              KeptInCopy, WasOn, AsRead
<1> QED BY <1>1, <1>2, <1>3

\* A write of one output
LEMMA PinSwitchInv ==
  ASSUME Inv, NEW p \in FsPins, NEW on \in BOOLEAN, PinSwitch(p, on)
  PROVE  Inv'
<1> USE Ds2408Assumption DEF PinSwitch, latchCopy, watchdog
<1> DEFINE pio == PinSet(out, p, on)
           wanted == IF pending THEN want ELSE PinSet(want, p, on)
<1>1. pio \subseteq Pins /\ wanted \subseteq Pins
  BY DEF Inv, TypeOK, PinSet
<1>2. sure /\ ~pending => wanted = pio
  BY DEF Inv, KeptInCopy
<1>3. pending => wanted = want
  OBVIOUS
<1>4. PioSet(pio, wanted)
  OBVIOUS
<1> HIDE DEF pio, wanted
<1>5. TypeOK'
  BY <1>1, <1>4 DEF Inv, TypeOK, OpState, PioSet, OutIfAnswered, LatchReset, FlagKept
<1>6. KeptInWdt' /\ KeptInCopy'
  <2>1. KeptInWdt'
    BY <1>1, <1>2, <1>3, <1>4 DEF Inv, KeptInWdt, PioSet, OutIfAnswered, LatchReset, FlagKept
  <2>2. KeptInCopy'
    BY <1>1, <1>2, <1>3, <1>4 DEF Inv, KeptInCopy, PioSet, OutIfAnswered, LatchReset, FlagKept
  <2> QED BY <2>1, <2>2
<1>7. WasOn'
  BY <1>4 DEF Inv, WasOn, PioSet, OutIfAnswered
<1> QED
  BY <1>5, <1>6, <1>7 DEF Inv, TakenForRestore, AsRead

\* The three steps of a restore
LEMMA RestoreInv ==
  ASSUME Inv, Restore \/ RestoreOutputs \/ RestoreEnd
  PROVE  Inv'
<1> USE Ds2408Assumption DEF latchCopy, watchdog
<1>1. CASE Restore
  BY <1>1 DEF Restore, StatusClear, Inv, TypeOK, OpState, TakenForRestore, KeptInWdt,
              KeptInCopy, WasOn, AsRead
<1>2. CASE RestoreOutputs
  <2>1. CASE wknown /\ ~busy
    <3>1. PioSet(wout, want)
      BY <1>2, <2>1 DEF RestoreOutputs, OutputsKnown
    <3>2. TypeOK'
      <4>1. TypeOK
        BY DEF Inv
      <4>2. /\ dout' \subseteq Pins /\ out' \subseteq Pins /\ want' \subseteq Pins
            /\ known' \in BOOLEAN /\ sure' \in BOOLEAN
        BY ONLY <3>1, <4>1 DEF PioSet, OutIfAnswered, TypeOK
      <4>3. ever' \subseteq Pins
        BY ONLY <3>1, <4>1 DEF PioSet, OutIfAnswered, TypeOK
      <4>4. dlatch' \subseteq Buttons /\ dflag' \in BOOLEAN
        BY ONLY <3>1, <4>1 DEF PioSet, LatchReset, FlagKept, TypeOK
      <4>5. pc' = "levels" /\ UNCHANGED <<mode, stat, latchCopy, watchdog, busy>>
        BY <1>2 DEF RestoreOutputs
      <4> QED BY ONLY <4>1, <4>2, <4>3, <4>4, <4>5, <1>2
              DEF TypeOK, OpState, RestoreOutputs, latchCopy, watchdog
    <3>3. TakenForRestore'
      BY <1>2 DEF RestoreOutputs, Inv, TakenForRestore
    <3>4. KeptInWdt'
      BY <1>2, <3>1 DEF RestoreOutputs, Inv, KeptInWdt, PioSet, OutIfAnswered, LatchReset,
                        FlagKept
    <3>5. KeptInCopy'
      <4>1. sure => wout = want
        BY <1>2, <2>1 DEF RestoreOutputs, Inv, KeptInWdt
      <4>2. sure' => sure /\ known' /\ out' = wout /\ dout' = wout /\ want' = want
        BY <3>1 DEF PioSet
      <4> QED BY ONLY <4>1, <4>2 DEF KeptInCopy
    <3>6. WasOn' /\ AsRead'
      BY <1>2, <2>1, <3>1 DEF RestoreOutputs, Inv, WasOn, AsRead, PioSet, OutIfAnswered
    <3> QED BY <3>2, <3>3, <3>4, <3>5, <3>6 DEF Inv
  <2>2. CASE ~(wknown /\ ~busy)
    BY <1>2, <2>2 DEF RestoreOutputs, OutputsKnown, Inv, TypeOK, OpState,
                      TakenForRestore, KeptInWdt, KeptInCopy, WasOn, AsRead
  <2> QED BY <2>1, <2>2
<1>3. CASE RestoreEnd
  BY <1>3 DEF RestoreEnd, StatusClear, Inv, TypeOK, OpState, TakenForRestore,
              KeptInWdt, KeptInCopy, WasOn, AsRead
<1> QED BY <1>1, <1>2, <1>3

\* The firmware update
LEMMA FirmwareInv ==
  ASSUME Inv, Firmware
  PROVE  Inv'
<1> USE Ds2408Assumption DEF device, latchCopy, watchdog, history
<1>1. CASE FwStart
  BY <1>1 DEF FwStart, Inv, TypeOK, OpState, TakenForRestore, KeptInWdt, KeptInCopy,
              WasOn, AsRead
<1>2. CASE FwEnter
  BY <1>2 DEF FwEnter, Inv, TypeOK, OpState, TakenForRestore, KeptInWdt, KeptInCopy,
              WasOn, AsRead
<1>3. CASE FwFailed
  BY <1>3 DEF FwFailed, Inv, TypeOK, OpState, TakenForRestore, KeptInWdt, KeptInCopy,
              WasOn, AsRead
<1>4. CASE FwDone
  <2>1. TypeOK'
    BY <1>4 DEF FwDone, NoAnswer, BadCrc, SeeStatus, PrevOut, Inv, TypeOK, OpState
  <2>2. TakenForRestore' /\ AsRead'
    BY <1>4 DEF FwDone, TakenForRestore, AsRead
  <2>3. KeptInWdt' /\ KeptInCopy'
    BY <1>4 DEF FwDone, NoAnswer, BadCrc, SeeStatus, PrevOut, Inv, TypeOK,
                KeptInWdt, KeptInCopy
  <2>4. WasOn'
    BY <1>4 DEF FwDone, NoAnswer, BadCrc, SeeStatus, PrevOut, Inv, TypeOK, WasOn
  <2> QED BY <2>1, <2>2, <2>3, <2>4 DEF Inv
<1> QED BY <1>1, <1>2, <1>3, <1>4 DEF Firmware

\* The device by itself
LEMMA DeviceInv ==
  ASSUME Inv, Device
  PROVE  Inv'
<1> USE Ds2408Assumption DEF latchCopy, watchdog, history
<1>1. ASSUME NEW b \in Buttons, Press(b) PROVE Inv'
  BY <1>1 DEF Press, Inv, TypeOK, OpState, TakenForRestore, KeptInWdt, KeptInCopy,
              WasOn, AsRead
<1>2. CASE Reset
  BY <1>2 DEF Reset, Inv, TypeOK, OpState, TakenForRestore, KeptInWdt, KeptInCopy,
              WasOn, AsRead
<1> QED BY <1>1, <1>2 DEF Device

LEMMA StutterInv ==
  ASSUME Inv, UNCHANGED vars
  PROVE  Inv'
  BY DEF vars, device, latchCopy, watchdog, history, Inv, TypeOK, TakenForRestore,
         KeptInWdt, KeptInCopy, WasOn, AsRead

LEMMA StepInv == Inv /\ [Next]_vars => Inv'
<1> SUFFICES ASSUME Inv, [Next]_vars PROVE Inv'
  OBVIOUS
<1>1. CASE AlarmRead
  BY <1>1, RegReadInv DEF AlarmRead
<1>2. CASE AlarmDone \/ BeginDone \/ ClearLatches
  BY <1>2, LatchInv
<1>3. CASE Begin
  BY <1>3, RegReadInv DEF Begin
<1>4. CASE ReadRegisters
  BY <1>4, RegReadInv DEF ReadRegisters
<1>5. CASE WatchdogRestore
  BY <1>5, RestoreInv DEF WatchdogRestore
<1>6. CASE Firmware
  BY <1>6, FirmwareInv
<1>7. ASSUME NEW p \in FsPins, NEW on \in BOOLEAN, PinSwitch(p, on) PROVE Inv'
  BY <1>7, PinSwitchInv
<1>8. CASE Device
  BY <1>8, DeviceInv
<1>9. CASE UNCHANGED vars
  BY <1>9, StutterInv
<1> QED
  BY <1>1, <1>2, <1>3, <1>4, <1>5, <1>6, <1>7, <1>8, <1>9
     DEF Next, Alarm, Discovery, Files

LEMMA Invariance == Spec => []Inv
  BY InitInv, StepInv, PTL DEF Spec

-----------------------------------------------------------------------------

\* The variables keep their types (the copy of the registers, its latches and
\* the reset to restore from).
THEOREM TypeCorrect == Spec => []TypeOK
<1>1. Inv => TypeOK
  BY DEF Inv
<1> QED BY <1>1, Invariance, PTL

\* However resets, restores, updates, reads and writes interleave, the outputs
\* are as they have to be when nothing is under way (reg_read(), pio_set(),
\* watchdog_restore()).
THEOREM OutputsRestored == Spec => []OutputsComeBack
<1>1. Inv => OutputsComeBack
  BY DEF Inv, KeptInCopy, OutputsComeBack, Quiet
<1> QED BY <1>1, Invariance, PTL

\* A restore switches on only what was on at some time (watchdog_restore()
\* and wdt_out_known).
THEOREM RestoreIsNoGuess == Spec => RestoresOnlyWhatWasOn
<1>1. Inv /\ [Next]_vars => [pc = "restore" => dout' \ dout \subseteq ever]_vars
  <2> SUFFICES ASSUME Inv, Next, pc = "restore" PROVE dout' \ dout \subseteq ever
    BY DEF vars
  <2>1. CASE RestoreOutputs
    BY <2>1 DEF RestoreOutputs, OutputsKnown, PioSet, Inv, WasOn
  <2>2. CASE Device
    BY <2>2 DEF Device, Reset, Press
  <2> QED
    BY <2>1, <2>2
       DEF Next, Alarm, AlarmRead, AlarmDone, Discovery, Begin, BeginDone,
           WatchdogRestore, Restore, RestoreEnd, Firmware, FwStart, FwEnter, FwFailed,
           FwDone, Files, ReadRegisters, ClearLatches, PinSwitch
<1> QED
  BY <1>1, Invariance, PTL DEF Spec, RestoresOnlyWhatWasOn

\* The alarm handling hands the switches no latch the device did not have
\* when it was read (alarm_read(), dev_alarm()).
THEOREM PressesAreReal == Spec => PressIsReal
<1>1. Inv /\ [Next]_vars => [pc = "alarm" => handed' \subseteq seen]_vars
  <2> SUFFICES ASSUME Inv, Next, pc = "alarm" PROVE handed' \subseteq seen
    BY DEF vars
  <2>1. CASE AlarmDone
    BY <2>1 DEF AlarmDone, Usable, Inv, AsRead
  <2>2. CASE Device
    BY <2>2 DEF Device, Reset, Press, latchCopy, Inv, AsRead
  <2> QED
    BY <2>1, <2>2
       DEF Next, Alarm, AlarmRead, Discovery, Begin, BeginDone,
           WatchdogRestore, Restore, RestoreOutputs, RestoreEnd, Firmware, FwStart,
           FwEnter, FwFailed, FwDone, Files, ReadRegisters, ClearLatches, PinSwitch
<1> QED
  BY <1>1, Invariance, PTL DEF Spec, PressIsReal

=============================================================================

------------------------------- MODULE Ds2408 -------------------------------
(***************************************************************************)
(* One owSlave ("ds2408"): the copy of its registers the daemon keeps, its *)
(* latches, and the restore of its outputs after a reset (src/ds2408.cpp). *)
(*                                                                         *)
(* Every operation holds the device lock from start to end, so an action   *)
(* is an operation - or a part of one between two bus transactions, where  *)
(* the device itself may move: a button is pressed, the watchdog resets    *)
(* it.  The worker runs the alarm handling and the restores, the FUSE      *)
(* threads read and write registers, the update thread has the device to   *)
(* itself while fw_busy is set.                                            *)
(***************************************************************************)
EXTENDS FiniteSets

CONSTANTS
  Pins,        \* the device's outputs
  Latches,     \* its eight latches
  Buttons,     \* those with a button
  FsPins,      \* the outputs that are written by anybody
  Updates      \* is a firmware update ever written?

ASSUME Ds2408Assumption ==
  /\ Buttons \subseteq Latches /\ Buttons # Latches
  /\ FsPins \subseteq Pins
  /\ Updates \in BOOLEAN

VARIABLES
  (* the device *)
  dout,    \* the outputs it drives on
  dlatch,  \* its latches
  dflag,   \* its reset flag, STAT_WATCHDOG in the status register
  mode,    \* "app", or "boot": in its bootloader
  (* the daemon, all of it under the device lock *)
  out,     \* data[PIO_OUT], as the set of outputs that are on
  stat,    \* data[STAT]: "ok", "reset", or "none": read as 0xff
  last,    \* last_latch
  latched, \* latched, the files latch.*
  known,   \* out_known
  pending, wout, wknown,  \* wdt_pending, wdt_out, wdt_out_known
  busy,    \* fw_busy
  pc,      \* the operation that holds the lock
  (* history *)
  handed,  \* the latches the last alarm handed to the switches
  seen,    \* the device's latches as the last read got them
  want,    \* the outputs as they have to be
  sure,    \* want is what they have to be: not after a failed access
  ever     \* the outputs that were on at some time

device == <<dout, dlatch, dflag, mode>>
latchCopy == <<last, latched, handed, seen>>
watchdog == <<pending, wout, wknown>>
history == <<want, sure, ever>>
vars == <<device, out, stat, latchCopy, known, watchdog, busy, pc, history>>

OpState == {"free", "latch", "alarm", "restore", "levels"}

Init ==
  /\ dout \in SUBSET Pins
  /\ dlatch \in SUBSET Buttons
  /\ dflag \in BOOLEAN
  /\ mode = "app"
  /\ out = Pins        \* data[] starts as zeroes: everything on
  /\ stat = "ok"
  /\ last = {}
  /\ latched = {}
  /\ known = FALSE
  /\ pending = FALSE
  /\ wout = Pins
  /\ wknown = FALSE
  /\ busy = FALSE
  /\ pc = "free"
  /\ handed = {}
  /\ seen = {}
  /\ want = dout /\ sure = FALSE
  /\ ever = dout

-----------------------------------------------------------------------------
(***************************************************************************)
(* reg_read(): the registers are read, over and over until they come with  *)
(* a good CRC; the latches are reset as a transaction of its own.  The     *)
(* ways it ends: a good answer; no answer, which reads as ones; a bad CRC  *)
(* on every retry, which leaves everything alone.                          *)
(***************************************************************************)
\* What a restore has to put back, if this read is the first to see the flag
OutAsRead == dout                       \* mutant: taken after the copy
PrevOut == out

\* wdt_pending and the others, from the status just read
SeeStatus(s) ==
  IF s = "reset"
    THEN /\ pending' = TRUE
         /\ wout' = IF pending THEN wout ELSE PrevOut
         /\ wknown' = IF pending THEN wknown ELSE known
         /\ known' = FALSE
    ELSE /\ known' = (known \/ (s = "ok" /\ ~pending))
         /\ UNCHANGED watchdog

GoodRead ==
  /\ mode = "app"
  /\ LET s == IF dflag THEN "reset" ELSE "ok" IN
       /\ stat' = s
       /\ SeeStatus(s)
  /\ out' = dout
  /\ last' = dlatch
  /\ seen' = dlatch
  /\ IF ~sure /\ ~dflag /\ ~pending THEN want' = dout /\ sure' = TRUE
                                     ELSE UNCHANGED <<want, sure>>

\* The registers as read are taken over, with all bits set: every output off.
NoAnswer ==
  /\ stat' = "none"
  /\ SeeStatus("none")
  /\ out' = {}
  /\ seen' = {}
  /\ sure' = FALSE /\ UNCHANGED want

BadCrc ==
  /\ seen' = {}
  /\ UNCHANGED <<stat, out, last, known, watchdog, want, sure>>

\* next is where the operation goes on to reset the latches, "free" if not.
\* When the bus failed and next is "free", or the last retry had a bad CRC
\* after one without an answer, it ends before last_latch is set.
RegRead(next) ==
  /\ ~busy
  /\ \/ GoodRead /\ pc' = next
     \/ NoAnswer /\ last' = Latches /\ pc' = next
     \/ NoAnswer /\ UNCHANGED last /\ pc' = "free"
     \/ BadCrc /\ pc' = "free"

\* An uncached read, or poll(): the latches are left alone.
ReadRegisters ==
  /\ pc = "free"
  /\ RegRead("free")
  /\ UNCHANGED <<device, latched, handed, busy, ever>>

\* begin() of a device a search has found
Begin ==
  /\ pc = "free"
  /\ RegRead("latch")
  /\ UNCHANGED <<device, latched, handed, busy, ever>>

\* dev_alarm(): alarm_read(), what it does before the latches are reset
AlarmRead ==
  /\ pc = "free"
  /\ RegRead("alarm")
  /\ handed' = {}
  /\ UNCHANGED <<device, latched, busy, ever>>

\* What the device does with a latch reset: the flag stays for status_clear()
FlagKept == UNCHANGED dflag

\* latch_reset(): the answer may be lost, or the command.
LatchReset ==
  \/ mode = "app" /\ dlatch' = {} /\ FlagKept
  \/ UNCHANGED <<dlatch, dflag>>

BeginDone ==
  /\ pc = "latch"
  /\ LatchReset
  /\ pc' = "free"
  /\ UNCHANGED <<dout, mode, out, stat, latchCopy, known, watchdog, busy, history>>

(***************************************************************************)
(* The rest of alarm_read() and dev_alarm().  A device that was reset, or  *)
(* did not answer, hands nothing to the switches.  A failed latch reset    *)
(* does not keep the latches from being handed over.                       *)
(***************************************************************************)
UsableAlways(s, l) == TRUE                                          \* mutant
Usable(s, l) == s = "ok" /\ l # Latches

AlarmDone ==
  /\ pc = "alarm"
  /\ LatchReset
  /\ latched' = IF last # Latches THEN latched \cup last ELSE latched
  /\ handed' = IF Usable(stat, last) THEN last ELSE {}
  /\ pc' = "free"
  /\ UNCHANGED <<dout, mode, out, stat, last, seen, known, watchdog, busy, history>>

\* latch.*: cleared from the file system; the device's latches are reset if
\* the registers as last read had any.
ClearLatches ==
  /\ pc = "free" /\ ~busy
  /\ LatchReset
  /\ latched' = {}
  /\ UNCHANGED <<dout, mode, out, stat, last, handed, seen, known, watchdog, busy,
                 pc, history>>

(***************************************************************************)
(* pio_set(): all outputs in one write.  The answer may be lost, the copy  *)
(* then stays as it was.  A good one resets the latches.                   *)
(***************************************************************************)
OutIfAnswered(pio) == UNCHANGED out

PioSet(pio, wanted) ==
  \/ /\ mode = "app"
     /\ dout' = pio
     /\ out' = pio
     /\ known' = TRUE
     /\ ever' = ever \cup pio
     /\ want' = wanted
     /\ UNCHANGED sure
     /\ LatchReset
  \/ /\ dout' \in {dout} \cup (IF mode = "app" THEN {pio} ELSE {})
     /\ OutIfAnswered(pio)
     /\ ever' = ever \cup dout'
     /\ sure' = FALSE
     /\ UNCHANGED <<want, known, dlatch, dflag>>

PinSet(S, p, on) == IF on THEN S \cup {p} ELSE S \ {p}

\* pin_switch(), w_pio(), w_byte(): from the copy.  Before a restore the
\* device is about to be set to what it was, whatever is written.
PinSwitch(p, on) ==
  /\ pc = "free" /\ ~busy
  /\ PioSet(PinSet(out, p, on), IF pending THEN want ELSE PinSet(want, p, on))
  /\ UNCHANGED <<mode, stat, latchCopy, watchdog, busy, pc>>

(***************************************************************************)
(* watchdog_restore(), by the worker when it finds wdt_pending set.        *)
(***************************************************************************)
\* status_clear() does not look at fw_busy.
StatusClear ==
  \/ mode = "app" /\ dflag' = FALSE /\ stat' = IF stat = "none" THEN stat ELSE "ok"
  \/ UNCHANGED <<dflag, stat>>

Restore ==
  /\ pc = "free"
  /\ pending
  /\ pending' = FALSE
  /\ StatusClear
  /\ pc' = "restore"
  /\ UNCHANGED <<dout, dlatch, mode, out, latchCopy, known, wout, wknown, busy,
                 want, sure, ever>>

RestoreAnyway == TRUE                                               \* mutant
OutputsKnown == wknown

RestoreOutputs ==
  /\ pc = "restore"
  /\ IF OutputsKnown /\ ~busy THEN PioSet(wout, want)
     ELSE /\ sure' = FALSE
          /\ UNCHANGED <<dout, out, known, want, ever, dlatch, dflag>>
  /\ pc' = "levels"
  /\ UNCHANGED <<mode, stat, latchCopy, watchdog, busy>>

\* The PWM levels, and the look for a reset by the restore itself.
RestoreEnd ==
  /\ pc = "levels"
  /\ pending' = FALSE
  /\ IF pending THEN StatusClear ELSE UNCHANGED <<dflag, stat>>
  /\ pc' = "free"
  /\ UNCHANGED <<dout, dlatch, mode, out, latchCopy, known, wout, wknown, busy,
                 want, sure, ever>>

-----------------------------------------------------------------------------
(***************************************************************************)
(* The firmware update, as the rest of the device sees it: w_firmware(),   *)
(* fw_enter(), and the end of fw_run() - which reads the registers with    *)
(* the lock it has cleared fw_busy under.                                  *)
(***************************************************************************)
FwStart ==
  /\ Updates
  /\ pc = "free" /\ ~busy
  /\ busy' = TRUE
  /\ UNCHANGED <<device, out, stat, latchCopy, known, watchdog, pc, history>>

FwEnter ==
  /\ pc = "free" /\ busy /\ mode = "app"
  /\ mode' = "boot"
  /\ dout' = {} /\ dlatch' = {}
  /\ UNCHANGED <<dflag, out, stat, latchCopy, known, watchdog, busy, pc, history>>

FwFailed ==
  /\ pc = "free" /\ busy
  /\ busy' = FALSE
  /\ UNCHANGED <<device, out, stat, latchCopy, known, watchdog, pc, history>>

\* The application has started, with its reset flag set.
FwDone ==
  /\ pc = "free" /\ busy /\ mode = "boot"
  /\ busy' = FALSE
  /\ mode' = "app" /\ dout' = {} /\ dlatch' = {} /\ dflag' = TRUE
  /\ \/ /\ stat' = "reset" /\ SeeStatus("reset")
        /\ out' = {} /\ last' = {} /\ seen' = {}
        /\ UNCHANGED <<want, sure>>
     \/ NoAnswer /\ last' \in {last, Latches}
     \/ BadCrc
  /\ UNCHANGED <<latched, handed, pc, ever>>

-----------------------------------------------------------------------------
(***************************************************************************)
(* The device by itself.                                                   *)
(***************************************************************************)
Press(b) ==
  /\ mode = "app"
  /\ dlatch' = dlatch \cup {b}
  /\ UNCHANGED <<dout, dflag, mode, out, stat, latchCopy, known, watchdog, busy,
                 pc, history>>

\* The watchdog, a brown-out: every output off, the flag set.  A reset in the
\* bootloader starts the application, if there is one.
Reset ==
  /\ mode' \in {mode, "app"}
  /\ dout' = {} /\ dlatch' = {}
  /\ dflag' = (mode' = "app" \/ dflag)
  /\ UNCHANGED <<out, stat, latchCopy, known, watchdog, busy, pc, want, sure, ever>>

Alarm == AlarmRead \/ AlarmDone
Discovery == Begin \/ BeginDone
WatchdogRestore == Restore \/ RestoreOutputs \/ RestoreEnd
Firmware == FwStart \/ FwEnter \/ FwFailed \/ FwDone
Files == \/ ReadRegisters \/ ClearLatches
         \/ \E p \in FsPins, on \in BOOLEAN : PinSwitch(p, on)
Device == Reset \/ \E b \in Buttons : Press(b)

Next == Alarm \/ Discovery \/ WatchdogRestore \/ Firmware \/ Files \/ Device

Spec == Init /\ [][Next]_vars

-----------------------------------------------------------------------------
(***************************************************************************)
(* Properties                                                              *)
(***************************************************************************)

\* The variables keep their types.
TypeOK ==
  /\ dout \subseteq Pins /\ out \subseteq Pins
  /\ wout \subseteq Pins /\ ever \subseteq Pins
  /\ dlatch \subseteq Buttons /\ seen \subseteq Buttons
  /\ last \in (SUBSET Buttons) \cup {Latches}
  /\ latched \subseteq Buttons /\ handed \subseteq Buttons
  /\ dflag \in BOOLEAN /\ mode \in {"app", "boot"}
  /\ stat \in {"ok", "reset", "none"}
  /\ known \in BOOLEAN /\ pending \in BOOLEAN /\ wknown \in BOOLEAN
  /\ busy \in BOOLEAN
  /\ pc \in OpState
  /\ want \subseteq Pins /\ sure \in BOOLEAN

\* Nothing is under way, no reset is left to see or to restore.
Quiet == pc \in {"free", "latch", "alarm"} /\ mode = "app" /\ ~dflag /\ ~pending
         /\ ~busy

\* The outputs are as they were set, and the copy of the registers says so,
\* after any number of resets, restores, updates and writes between them -
\* unless an access has failed and nothing was read since (reg_read(),
\* watchdog_restore(); ReadMe.md "writes the cached state back (the outputs
\* as they were before the reset)").
OutputsComeBack == sure /\ Quiet => dout = want /\ out = want

\* A restore switches on nothing that was not on at some time: the zeroes the
\* copy starts with, all on, are never written to a device.
RestoresOnlyWhatWasOn == [][pc = "restore" => dout' \ dout \subseteq ever]_vars

\* No latch is handed to the switches that the device did not have when it was
\* read: no answer, a bad CRC, a reset make up no presses.
PressIsReal == [][pc = "alarm" => handed' \subseteq seen]_vars

\* ds2408.h: "data[PIO_OUT] holds what the device really drives" if out_known
OutKnownIsTrue == known /\ Quiet => out = dout

=============================================================================

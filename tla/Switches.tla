------------------------------ MODULE Switches ------------------------------
(***************************************************************************)
(* The switch handler: button presses, the off timers of timed switches,   *)
(* the dark flags, the masks and the "all lights off" target               *)
(* (src/switch_handler.cpp).                                               *)
(*                                                                         *)
(* One thread, the poll worker, handles presses and timers; it holds a     *)
(* lock only for a single device access or a single look at the timers.    *)
(* The FUSE threads switch outputs, set the flags and edit the table at    *)
(* any point between two such steps.  An action of the worker is what it   *)
(* does between two points where another thread can come in.               *)
(***************************************************************************)
EXTENDS Integers, Sequences, FiniteSets

CONSTANTS
  Pins,         \* the output pins a switch can drive
  AllOff,       \* the target 0.0.0, "every light off"
  Lights,       \* the pins with the role "light"
  Devs, DevOf,  \* the ds2408 devices, and the one each pin is on
  Rooms, NoRoom, RoomOf, \* the room each pin is in, NoRoom if none
  FsPins,       \* the pins users and plugins drive and read besides the switches
  Latches,      \* the button latches of the source device, numbered from 1
  PressTimes,   \* raw values of the device's press time register
  Entries,      \* the lines that are ever written to /switches/add
  InitTables,   \* the tables the saved configuration may hold
  MaxTable,     \* bound on the length of the table
  EditDuringPress,  \* may the table be edited while a press is handled?
  RescanDuringPress \* may a bus be scanned while a press is handled?

ASSUME PinsAssumption ==
  /\ AllOff \notin Pins
  /\ Lights \subseteq Pins
  /\ FsPins \subseteq Pins
  /\ DevOf \in [Pins -> Devs]
  /\ NoRoom \notin Rooms
  /\ RoomOf \in [Pins -> Rooms \cup {NoRoom}]

ASSUME LatchAssumption ==
  /\ Latches \subseteq 1..8
  /\ PressTimes \subseteq 0..255
  /\ MaxTable \in Nat
  /\ EditDuringPress \in BOOLEAN
  /\ RescanDuringPress \in BOOLEAN

(***************************************************************************)
(* A switch of the table: source latch and kind of press, target, seconds  *)
(* it stays on (0: a plain switch), whether a press while it is on         *)
(* switches off, whether it is for the dark only, whether it is masked.    *)
(***************************************************************************)
Press == 0..2   \* 0 short, 1 long and released, 2 long and still held
Source == (1..8) \X Press
Entry == [src : Source, dst : Pins \cup {AllOff}, secs : Nat,
          offOnPress : BOOLEAN, dark : BOOLEAN, disabled : BOOLEAN]

ASSUME EntriesAssumption ==
  /\ Entries \subseteq Entry
  /\ InitTables \subseteq Seq(Entry)
  /\ \A t \in InitTables : \A j, k \in 1..Len(t) :
       t[j].src = t[k].src /\ t[j].dst = t[k].dst => j = k

VARIABLES
  out,      \* each output: "off", or who switched it on
  copy,     \* data[PIO_OUT], the daemon's copy: is the pin on?
  timer,    \* seconds left of each output's off timer, NoTimer if none runs
  table,    \* cache.switches
  masked,   \* all switches masked (MODE_AUTO_SWITCH cleared)
  astro,    \* /switches/dark
  roomDark, \* the rooms' own flags: "dark", "day" or "follow" the astro flag
  pc,       \* where the worker is
  latches,  \* cur_latch: the latches of the alarm not handled yet
  press,    \* the press time read with them
  src,      \* the source being looked up
  idx,      \* index of switchHandle()'s loop
  cur,      \* the table slot idx refers to, as the worker sees it
  aim,      \* history: the target of the entry the worker is acting on
  byDay,    \* history: it was day, for a dark switch, when it looked at it
  expired,  \* timer_poll(): timers taken out, their output still to switch
  todo      \* role_switch(): devices still to visit

settings == <<table, masked, astro, roomDark>>
alarm == <<latches, press, src>>           \* the alarm being handled
slot == <<idx, cur, aim, byDay>>           \* the entry being looked at
outputs == <<out, copy>>
vars == <<outputs, timer, settings, pc, alarm, slot, expired, todo>>

(***************************************************************************)
(* "timed", "plain" and "outside" say who switched an output on: a timed   *)
(* switch, a plain one, a file or plugin; "stray": a write to another pin  *)
(* of its device, from a wrong copy.  "stuck" is an output that is on      *)
(* after an access that was to switch it and failed, "missed" one all-off  *)
(* has passed by.                                                          *)
(***************************************************************************)
OutState == {"off", "timed", "plain", "outside", "stray", "stuck", "missed"}
NoTimer == -1
WorkerState == {"idle", "take", "scan", "check", "act", "tstop", "ton",
                "tstart", "lightsoff", "expire"}

NoEntry == [src |-> <<1, 0>>, dst |-> AllOff, secs |-> 0,
            offOnPress |-> FALSE, dark |-> FALSE, disabled |-> FALSE]

(***************************************************************************)
(* srcData(): the kind of press from the press time register, in units of  *)
(* 32 ms; 0 is what the device reports while a long press is still held.   *)
(***************************************************************************)
PressKind(t) ==
  IF t = 255 THEN 0 ELSE IF t = 0 THEN 2 ELSE IF t > 350 \div 32 THEN 1 ELSE 0

\* bitnumber(): the lowest latch that is set
LowestLatch(L) == CHOOSE n \in L : \A m \in L : n <= m

\* is_dark(): the flag of the room if it has one, the astro flag otherwise
IsDark(room) ==
  IF room \in Rooms /\ roomDark[room] # "follow" THEN roomDark[room] = "dark"
                                                 ELSE astro

\* A switch for the dark only, by day
ByDay(e) == e.dark /\ e.dst # AllOff /\ ~IsDark(RoomOf[e.dst])

\* find(): a scan of the busses empties the list of devices and fills it
\* again, without a lock; meanwhile any device may be missing from it.
Found == {TRUE} \cup (IF RescanDuringPress THEN {FALSE} ELSE {})

\* cond_met(): a dark switch may only switch on in the dark.  All-off and the
\* outputs of a device that is not found are in no room.
CondMetByAstro(e, found) == e.dark => astro   \* mutant: not the room's flag
CondMet(e, found) ==
  e.dark => IsDark(IF e.dst = AllOff \/ ~found THEN NoRoom ELSE RoomOf[e.dst])

Lit(p) == out[p] # "off"

\* output_on() of an output: what the copy says; off, if its device is not
\* found
OutputOn(p) == {found /\ copy[p] : found \in Found}

(***************************************************************************)
(* pio_set() writes all pins of a device, the others as the copy has them, *)
(* and notes them in the copy when an answer was read.  The device's may   *)
(* be lost; or nothing reaches the device, and then what another one that  *)
(* is still sending says may pass for it (see OneWire).                    *)
(***************************************************************************)
PinsOf(d) == {p \in Pins : DevOf[p] = d}
InCopy(d) == {p \in PinsOf(d) : copy[p]}

\* The outputs of d after the pins in on were written to it, p by who
Written(d, on, p, who) ==
  [q \in Pins |->
     IF q \notin PinsOf(d) THEN out[q]
     ELSE IF q \notin on THEN "off"
     ELSE IF q = p THEN who
     ELSE IF out[q] = "off" THEN "stray" ELSE out[q]]

Noted(d, on) == [q \in Pins |-> IF q \in PinsOf(d) THEN q \in on ELSE copy[q]]

Answer(d, on) == copy' \in {Noted(d, on), copy}

PioSet(d, on, p, who) == out' = Written(d, on, p, who) /\ Answer(d, on)

(***************************************************************************)
(* actor_handle(): pin_switch() of the target's device, under its lock.    *)
(* When the bus access fails, or the device is not found, the output stays *)
(* as it is and nobody is told.                                            *)
(***************************************************************************)
Failed(p) == [out EXCEPT ![p] = IF @ = "off" THEN @ ELSE "stuck"]

WithPin(p, on) == IF on THEN InCopy(DevOf[p]) \cup {p} ELSE InCopy(DevOf[p]) \ {p}

ActorHandle(p, on, who) ==
  \/ PioSet(DevOf[p], WithPin(p, on), p, who)
  \/ out' = Failed(p) /\ Answer(DevOf[p], WithPin(p, on))

TimerNotStarted(p, secs) == UNCHANGED timer                         \* mutant
TimerStart(p, secs) == timer' = [timer EXCEPT ![p] = secs]
TimerKept(p) == UNCHANGED timer                                     \* mutant
TimerStop(p) == timer' = [timer EXCEPT ![p] = NoTimer]
TimerRunning(p) == timer[p] # NoTimer

\* The timers timer_poll() finds expired
ExpiredUnmasked == {p \in Pins : timer[p] = 0 /\ ~masked}            \* mutant
Expired == {p \in Pins : timer[p] = 0}

\* A second later; an expired timer waits at 0 for the next poll.
Aged(t) == IF t > 0 THEN t - 1 ELSE t

\* The lights role_switch() finds on, by the copy
LightsOn(d) == InCopy(d) \cap Lights

\* A line of /switches/add, del and the masks names a switch by its source
\* and its target.
SameSource(e, f) == e.src = f.src /\ e.dst = f.dst /\ e.secs = f.secs \* mutant
SameSwitch(e, f) == e.src = f.src /\ e.dst = f.dst

-----------------------------------------------------------------------------

Init ==
  /\ out \in [Pins -> {"off", "outside"}]
  /\ copy \in [Pins -> BOOLEAN]
  /\ \A d \in Devs : \/ \A p \in PinsOf(d) : copy[p]            \* never read
                     \/ \A p \in PinsOf(d) : ~copy[p]           \* no answer
                     \/ \A p \in PinsOf(d) : copy[p] = Lit(p)
  /\ timer = [p \in Pins |-> NoTimer]
  /\ table \in InitTables
  /\ masked \in BOOLEAN
  /\ astro = TRUE
  /\ roomDark = [r \in Rooms |-> "follow"]
  /\ pc = "idle"
  /\ latches = {}
  /\ press = 255
  /\ src = <<1, 0>>
  /\ idx = 1
  /\ cur = NoEntry
  /\ aim = AllOff
  /\ byDay = FALSE
  /\ expired = {}
  /\ todo = {}

(***************************************************************************)
(* The worker handles an alarm of the source device.                       *)
(***************************************************************************)
\* dev_alarm() has read and reset the latches; all eight set are no latches.
DevAlarm(L, t) ==
  /\ pc = "idle"
  /\ L # {} /\ L # 1..8
  /\ latches' = L
  /\ press' = t
  /\ pc' = "take"
  /\ UNCHANGED <<outputs, timer, settings, src, slot, expired, todo>>

\* The loop of dev_alarm(): one switchHandle() per latch, which looks at the
\* mask once, before it starts with the table.
TakeLatch ==
  /\ pc = "take"
  /\ latches # {}
  /\ LET n == LowestLatch(latches) IN
       /\ latches' = latches \ {n}
       /\ src' = <<n, PressKind(press)>>
  /\ pc' = IF masked THEN "take" ELSE "scan"
  /\ idx' = 1
  /\ UNCHANGED <<outputs, timer, settings, press, cur, aim, byDay, expired, todo>>

AlarmDone ==
  /\ pc = "take"
  /\ latches = {}
  /\ pc' = "idle"
  /\ src' = <<1, 0>> /\ press' = 255 /\ idx' = 1   \* dead from here on
  /\ UNCHANGED <<outputs, timer, settings, latches, cur, aim, byDay, expired, todo>>

NextEntry ==
  /\ pc' = "scan"
  /\ idx' = idx + 1
  /\ cur' = NoEntry /\ aim' = AllOff /\ byDay' = FALSE

\* One round of switchHandle()'s loop up to the evaluation of cond_met().
LookAt ==
  /\ pc = "scan"
  /\ \/ /\ idx > Len(table)
        /\ pc' = "take"
        /\ UNCHANGED slot
     \/ /\ idx <= Len(table)
        /\ table[idx].src # src \/ table[idx].disabled
        /\ NextEntry
     \/ /\ idx <= Len(table)
        /\ table[idx].src = src /\ ~table[idx].disabled
        /\ cur' = table[idx]
        /\ aim' = table[idx].dst
        /\ byDay' = ByDay(table[idx])
        /\ \E found \in Found :
             pc' = IF CondMet(table[idx], found) \/ table[idx].dst = AllOff
                     THEN "act" ELSE "check"
        /\ UNCHANGED idx
  /\ UNCHANGED <<outputs, timer, settings, alarm, expired, todo>>

\* Its condition is not met: the press may still switch the output off.
CheckLit ==
  /\ pc = "check"
  /\ \/ /\ cur.dst \in Pins /\ TRUE \in OutputOn(cur.dst)
        /\ pc' = "act"
        /\ UNCHANGED slot
     \/ /\ cur.dst \in Pins => FALSE \in OutputOn(cur.dst)
        /\ NextEntry
  /\ UNCHANGED <<outputs, timer, settings, alarm, expired, todo>>

\* A plain switch: TOGGLE, then the timer of the output is stopped.
Toggle ==
  /\ pc = "act"
  /\ cur.dst # AllOff /\ cur.secs = 0
  /\ ActorHandle(cur.dst, ~copy[cur.dst], "plain")
  /\ pc' = "tstop"
  /\ UNCHANGED <<timer, settings, alarm, slot, expired, todo>>

ToggleStop ==
  /\ pc = "tstop"
  /\ IF cur.dst \in Pins THEN TimerStop(cur.dst) ELSE UNCHANGED timer
  /\ NextEntry
  /\ UNCHANGED <<outputs, settings, alarm, expired, todo>>

\* switch_timed(), the look at the output: off, it is switched on next.
TimedFindsOff ==
  /\ pc = "act"
  /\ cur.dst # AllOff /\ cur.secs > 0
  /\ FALSE \in OutputOn(cur.dst)
  /\ pc' = "ton"
  /\ UNCHANGED <<outputs, timer, settings, alarm, slot, expired, todo>>

\* A leftover timer is stopped, the output switched on ...
TimedOn ==
  /\ pc = "ton"
  /\ IF cur.dst \in Pins
       THEN TimerStop(cur.dst) /\ ActorHandle(cur.dst, TRUE, "timed")
       ELSE UNCHANGED <<timer, outputs>>
  /\ pc' = "tstart"
  /\ UNCHANGED <<settings, alarm, slot, expired, todo>>

\* ... and its timer started, whether that worked or not.
TimedStart ==
  /\ pc = "tstart"
  /\ IF cur.dst \in Pins THEN TimerStart(cur.dst, cur.secs) ELSE UNCHANGED timer
  /\ NextEntry
  /\ UNCHANGED <<outputs, settings, alarm, expired, todo>>

\* switch_timed(), the output is on and the switch's on_press is "off".  The
\* timers are the worker's alone, so stopping it and switching off is one step.
TimedOff ==
  /\ pc = "act"
  /\ cur.dst # AllOff /\ cur.secs > 0
  /\ TRUE \in OutputOn(cur.dst) /\ cur.offOnPress
  /\ TimerStop(cur.dst)
  /\ ActorHandle(cur.dst, FALSE, "timed")
  /\ NextEntry
  /\ UNCHANGED <<settings, alarm, expired, todo>>

\* switch_timed(), on and on_press is "retrigger": only a running timer
\* starts again.
TimedRetrigger ==
  /\ pc = "act"
  /\ cur.dst # AllOff /\ cur.secs > 0
  /\ TRUE \in OutputOn(cur.dst) /\ ~cur.offOnPress
  /\ IF TimerRunning(cur.dst) THEN TimerStart(cur.dst, cur.secs)
                              ELSE UNCHANGED timer
  /\ NextEntry
  /\ UNCHANGED <<outputs, settings, alarm, expired, todo>>

\* all_off(): the timers of the lights are stopped first - those of the lights
\* whose device is found ...
AllOffTimers ==
  /\ pc = "act"
  /\ cur.dst = AllOff
  /\ \E found \in [Devs -> Found] :
       timer' = [p \in Pins |->
                   IF p \in Lights /\ found[DevOf[p]] THEN NoTimer ELSE timer[p]]
  /\ todo' = Devs
  /\ pc' = "lightsoff"
  /\ UNCHANGED <<outputs, settings, alarm, slot, expired>>

\* ... then role_switch() goes from device to device; each writes the lights
\* on it that its copy has on, under its lock, with one access that may fail.
\* When the copy has none nothing is written.
Unreached(d, state) ==
  [p \in Pins |-> IF p \in PinsOf(d) \cap Lights /\ Lit(p) THEN state ELSE out[p]]

LightsOff(d) ==
  /\ pc = "lightsoff"
  /\ d \in todo
  /\ LET on == InCopy(d) \ Lights IN
       \/ LightsOn(d) # {} /\ PioSet(d, on, AllOff, "off")
       \/ LightsOn(d) # {} /\ out' = Unreached(d, "stuck") /\ Answer(d, on)
       \/ LightsOn(d) = {} /\ out' = Unreached(d, "missed") /\ UNCHANGED copy
  /\ todo' = todo \ {d}
  /\ IF todo' = {} THEN NextEntry ELSE UNCHANGED <<pc, slot>>
  /\ UNCHANGED <<timer, settings, alarm, expired>>

(***************************************************************************)
(* The timers.                                                             *)
(***************************************************************************)
\* timer_poll(): the expired timers are erased under timers_mtx ...
TimerPoll ==
  /\ pc = "idle"
  /\ Expired # {}
  /\ expired' = Expired
  /\ timer' = [p \in Pins |-> IF p \in Expired THEN NoTimer ELSE timer[p]]
  /\ pc' = "expire"
  /\ UNCHANGED <<outputs, settings, alarm, slot, todo>>

\* ... and their outputs switched off after it is released.
Expire(p) ==
  /\ pc = "expire"
  /\ p \in expired
  /\ ActorHandle(p, FALSE, "timed")
  /\ expired' = expired \ {p}
  /\ pc' = IF expired' = {} THEN "idle" ELSE "expire"
  /\ UNCHANGED <<timer, settings, alarm, slot, todo>>

\* A second passes, whatever the worker is doing.
Tick ==
  /\ \E p \in Pins : timer[p] > 0
  /\ timer' = [p \in Pins |-> Aged(timer[p])]
  /\ UNCHANGED <<outputs, settings, pc, alarm, slot, expired, todo>>

(***************************************************************************)
(* The FUSE threads and the plugins.                                       *)
(***************************************************************************)
worker == <<pc, alarm, slot, expired, todo>>

\* A write to a pin, role or room file, or a plugin's pin_switch().
FsSwitch(p, on) ==
  /\ p \in FsPins
  /\ PioSet(DevOf[p], WithPin(p, on), p, IF Lit(p) THEN out[p] ELSE "outside")
  /\ UNCHANGED <<timer, settings, worker>>

\* reg_read(): the worker polls a device between two presses, a user reads a
\* file of one at any time.  A read without an answer is one of all pins off.
UsedDevs == {DevOf[p] : p \in FsPins}
RegRead(d) ==
  /\ pc = "idle" \/ d \in UsedDevs
  /\ copy' \in {[p \in Pins |-> IF p \in PinsOf(d) THEN answered /\ Lit(p) ELSE copy[p]] :
                  answered \in BOOLEAN}
  /\ UNCHANGED <<out, timer, settings, worker>>

\* /switches/dark and /rooms/<room>/dark, dark_set() and dark_clear()
DarkSet(d) ==
  /\ astro' = d
  /\ UNCHANGED <<outputs, timer, table, masked, roomDark, worker>>

RoomDarkSet(r, d) ==
  /\ roomDark' = [roomDark EXCEPT ![r] = d]
  /\ UNCHANGED <<outputs, timer, table, masked, astro, worker>>

\* /switches/disable and enable: "all", or one switch
MaskAll(d) ==
  /\ masked' = d
  /\ UNCHANGED <<outputs, timer, table, astro, roomDark, worker>>

Mask(e, d) ==
  /\ \E k \in 1..Len(table) : SameSwitch(table[k], e)
  /\ table' = [k \in 1..Len(table) |->
                 IF SameSwitch(table[k], e) THEN [table[k] EXCEPT !.disabled = d]
                                            ELSE table[k]]
  /\ UNCHANGED <<outputs, timer, masked, astro, roomDark, worker>>

\* The worker goes through the table with an index and holds a reference to
\* the slot it is at, and takes no lock: what it sees there moves with an edit.
Scanning == pc \notin {"idle", "expire", "take", "scan"}
MayEdit == EditDuringPress \/ pc \in {"idle", "expire"}
SeesEdit ==
  /\ cur' = IF Scanning /\ idx <= Len(table') THEN table'[idx] ELSE cur
  /\ UNCHANGED <<outputs, timer, masked, astro, roomDark, pc, alarm, idx, aim, byDay,
                 expired, todo>>

\* /switches/add: a switch that exists already is set anew, but for its mask.
Add(e) ==
  /\ MayEdit
  /\ LET same == {k \in 1..Len(table) : SameSwitch(table[k], e)} IN
       \/ /\ same = {}
          /\ Len(table) < MaxTable
          /\ table' = Append(table, e)
       \/ \E k \in same :
            /\ \A j \in same : k <= j
            /\ table' = [table EXCEPT ![k] =
                           [e EXCEPT !.disabled = table[k].disabled]]
  /\ SeesEdit

\* /switches/del: erase() moves the later switches up one slot.  No two
\* switches have the same source and target, so it erases one at most.
Del(e) ==
  /\ MayEdit
  /\ \E k \in 1..Len(table) :
       /\ SameSwitch(table[k], e)
       /\ table' = [j \in 1..(Len(table) - 1) |->
                      IF j < k THEN table[j] ELSE table[j + 1]]
  /\ SeesEdit

-----------------------------------------------------------------------------

\* What the worker does once it has started, and the once-a-second poll.
HandlePress ==
  \/ TakeLatch \/ AlarmDone \/ LookAt \/ CheckLit
  \/ Toggle \/ ToggleStop
  \/ TimedFindsOff \/ TimedOn \/ TimedStart \/ TimedOff \/ TimedRetrigger
  \/ AllOffTimers \/ \E d \in Devs : LightsOff(d)

HandleTimers == TimerPoll \/ \E p \in Pins : Expire(p)

Alarm == \E L \in SUBSET Latches, t \in PressTimes : DevAlarm(L, t)

Fuse ==
  \/ \E p \in FsPins, on \in BOOLEAN : FsSwitch(p, on)
  \/ \E d \in Devs : RegRead(d)
  \/ \E d \in BOOLEAN : DarkSet(d)
  \/ \E r \in Rooms, d \in {"dark", "day", "follow"} : RoomDarkSet(r, d)
  \/ \E d \in BOOLEAN : MaskAll(d)
  \/ \E e \in Entries, d \in BOOLEAN : Mask(e, d)
  \/ \E e \in Entries : Add(e)
  \/ \E e \in Entries : Del(e)

Next == Alarm \/ HandlePress \/ HandleTimers \/ Tick \/ Fuse

Spec == Init /\ [][Next]_vars

\* The worker finishes what it started and comes back to its poll, and time
\* goes on.  Nothing is assumed of presses and of the users.
Fairness == WF_vars(HandlePress) /\ WF_vars(HandleTimers) /\ WF_vars(Tick)

FairSpec == Spec /\ Fairness

-----------------------------------------------------------------------------
(***************************************************************************)
(* Properties                                                              *)
(***************************************************************************)

\* The variables keep their types.
TypeOK ==
  /\ out \in [Pins -> OutState]
  /\ copy \in [Pins -> BOOLEAN]
  /\ timer \in [Pins -> Nat \cup {NoTimer}]
  /\ table \in Seq(Entry)
  /\ masked \in BOOLEAN
  /\ astro \in BOOLEAN
  /\ roomDark \in [Rooms -> {"dark", "day", "follow"}]
  /\ pc \in WorkerState
  /\ latches \subseteq Latches
  /\ press \in 0..255
  /\ src \in Source
  /\ idx \in Nat \ {0}
  /\ cur \in Entry
  /\ aim \in Pins \cup {AllOff}
  /\ byDay \in BOOLEAN
  /\ expired \subseteq Pins
  /\ todo \subseteq Devs

\* The worker is about to switch p off, or to start its timer.
Pending(p) ==
  \/ pc = "tstart" /\ cur.dst = p
  \/ pc = "expire" /\ p \in expired
  \/ pc = "lightsoff" /\ p \in Lights /\ DevOf[p] \in todo

\* An output a timed switch switched on has its off timer running, or the
\* worker is just seeing to it: no sequence of presses, masks and file system
\* writes loses the timer of a light that is on because of it, nor does a copy
\* gone wrong - unless the output was to be switched and the access failed, or
\* all-off took it for off.  (switch_timed(), all_off(), timer_poll(): the
\* timer is erased before the output is switched.)
TimedHasTimer ==
  \A p \in Pins : out[p] = "timed" => TimerRunning(p) \/ Pending(p)

\* An output a plain switch switched on has no timer that could switch it off,
\* whatever the copy made of it meanwhile: a leftover of an earlier timed press
\* is gone when its press is done (ReadMe.md "switched on by it, the output
\* stays on").
PlainHasNoTimer ==
  \A p \in Pins : out[p] = "plain" =>
    /\ TimerRunning(p) => pc = "tstop" /\ cur.dst = p
    /\ p \notin expired

\* ReadMe.md "The target 0.0.0 switches every light off": none that is on is
\* passed by because the copy has it off.
AllOffMissesNone == \A p \in Lights : out[p] # "missed"

\* The table never holds two switches of the same source and target, however
\* it is edited and masked: a press would act twice on its output.
NoDuplicates ==
  \A j, k \in 1..Len(table) :
    table[j].src = table[k].src /\ table[j].dst = table[k].dst => j = k

\* A press of a switch for the dark, looked at by day, switches nothing on,
\* also when the copy is wrong - as long as nobody else uses the device during
\* the press, and but for what a wrong copy switches on besides its target
\* (ReadMe.md "switches its output on only while it is dark").
LightsUpByDay(p) == byDay /\ pc \in {"act", "ton"} /\ ~Lit(p)
                    /\ out'[p] \notin {"off", "outside", "stray"}
OwnPins == {p \in Pins : DevOf[p] \notin UsedDevs}
DarkStaysOff == [][\A p \in OwnPins : ~LightsUpByDay(p)]_vars

\* ReadMe.md "A switch connects a button input (latch) to an output (PIO)": a
\* press switches no output but the target its switch had when the worker
\* came to it.
DrivesItsTarget ==
  [][pc # "expire" =>
       (\A p \in Pins \ FsPins : out'[p] # out[p] => aim \in {p, AllOff})]_vars

\* Once the presses stop, every output a timed switch switched on goes off,
\* also while the switches are masked, or has its switching off fail.
PressesStop == <>[](pc \in {"idle", "expire"})
TimedGoesOff ==
  PressesStop => \A p \in Pins : out[p] = "timed" ~> out[p] # "timed"

=============================================================================

------------------------------ MODULE OneWire ------------------------------
(***************************************************************************)
(* The threads on the 1-Wire busses: one controller (src/ds2482.cpp) with  *)
(* one selected channel and one search, the bus mutex and the device       *)
(* locks, the transactions of the devices (reg_read(), pio_set() and       *)
(* latch_reset() of src/ds2408.cpp), and OwDevices::alarmHandler() and     *)
(* search() (src/ow_devices.cpp).                                          *)
(*                                                                         *)
(* An action is one command to the controller, or one step of a lock.      *)
(* What a search finds among the alarms of a bus is what RomSearch shows.  *)
(***************************************************************************)
EXTENDS FiniteSets

CONSTANTS
  Devices, Channels, BusOf, \* the devices, the busses, the bus each device is on
  Worker,                 \* the poll worker: it handles the alarms
  Files,                  \* the FUSE threads
  Nobody,                 \* no thread, no device
  Together                \* may FUSE threads use the busses during an alarm?

ASSUME OneWireAssumption ==
  /\ BusOf \in [Devices -> Channels]
  /\ Worker \notin Files
  /\ Nobody \notin Files \cup {Worker} \cup Devices \cup Channels
  /\ {"rom", "search", "lost"} \cap (Devices \cup {Nobody}) = {}
  /\ Together \in BOOLEAN

Threads == Files \cup {Worker}

(***************************************************************************)
(* A job is one transaction or, "set" and "setlatch", "read" and "latch",  *)
(* a half of one: first / next: a search step of alarmHandler(), scan: a   *)
(* bus of search(), poll: reg_read(false), read and latch: reg_read(true), *)
(* set and setlatch: pio_set().                                            *)
(***************************************************************************)
SearchKinds == {"first", "next", "scan"}
DeviceKinds == {"poll", "read", "latch", "set", "setlatch"}
Job == [kind : SearchKinds, at : Channels] \cup [kind : DeviceKinds, at : Devices]
NoJob == [kind |-> "none", at |-> Nobody]
BusFor(j) == IF j.kind \in DeviceKinds THEN BusOf[j.at] ELSE j.at

VARIABLES
  mtx,       \* ds->mtx: the thread that holds it
  dev,       \* the device locks
  chan,      \* DS2482::ch, the selected channel
  wire,      \* who listens on it: a device, everybody for a ROM command
             \* ("rom") or to be searched ("search"), nobody known ("lost")
  exhausted, \* searchExhausted
  stage, job, \* where each thread is, in which job
  alarming,  \* the devices in alarm
  found,     \* what the worker's last search found
  bus,       \* the bus alarmHandler() is at, Nobody if it is not running
  handed,    \* history: the devices this pass has handed to dev_alarm()
  wanted,    \* history: those in alarm since it started and not handed
  course     \* history: "kept"; "moved": its search did not go on where it
             \* was; "failed": an access of the pass failed

controller == <<chan, wire, exhausted>>
pass == <<found, bus, handed, wanted, course>>
busVars == <<mtx, dev, controller, stage, job, alarming, pass>>

Stages == {"idle", "dev", "lock", "channel", "reset", "select", "command",
       "blind", "unlock", "switch", "passed"}

BusInit ==
  /\ mtx = Nobody
  /\ dev = [d \in Devices |-> Nobody]
  /\ chan = Nobody
  /\ wire = "lost"
  /\ exhausted = FALSE
  /\ stage = [t \in Threads |-> "idle"]
  /\ job = [t \in Threads |-> NoJob]
  /\ alarming = {}
  /\ found = Nobody /\ bus = Nobody
  /\ handed = {} /\ wanted = {} /\ course = "kept"

GoTo(t, l) == stage' = [stage EXCEPT ![t] = l]
Do(t, kind, at) == job' = [job EXCEPT ![t] = [kind |-> kind, at |-> at]]
Is(t, l, kinds) == stage[t] = l /\ job[t].kind \in kinds

\* A command is sent: after its select, or blind after no presence pulse.
Sends(t, kinds) == stage[t] \in {"command", "blind"} /\ job[t].kind \in kinds

-----------------------------------------------------------------------------
(***************************************************************************)
(* The start of a job.                                                     *)
(***************************************************************************)
\* A file is read or written, a bus scanned.
FileJob(t, kind, at) ==
  /\ stage[t] = "idle"
  /\ Together \/ bus = Nobody
  /\ Do(t, kind, at)
  /\ GoTo(t, IF kind \in SearchKinds THEN "lock" ELSE "dev")
  /\ UNCHANGED <<mtx, dev, controller, alarming, pass>>

\* dev_poll()
PollJob(d) ==
  /\ stage[Worker] = "idle"
  /\ Do(Worker, "poll", d)
  /\ GoTo(Worker, "dev")
  /\ UNCHANGED <<mtx, dev, controller, alarming, pass>>

\* alarmHandler() is called: a bus has an alarm, or the alarms are polled.
Pass(b) ==
  /\ stage[Worker] = "idle"
  /\ Together \/ \A t \in Files : stage[t] = "idle"
  /\ bus' = b
  /\ wanted' = {d \in alarming : BusOf[d] = b}
  /\ handed' = {} /\ course' = "kept" /\ found' = Nobody
  /\ Do(Worker, "first", b)
  /\ GoTo(Worker, "lock")
  /\ UNCHANGED <<mtx, dev, controller, alarming>>

-----------------------------------------------------------------------------
(***************************************************************************)
(* The locks: the device's first, then the bus mutex.                      *)
(***************************************************************************)
LockDevice(t) ==
  /\ stage[t] = "dev"
  /\ dev[job[t].at] = Nobody
  /\ dev' = [dev EXCEPT ![job[t].at] = t]
  /\ GoTo(t, "lock")
  /\ UNCHANGED <<mtx, controller, job, alarming, pass>>

\* Only the first search step selects the channel.
AfterLock(kind) == IF kind = "next" THEN "reset" ELSE "channel"

MutexShared(t) == mtx' = t                                          \* mutant
TakeMutex(t) == mtx = Nobody /\ mtx' = t

LockBus(t) ==
  /\ stage[t] = "lock"
  /\ TakeMutex(t)
  /\ GoTo(t, AfterLock(job[t].kind))
  /\ UNCHANGED <<dev, controller, job, alarming, pass>>

-----------------------------------------------------------------------------
(***************************************************************************)
(* The commands.  Each may fail: TryAgain, GiveUp.                         *)
(***************************************************************************)
Moved == course' = IF course = "kept" THEN "moved" ELSE course

\* selectChannel(); a search starts anew.
Channel(b) == b

\* reset_search() before a search
SearchGoesOn(kind) == exhausted                                     \* mutant
ResetSearch(kind) == exhausted /\ kind \notin {"first", "scan"}

SelectChannel(t) ==
  /\ stage[t] = "channel"
  /\ chan' = Channel(BusFor(job[t]))
  /\ exhausted' = ResetSearch(job[t].kind)
  /\ wire' = IF chan' = chan THEN wire ELSE "lost"
  /\ IF bus # Nobody /\ (chan' # bus \/ job[t].kind = "scan") THEN Moved
                                                            ELSE UNCHANGED course
  /\ GoTo(t, "reset")
  /\ UNCHANGED <<mtx, dev, job, alarming, found, bus, handed, wanted>>

\* reset(): everybody on the bus waits for a ROM command.
ResetBus(t) ==
  /\ stage[t] = "reset"
  /\ ~(exhausted /\ job[t].kind \in SearchKinds)
  /\ wire' = "rom"
  /\ GoTo(t, "select")
  /\ UNCHANGED <<mtx, dev, chan, exhausted, job, alarming, pass>>

(***************************************************************************)
(* reset() without a presence pulse is no error, last_err stays 0: only    *)
(* the select is left out, and reg_read(), pio_set() and latch_reset()     *)
(* send their command all the same.  search() does not look at what its    *)
(* reset() returned at all: its write() clears the error.  Who listens is  *)
(* nobody or any device of the bus an earlier command has left so (if the  *)
(* devices did take the reset of a search, it is ResetBus).                *)
(***************************************************************************)
NoPresence(t) ==
  /\ stage[t] = "reset"
  /\ ~(exhausted /\ job[t].kind \in SearchKinds)
  /\ wire' \in {"lost"} \cup {d \in Devices : chan \in {BusOf[d], Nobody}}
  /\ course' = IF bus # Nobody /\ job[t].kind \in SearchKinds THEN "failed" ELSE course
  /\ GoTo(t, "blind")
  /\ UNCHANGED <<mtx, dev, chan, exhausted, job, alarming, found, bus, handed, wanted>>

\* search() after the last device was found
NoneLeft(t) ==
  /\ Is(t, "reset", SearchKinds)
  /\ exhausted
  /\ found' = IF job[t].kind = "scan" THEN found ELSE Nobody
  /\ GoTo(t, "unlock")
  /\ UNCHANGED <<mtx, dev, controller, job, alarming, bus, handed, wanted, course>>

\* select(), or the search command: who listens after it, on this channel
Meant(j) == IF j.kind \in SearchKinds THEN "search" ELSE j.at
OnChannel(j) == chan = BusFor(j) \/ j.kind \in SearchKinds

Select(t) ==
  /\ stage[t] = "select"
  /\ wire' = IF wire = "rom" /\ OnChannel(job[t]) THEN Meant(job[t]) ELSE "lost"
  /\ GoTo(t, "command")
  /\ UNCHANGED <<mtx, dev, chan, exhausted, job, alarming, pass>>

\* Registers are read, a pin is set.
Access(t) ==
  /\ Sends(t, {"poll", "read", "set"})
  /\ IF job[t].kind = "set" THEN Do(t, "setlatch", job[t].at) /\ GoTo(t, "channel")
                            ELSE UNCHANGED job /\ GoTo(t, "unlock")
  /\ UNCHANGED <<mtx, dev, controller, alarming, pass>>

\* The command of latch_reset(): whoever listens drops its alarm.  When the
\* answer is lost it is sent once more.
ResetLatches(t) ==
  /\ Sends(t, {"latch", "setlatch"})
  /\ alarming' = alarming \ {wire}
  /\ wanted' = wanted \ {wire}
  /\ IF wire \in wanted THEN Moved ELSE UNCHANGED course
  /\ \/ GoTo(t, IF job[t].kind = "latch" THEN "switch" ELSE "unlock")
     \/ GoTo(t, "channel")
  /\ UNCHANGED <<mtx, dev, controller, job, found, bus, handed>>

\* The alarms a search can find; after a failed selection the controller is
\* on no channel the daemon knows.
Findable == {d \in alarming : chan \in {BusOf[d], Nobody} /\ d \notin handed}

(***************************************************************************)
(* The rest of a search(): one of the alarms, and exhausted when it was    *)
(* the last - or, when the search does not go on where it was, any of      *)
(* them or none.  When nobody is being searched the bits are a device's    *)
(* answer to something else: they read as none, any or no device, and one  *)
(* that does not exist is as one of another bus.                           *)
(***************************************************************************)
FindAlarm(t) ==
  /\ Sends(t, {"first", "next"})
  /\ \/ /\ wire = "search"
        /\ found' \in Findable
        /\ exhausted' \in {Findable = {found'}, course # "kept" \/ Findable = {found'}}
     \/ /\ wire = "search" /\ (Findable = {} \/ course # "kept")
        /\ found' = Nobody
        /\ UNCHANGED exhausted
     \/ /\ wire # "search"
        /\ found' \in Devices \cup {Nobody}
        /\ exhausted' \in BOOLEAN
  /\ GoTo(t, "unlock")
  /\ UNCHANGED <<mtx, dev, chan, wire, job, alarming, bus, handed, wanted, course>>

\* A scan goes on until it has found the last device.
ScanStep(t) ==
  /\ Sends(t, {"scan"})
  /\ \/ GoTo(t, "reset") /\ UNCHANGED exhausted
     \/ GoTo(t, "unlock") /\ exhausted' = TRUE
  /\ UNCHANGED <<mtx, dev, chan, wire, job, alarming, pass>>

(***************************************************************************)
(* An access fails, with an I2C error or an answer that is not taken.  A   *)
(* failed selection forgets the channel; the reset of a search is never    *)
(* looked at.  Who listens no longer matters: a reset is next.             *)
(***************************************************************************)
Fails(t) ==
  /\ stage[t] \in {"channel", "select", "command", "blind"} \/ Is(t, "reset", DeviceKinds)
  /\ chan' = IF stage[t] = "channel" THEN Nobody ELSE chan
  /\ wire' = "lost"
  /\ course' = IF bus # Nobody /\ (stage[t] = "channel" \/ job[t].kind \in SearchKinds)
               THEN "failed" ELSE course

\* Transactions are tried several times; reg_read() gives the mutex back
\* between its tries.
TryAgain(t) ==
  /\ Fails(t)
  /\ job[t].kind \in DeviceKinds
  /\ IF job[t].kind \in {"poll", "read"} THEN mtx' = Nobody /\ GoTo(t, "lock")
                                       ELSE UNCHANGED mtx /\ GoTo(t, "channel")
  /\ UNCHANGED <<dev, exhausted, job, alarming, found, bus, handed, wanted>>

\* A read of an alarm resets the latches also when nobody answered it, but
\* not when its CRC is wrong; a search that fails ends the pass.
GiveUp(t) ==
  /\ Fails(t)
  /\ GoTo(t, IF job[t].kind = "latch" THEN "switch" ELSE "unlock")
  /\ found' = IF job[t].kind \in {"first", "next"} THEN Nobody ELSE found
  /\ \/ UNCHANGED job
     \/ job[t].kind = "read" /\ Do(t, "poll", job[t].at)
  /\ UNCHANGED <<mtx, dev, exhausted, alarming, bus, handed, wanted>>

-----------------------------------------------------------------------------
(***************************************************************************)
(* The end of a job, and what the worker does next in a pass.              *)
(***************************************************************************)
Free(t) == [d \in Devices |-> IF dev[d] = t THEN Nobody ELSE dev[d]]
Pressing(t) == t = Worker /\ bus # Nobody

\* A job ends that is none of a pass.
UnlockJob(t) ==
  /\ stage[t] = "unlock"
  /\ ~Pressing(t)
  /\ mtx' = Nobody
  /\ dev' = Free(t)
  /\ job' = [job EXCEPT ![t] = NoJob]
  /\ GoTo(t, "idle")
  /\ UNCHANGED <<controller, alarming, pass>>

\* alarm_read(): the latches are reset without the mutex.
UnlockRead ==
  /\ Is(Worker, "unlock", {"read"})
  /\ mtx' = Nobody
  /\ Do(Worker, "latch", job[Worker].at)
  /\ GoTo(Worker, "channel")
  /\ UNCHANGED <<dev, controller, alarming, pass>>

\* dev_alarm() for what the search found: a device is looked up on the bus
\* the search was meant for; another one is a "Wrong Alarm".
UnlockSearch ==
  /\ Is(Worker, "unlock", {"first", "next"})
  /\ mtx' = Nobody
  /\ IF found = Nobody
       THEN GoTo(Worker, "passed") /\ UNCHANGED <<job, handed, wanted>>
       ELSE /\ IF BusOf[found] = bus
                 THEN GoTo(Worker, "dev") /\ Do(Worker, "read", found)
                 ELSE GoTo(Worker, "lock") /\ Do(Worker, "next", bus)
            /\ handed' = handed \cup {found}
            /\ wanted' = wanted \ {found}
  /\ UNCHANGED <<dev, controller, alarming, found, bus, course>>

\* The press switches an output of some device, or none; then the search
\* goes on.
Switch(d) ==
  /\ stage[Worker] = "switch"
  /\ dev' = Free(Worker)
  /\ Do(Worker, "set", d)
  /\ GoTo(Worker, "dev")
  /\ UNCHANGED <<mtx, controller, alarming, pass>>

SearchOn ==
  /\ \/ stage[Worker] = "switch" /\ UNCHANGED mtx
     \/ /\ Is(Worker, "unlock", {"poll", "set", "setlatch"})
        /\ bus # Nobody
        /\ mtx' = Nobody
  /\ dev' = Free(Worker)
  /\ Do(Worker, "next", bus)
  /\ GoTo(Worker, "lock")
  /\ UNCHANGED <<controller, alarming, pass>>

EndPass ==
  /\ stage[Worker] = "passed"
  /\ bus' = Nobody /\ found' = Nobody
  /\ handed' = {} /\ wanted' = {} /\ course' = "kept"
  /\ job' = [job EXCEPT ![Worker] = NoJob]
  /\ GoTo(Worker, "idle")
  /\ UNCHANGED <<mtx, dev, controller, alarming>>

Raise(d) ==
  /\ alarming' = alarming \cup {d}
  /\ UNCHANGED <<mtx, dev, controller, stage, job, pass>>

Thread(t) ==
  \/ LockDevice(t) \/ LockBus(t)
  \/ SelectChannel(t) \/ ResetBus(t) \/ NoPresence(t) \/ NoneLeft(t) \/ Select(t)
  \/ Access(t) \/ ResetLatches(t) \/ FindAlarm(t) \/ ScanStep(t)
  \/ TryAgain(t) \/ GiveUp(t)
  \/ UnlockJob(t)

WorkerOnly ==
  \/ \E d \in Devices : PollJob(d) \/ Switch(d)
  \/ \E b \in Channels : Pass(b)
  \/ UnlockRead \/ UnlockSearch \/ SearchOn \/ EndPass

FileOnly(t) ==
  \/ \E d \in Devices, kind \in {"poll", "set"} : FileJob(t, kind, d)
  \/ \E b \in Channels : FileJob(t, "scan", b)

BusNext ==
  \/ \E t \in Threads : Thread(t)
  \/ WorkerOnly
  \/ \E t \in Files : FileOnly(t)
  \/ \E d \in Devices : Raise(d)

BusSpec == BusInit /\ [][BusNext]_busVars

-----------------------------------------------------------------------------
(***************************************************************************)
(* Properties                                                              *)
(***************************************************************************)

\* The variables keep their types.
BusTypeOK ==
  /\ mtx \in Threads \cup {Nobody}
  /\ dev \in [Devices -> Threads \cup {Nobody}]
  /\ chan \in Channels \cup {Nobody}
  /\ wire \in Devices \cup {"rom", "search", "lost"}
  /\ exhausted \in BOOLEAN
  /\ stage \in [Threads -> Stages]
  /\ job \in [Threads -> Job \cup {NoJob}]
  /\ alarming \subseteq Devices
  /\ found \in Devices \cup {Nobody}
  /\ bus \in Channels \cup {Nobody}
  /\ handed \subseteq Devices /\ wanted \subseteq Devices
  /\ course \in {"kept", "moved", "failed"}

\* A command sent after its select reaches the device it is for, and nobody
\* else, also after failures, retries and commands sent blind: its channel is
\* selected, and nothing has come between its select and its command
\* (ds2408.cpp "bus mutex must be held for the whole 1-Wire transaction").
CommandReachesItsDevice ==
  \A t \in Threads : stage[t] = "command" => wire = Meant(job[t])

\* The same of every command that is sent, also of one after a reset() that
\* saw no presence pulse, which ds2408.cpp sends without a select.
EveryCommandReachesItsDevice ==
  \A t \in Threads : stage[t] \in {"command", "blind"} => wire \in {Meant(job[t]), "lost"}

\* A pass whose search goes on where it was hands over every device of its
\* bus that was in alarm from its start on.
PassHandsAll == stage[Worker] = "passed" /\ course = "kept" => wanted = {}

\* ow_devices.cpp "Conditional (alarm) search of one bus: every 0x29 device
\* currently pulling alarm is handed to SwitchHandler::dev_alarm() in turn",
\* when every access works.
EveryAlarmIsHanded == stage[Worker] = "passed" /\ course # "failed" => wanted = {}

=============================================================================

----------------------------- MODULE RomSearch -----------------------------
(***************************************************************************)
(* The conditional (alarm) search of one bus: DS2482::search() bit by bit  *)
(* (src/ds2482.cpp) and the loop of OwDevices::alarmHandler() around it    *)
(* (src/ow_devices.cpp), which handles one alarm between two searches.     *)
(* Devices raise alarms meanwhile.  The search for all devices of a scan   *)
(* is the same with devices that stay in alarm.                            *)
(*                                                                         *)
(* The bus is the worker's alone here; OneWire has the threads.            *)
(***************************************************************************)
EXTENDS Integers

CONSTANTS
  Bits,      \* bits of an address
  FamBits,   \* the first of them, the family
  Devices,   \* the addresses of the devices on the bus
  Targets,   \* the families searched for first
  NoTarget,  \* a search for any family
  MaxAlarms, \* alarmHandler()'s cnt: alarms handled in one pass
  Stolen     \* may somebody else clear an alarm during a pass?

Bit == {0, 1}
Address == [1..Bits -> Bit]
SameTo(d, e, n) == \A k \in 1..n : d[k] = e[k]

\* The last bits of an address are a CRC: no two devices differ in the last
\* bit alone.
ASSUME SearchAssumption ==
  /\ Bits \in Nat \ {0}
  /\ FamBits \in 1..(Bits - 1)
  /\ Devices \subseteq Address
  /\ Targets \subseteq [1..FamBits -> Bit]
  /\ NoTarget \notin Targets
  /\ MaxAlarms \in Nat \ {0}
  /\ Stolen \in BOOLEAN
  /\ \A d, e \in Devices : SameTo(d, e, Bits - 1) => d = e

VARIABLES
  alarming,   \* the devices in alarm
  (* DS2482 *)
  addr,       \* searchAddress
  last,       \* searchLastDisrepancy
  exhausted,  \* searchExhausted
  bit,        \* i, the bit search() is at
  zero,       \* last_zero
  listening,  \* the devices that still take part in this search
  talker,     \* did its reset leave the bus to whoever was talking?
  (* alarmHandler() *)
  pc,
  target,     \* the family searched for first
  cnt,        \* alarms it may still handle
  (* history *)
  sound,      \* were the devices reset for every search of this pass?
  handed,     \* if so, the devices it has handed over
  wanted      \* and those in alarm, of the family, ever since it started

search == <<addr, last, exhausted, bit, zero, listening, talker>>
pass == <<target, cnt, handed, sound>>
vars == <<alarming, search, pc, pass, wanted>>

PassState == {"idle", "search", "bits", "found", "done", "broken"}

Init ==
  /\ alarming = {}
  /\ addr = [k \in 1..Bits |-> 0]
  /\ last = 0
  /\ exhausted = FALSE
  /\ bit = 1
  /\ zero = 0
  /\ listening = {}
  /\ talker = FALSE
  /\ pc = "idle"
  /\ target = NoTarget
  /\ cnt = 0
  /\ handed = {}
  /\ sound = TRUE
  /\ wanted = {}

-----------------------------------------------------------------------------

OfFamily(d, t) == t \in Targets => SameTo(d, t, FamBits)

\* reset_search(), and target_search(): the search follows the family and
\* takes the zeros after it.
Begin(t) ==
  /\ pc = "idle"
  /\ target' = t
  /\ addr' = [k \in 1..Bits |-> IF t \in Targets /\ k <= FamBits THEN t[k] ELSE 0]
  /\ last' = IF t \in Targets THEN Bits ELSE 0
  /\ exhausted' = FALSE
  /\ cnt' = MaxAlarms
  /\ handed' = {}
  /\ sound' = TRUE
  /\ wanted' = {d \in alarming : OfFamily(d, t)}
  /\ pc' = "search"
  /\ UNCHANGED <<alarming, bit, zero, listening, talker>>

\* search(): the devices are reset and given the command; those in alarm
\* listen.  reset() may still report an error, of reading the status.
Search ==
  /\ pc = "search"
  /\ ~exhausted
  /\ listening' = alarming
  /\ talker' = FALSE
  /\ bit' = 1
  /\ zero' = 0
  /\ pc' = "bits"
  /\ UNCHANGED <<alarming, addr, last, exhausted, pass, wanted>>

\* The devices are not reset.  Nobody looks at what reset() returns, and the
\* write of the command clears last_err: the search goes on with whoever was
\* left talking, such as a device that sends 0xAA after its latch reset.  No
\* more is noted of this pass.
NotReset ==
  /\ pc = "search"
  /\ ~exhausted
  /\ listening' = {}
  /\ talker' = TRUE
  /\ sound' = FALSE
  /\ handed' = {}
  /\ wanted' = {}
  /\ bit' = 1
  /\ zero' = 0
  /\ pc' = "bits"
  /\ UNCHANGED <<alarming, addr, last, exhausted, target, cnt>>

\* The last search found the last device: this one finds none.
Exhausted ==
  /\ pc = "search"
  /\ exhausted
  /\ pc' = "done"
  /\ UNCHANGED <<alarming, search, pass, wanted>>

(***************************************************************************)
(* One triplet.  The controller tells which bits the listening devices     *)
(* have here, and goes the way it is asked to if they have both; those of  *)
(* the other way listen no more.                                           *)
(***************************************************************************)
TurnsLate(i) == IF i <= last THEN addr[i] ELSE 0                    \* mutant
Direction(i) == IF i < last THEN addr[i] ELSE IF i = last THEN 1 ELSE 0

Has(b) == \E d \in listening : d[bit] = b
AsAsked == Direction(bit)                                           \* mutant
Taken == IF Has(0) /\ Has(1) THEN Direction(bit) ELSE IF Has(1) THEN 1 ELSE 0

\* Where a way was left out: the last one is where the next search turns.
ForgetsZero(b) == IF Has(0) /\ Has(1) /\ b = 0 /\ bit > last THEN bit
                  ELSE zero                                         \* mutant
LastZero(b) == IF Has(0) /\ Has(1) /\ b = 0 THEN bit ELSE zero

Triplet ==
  /\ pc = "bits"
  /\ bit <= Bits
  /\ listening # {}
  /\ addr' = [addr EXCEPT ![bit] = Taken]
  /\ zero' = LastZero(Taken)
  /\ listening' = {d \in listening : d[bit] = Taken}
  /\ bit' = bit + 1
  /\ UNCHANGED <<alarming, last, exhausted, talker, pc, pass, wanted>>

\* The talker's bits, whatever they are, are taken for two bits of an address.
Stray(b, both) ==
  /\ pc = "bits"
  /\ bit <= Bits
  /\ talker
  /\ both => b = Direction(bit)
  /\ addr' = [addr EXCEPT ![bit] = b]
  /\ zero' = IF both /\ b = 0 THEN bit ELSE zero
  /\ bit' = bit + 1
  /\ UNCHANGED <<alarming, last, exhausted, listening, talker, pc, pass, wanted>>

Returned == bit' = 1 /\ zero' = 0     \* the locals of search()

\* No device answers: nobody is in alarm, or the talker has nothing to say.
Nobody ==
  /\ pc = "bits"
  /\ bit <= Bits
  /\ listening = {}
  /\ pc' = "done"
  /\ Returned
  /\ UNCHANGED <<alarming, addr, last, exhausted, listening, talker, pass, wanted>>

\* The write of the command or a triplet fails: search() finds none, the pass
\* is over.
BusError ==
  /\ pc \in {"search", "bits"}
  /\ pc' = "broken"
  /\ Returned
  /\ listening' = {}
  /\ talker' = FALSE
  /\ UNCHANGED <<alarming, addr, last, exhausted, pass, wanted>>

\* All bits: where the next one turns, and whether there is a next one.  The
\* search after the last alarm that is handled is for nothing.
IsExhausted(z) == z = 0
MayHandle(c) == c > 0

SearchEnd ==
  /\ pc = "bits"
  /\ bit > Bits
  /\ last' = zero
  /\ exhausted' = IsExhausted(zero)
  /\ pc' = IF MayHandle(cnt) THEN "found" ELSE "broken"
  /\ Returned
  /\ UNCHANGED <<alarming, addr, listening, talker, pass, wanted>>

\* dev_alarm(): the latches are read and reset, unless an access fails.  The
\* device is found by family and number alone: an address nobody has may be
\* taken for any device's, or for none's.
Addressed == IF talker THEN Devices ELSE {addr}

HandOver ==
  /\ pc = "found"
  /\ handed' = IF sound THEN handed \cup {addr} ELSE {}
  /\ alarming' \in {alarming} \cup {alarming \ {d} : d \in Addressed}
  /\ wanted' = wanted \ {addr}
  /\ cnt' = cnt - 1
  /\ pc' = "search"
  /\ listening' = {}
  /\ talker' = FALSE
  /\ UNCHANGED <<addr, last, exhausted, bit, zero, target, sound>>

\* What the pass leaves behind is not used: the next one starts anew.
End ==
  /\ pc \in {"done", "broken"}
  /\ pc' = "idle"
  /\ wanted' = {} /\ handed' = {} /\ cnt' = 0 /\ target' = NoTarget
  /\ addr' = [k \in 1..Bits |-> 0] /\ last' = 0 /\ exhausted' = FALSE
  /\ listening' = {} /\ talker' = FALSE /\ sound' = TRUE
  /\ UNCHANGED <<alarming, bit, zero>>

\* The devices, and whoever else reads or resets latches
Raise(d) ==
  /\ alarming' = alarming \cup {d}
  /\ UNCHANGED <<search, pc, pass, wanted>>

Steal(d) ==
  /\ Stolen \/ pc = "idle"
  /\ alarming' = alarming \ {d}
  /\ wanted' = wanted \ {d}
  /\ UNCHANGED <<search, pc, pass>>

AlarmHandler ==
  \/ \E t \in Targets \cup {NoTarget} : Begin(t)
  \/ Search \/ NotReset \/ Exhausted \/ Triplet \/ Nobody \/ BusError
  \/ \E b \in Bit, both \in BOOLEAN : Stray(b, both)
  \/ SearchEnd \/ HandOver \/ End

Next == AlarmHandler \/ \E d \in Devices : Raise(d) \/ Steal(d)

Spec == Init /\ [][Next]_vars

-----------------------------------------------------------------------------
(***************************************************************************)
(* Properties                                                              *)
(***************************************************************************)

\* The variables keep their types.
TypeOK ==
  /\ alarming \subseteq Devices
  /\ addr \in Address
  /\ last \in 0..Bits
  /\ exhausted \in BOOLEAN
  /\ bit \in 1..(Bits + 1)
  /\ zero \in 0..Bits
  /\ listening \subseteq Devices
  /\ talker \in BOOLEAN
  /\ pc \in PassState
  /\ target \in Targets \cup {NoTarget}
  /\ cnt \in 0..MaxAlarms
  /\ handed \subseteq Devices
  /\ sound \in BOOLEAN
  /\ wanted \subseteq Devices

\* What a search finds that had the devices reset is the address of one that
\* answered this very search: not one put together from two searches, also
\* when the search before it followed what a talker said.
HandsRealDevices == pc = "found" /\ ~talker => listening = {addr}

\* A pass whose searches all had the devices reset hands none over twice,
\* whatever is raised meanwhile.
NoneTwice == pc = "found" /\ sound => addr \notin handed

\* Such a pass, once it comes to its end, has handed over every device, of the
\* family searched for first, that was in alarm from its start on.
NoneMissed == pc = "done" /\ sound => wanted = {}

\* What the comment of alarmHandler() says of what is handed over: "every 0x29
\* device currently pulling alarm" - a device that there is.
HandsDevices == pc = "found" => addr \in Devices

=============================================================================

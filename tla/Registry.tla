------------------------------ MODULE Registry ------------------------------
(***************************************************************************)
(* The devices the daemon knows (src/ow_devices.cpp, src/ow_dev.cpp): the  *)
(* vector cache.devices that owns them, the sorted list dev_list of at     *)
(* most Capacity that find() searches, the lists of the busses that        *)
(* list_devices() copies, the scan that extends and rebuilds all three,    *)
(* the bring-up of each device, and the locks these take.                  *)
(*                                                                         *)
(* An action ends where the code waits for a lock or lets others run       *)
(* between two accesses of what threads share.  The order of roms is that  *)
(* of their codes as numbers.                                              *)
(***************************************************************************)
EXTENDS Naturals, FiniteSets, SequencesExt

CONSTANTS
  Codes,      \* what a search can read from the wires
  Roms, Canon,\* the roms as devices carry them, and the one of each code
  Strange,    \* those of a family without a driver
  BusOf,      \* the bus each code is on, 1 .. Busses
  Busses,
  Dummy,      \* the code every scan registers for the Arduino
  Capacity,   \* the size of dev_list: 30
  Main,       \* loads the configuration, before there are the other threads
  Scanners,   \* threads that list /uncached
  Users,      \* threads that use devices: FUSE, the worker, plugins
  Nobody,
  Configs,    \* the roms of the devices in the configuration file
  MaxScans    \* bound on the scans of a run

ASSUME RegistryAssumption ==
  /\ Roms \subseteq Nat /\ Strange \subseteq Roms
  /\ Canon \in [Codes -> Roms]
  /\ Busses \in Nat
  /\ BusOf \in [Codes -> 1 .. Busses]
  /\ Dummy \in Codes
  /\ Capacity \in Nat \ {0}
  /\ Configs \subseteq Seq(Roms \ Strange)
  /\ Nobody \notin {Main} \cup Scanners \cup Users
  /\ Main \notin Scanners \cup Users
  /\ MaxScans \in Nat

Callers == {Main} \cup Scanners
Threads == Callers \cup Users

VARIABLES
  obj,        \* every device object made so far: rom, state, ds, begun, alive
  devices,    \* cache.devices, as numbers of objects
  devList,    \* dev_list[0 .. deviceCount - 1]
  listed,     \* the devices in cache.busses
  mtx,        \* ds->mtx: the thread that holds it
  lock,       \* the thread that holds each device's lock
  pc,         \* where each thread is
  k,          \* a scan's bus, or its place in cache.devices
  todo,       \* the codes a scan still has to register on its bus
  at,         \* the device a thread is at
  up,         \* did the controller start at the last begin()?
  dead,       \* the daemon ended: a device without a controller was used
  scans

registry == <<obj, devices, devList, listed>>
thread == <<pc, k, todo, at>>
vars == <<registry, mtx, lock, thread, up, dead, scans>>

Idle == "idle"
Scanning == {"bus", "search", "init", "add", "rebuild", "fill", "begin", "sweep", "start"}

NewDevice(r, s) ==
  [rom |-> r, state |-> s, ds |-> FALSE, begun |-> 0, alive |-> TRUE]

\* load() has made and initialised the devices of the file, and goes on
\* with update_data() and begin()
Init ==
  /\ \E c \in Configs :
       /\ obj = [n \in DOMAIN c |-> NewDevice(c[n], "init")]
       /\ devices = [n \in DOMAIN c |-> n]
       /\ lock = [n \in DOMAIN c |-> Nobody]
  /\ devList = <<>> /\ listed = {}
  /\ mtx = Nobody
  /\ pc = [t \in Threads |-> IF t = Main THEN "rebuild" ELSE Idle]
  /\ k = [t \in Threads |-> 1]
  /\ todo = [t \in Threads |-> {}]
  /\ at = [t \in Threads |-> 0]
  /\ up = FALSE /\ dead = FALSE
  /\ scans = 0

-----------------------------------------------------------------------------
(***************************************************************************)
(* The sorted list                                                         *)
(***************************************************************************)

RomOf(d) == obj[d].rom
FindIn(l, r) == {d \in Range(l) : RomOf(d) = r}
Find(r) == FindIn(devList, r)

Inserted(l, d) ==
  LET smaller == {n \in DOMAIN l : RomOf(l[n]) < RomOf(d)}
  IN  InsertAt(l, Cardinality(smaller) + 1, d)

OverFull(l, d) == IF FindIn(l, RomOf(d)) # {} THEN l ELSE Inserted(l, d) \* mutant
AddDevice(l, d) ==
  IF FindIn(l, RomOf(d)) # {} \/ Len(l) >= Capacity THEN l ELSE Inserted(l, d)

-----------------------------------------------------------------------------
(***************************************************************************)
(* OwDevices::search(true): bus by bus under the bus mutex, then the       *)
(* Arduino without it                                                      *)
(***************************************************************************)

Goto(t, l) == pc' = [pc EXCEPT ![t] = l]
Started == pc[Main] = Idle /\ ~dead

StartScan(t) ==
  /\ Started /\ t \in Scanners /\ pc[t] = Idle /\ scans < MaxScans
  /\ scans' = scans + 1
  /\ pc' = [pc EXCEPT ![t] = "bus"]
  /\ k' = [k EXCEPT ![t] = 1]
  /\ UNCHANGED <<registry, mtx, lock, todo, at, up, dead>>

\* the devices on a bus come and go, and its channel or the search may fail:
\* what the search returns is any set of codes on the bus, in any order
LockBus(t) ==
  /\ ~dead /\ pc[t] = "bus" /\ k[t] <= Busses
  /\ mtx = Nobody /\ mtx' = t
  /\ \E found \in SUBSET {c \in Codes \ {Dummy} : BusOf[c] = k[t]} :
       todo' = [todo EXCEPT ![t] = found]
  /\ Goto(t, "search")
  /\ UNCHANGED <<registry, lock, k, at, up, dead, scans>>

Arduino(t) ==
  /\ ~dead /\ pc[t] = "bus" /\ k[t] = Busses + 1
  /\ todo' = [todo EXCEPT ![t] = {Dummy}]
  /\ Goto(t, "search")
  /\ UNCHANGED <<registry, mtx, lock, k, at, up, dead, scans>>

\* is the device there already?  (the rom it will carry counts)
Known(c) == Find(Canon[c]) # {}

InitAgain(t, c) ==                                                  \* mutant
  IF Known(c) THEN Goto(t, "init") /\ at' = [at EXCEPT ![t] = CHOOSE d \in Find(Canon[c]) : TRUE]
              ELSE UNCHANGED <<pc, at>>
AlreadyFound(t, c) == UNCHANGED <<pc, at>>

MakeDevice(t, c) ==
  /\ obj' = Append(obj, NewDevice(Canon[c], "created"))
  /\ devices' = Append(devices, Len(obj) + 1)
  /\ lock' = Append(lock, Nobody)
  /\ at' = [at EXCEPT ![t] = Len(obj) + 1]
  /\ Goto(t, "init")

UpdateDevice(t) ==
  /\ ~dead /\ pc[t] = "search"
  /\ \E c \in todo[t] :
       /\ todo' = [todo EXCEPT ![t] = @ \ {c}]
       /\ IF Known(c) \/ Canon[c] \in Strange
            THEN AlreadyFound(t, c) /\ UNCHANGED <<obj, devices, lock>>
            ELSE MakeDevice(t, c)
  /\ UNCHANGED <<devList, listed, mtx, k, up, dead, scans>>

\* OwDev::init(), under the device lock
InitDevice(t) ==
  /\ ~dead /\ pc[t] = "init" /\ lock[at[t]] = Nobody
  /\ obj' = [obj EXCEPT ![at[t]].state = IF @ = "running" THEN @ ELSE "init"]
  /\ Goto(t, "add")
  /\ UNCHANGED <<devices, devList, listed, mtx, lock, k, todo, at, up, dead, scans>>

AddNew(t) ==
  /\ ~dead /\ pc[t] = "add"
  /\ devList' = AddDevice(devList, at[t])
  /\ Goto(t, "search")
  /\ UNCHANGED <<obj, devices, listed, mtx, lock, k, todo, at, up, dead, scans>>

NextBus(t) ==
  /\ ~dead /\ pc[t] = "search" /\ todo[t] = {}
  /\ mtx' = IF mtx = t THEN Nobody ELSE mtx
  /\ k' = [k EXCEPT ![t] = @ + 1]
  /\ Goto(t, IF k[t] > Busses THEN "rebuild" ELSE "bus")
  /\ UNCHANGED <<registry, lock, todo, at, up, dead, scans>>

-----------------------------------------------------------------------------
(***************************************************************************)
(* update_data(): the list and the busses anew, without any lock           *)
(***************************************************************************)

KeptOld == devList                                                  \* mutant
Emptied == <<>>

Rebuild(t) ==
  /\ ~dead /\ pc[t] = "rebuild"
  /\ devList' = Emptied /\ listed' = {}
  /\ k' = [k EXCEPT ![t] = 1]
  /\ Goto(t, "fill")
  /\ UNCHANGED <<obj, devices, mtx, lock, todo, at, up, dead, scans>>

KeptTwice(d) == FALSE                                               \* mutant
Duplicate(d) == Find(RomOf(d)) # {}

Fill(t) ==
  /\ ~dead /\ pc[t] = "fill" /\ k[t] <= Len(devices)
  /\ LET d == devices[k[t]] IN
     IF Duplicate(d)
       THEN /\ devices' = RemoveAt(devices, k[t])
            /\ obj' = [obj EXCEPT ![d].alive = FALSE]
            /\ UNCHANGED <<devList, listed, k>>
       ELSE /\ devList' = AddDevice(devList, d)
            /\ listed' = listed \cup {d}
            /\ k' = [k EXCEPT ![t] = @ + 1]
            /\ UNCHANGED <<obj, devices>>
  /\ UNCHANGED <<mtx, lock, pc, todo, at, up, dead, scans>>

Filled(t) ==
  /\ ~dead /\ pc[t] = "fill" /\ k[t] > Len(devices)
  /\ Goto(t, "begin")
  /\ UNCHANGED <<registry, mtx, lock, k, todo, at, up, dead, scans>>

-----------------------------------------------------------------------------
(***************************************************************************)
(* begin(): the controller, then every device, each once                   *)
(***************************************************************************)

AfterInit == "sweep"

Begin(t) ==
  /\ ~dead /\ pc[t] = "begin"
  /\ \/ up' = TRUE /\ Goto(t, AfterInit)
     \/ up' = FALSE /\ Goto(t, Idle)
  /\ k' = [k EXCEPT ![t] = 1]
  /\ UNCHANGED <<registry, mtx, lock, todo, at, dead, scans>>

Always(d) == TRUE                                                   \* mutant
ToBegin(d) == obj[d].state # "running"

\* OwDev::begin(): from here the device has a controller
BeginDevice(t) ==
  /\ ~dead /\ pc[t] = "sweep" /\ k[t] <= Len(devices)
  /\ LET d == devices[k[t]] IN
     /\ lock[d] = Nobody
     /\ obj' = [obj EXCEPT ![d].ds = TRUE]
     /\ IF ToBegin(d)
          THEN /\ lock' = [lock EXCEPT ![d] = t]
               /\ at' = [at EXCEPT ![t] = d]
               /\ Goto(t, "start") /\ UNCHANGED k
          ELSE /\ k' = [k EXCEPT ![t] = @ + 1]
               /\ UNCHANGED <<lock, at, pc>>
  /\ UNCHANGED <<devices, devList, listed, mtx, todo, up, dead, scans>>

\* its first access, as ds2408::begin() reads the registers
StartDevice(t) ==
  /\ ~dead /\ pc[t] = "start" /\ mtx = Nobody
  /\ obj' = [obj EXCEPT ![at[t]].state = "running", ![at[t]].begun = @ + 1]
  /\ lock' = [lock EXCEPT ![at[t]] = Nobody]
  /\ k' = [k EXCEPT ![t] = @ + 1]
  /\ Goto(t, "sweep")
  /\ UNCHANGED <<devices, devList, listed, mtx, todo, at, up, dead, scans>>

Swept(t) ==
  /\ ~dead /\ pc[t] = "sweep" /\ k[t] > Len(devices)
  /\ Goto(t, Idle)
  /\ UNCHANGED <<registry, mtx, lock, k, todo, at, up, dead, scans>>

-----------------------------------------------------------------------------
(***************************************************************************)
(* Users of a device: find() or list_devices(), the device lock, and for   *)
(* an access the bus mutex under it                                        *)
(***************************************************************************)

Lookup(t) ==
  /\ Started /\ pc[t] = Idle
  /\ \E d \in Range(devList) \cup listed : at' = [at EXCEPT ![t] = d]
  /\ Goto(t, "found")
  /\ UNCHANGED <<registry, mtx, lock, k, todo, up, dead, scans>>

Cached(t) ==
  /\ ~dead /\ pc[t] = "found" /\ lock[at[t]] = Nobody
  /\ Goto(t, Idle)
  /\ UNCHANGED <<registry, mtx, lock, k, todo, at, up, dead, scans>>

LockDevice(t) ==
  /\ ~dead /\ pc[t] = "found" /\ lock[at[t]] = Nobody
  /\ lock' = [lock EXCEPT ![at[t]] = t]
  /\ Goto(t, "locked")
  /\ UNCHANGED <<registry, mtx, k, todo, at, up, dead, scans>>

\* without a controller, ds is a null pointer
Access(t) ==
  /\ ~dead /\ pc[t] = "locked"
  /\ IF obj[at[t]].ds THEN mtx = Nobody /\ UNCHANGED dead ELSE dead' = TRUE
  /\ lock' = [lock EXCEPT ![at[t]] = Nobody]
  /\ Goto(t, Idle)
  /\ UNCHANGED <<registry, mtx, k, todo, at, up, scans>>

-----------------------------------------------------------------------------

Scan(t) ==
  \/ StartScan(t) \/ LockBus(t) \/ Arduino(t) \/ UpdateDevice(t) \/ InitDevice(t)
  \/ AddNew(t) \/ NextBus(t) \/ Rebuild(t) \/ Fill(t) \/ Filled(t)
  \/ Begin(t) \/ BeginDevice(t) \/ StartDevice(t) \/ Swept(t)

Use(t) == Lookup(t) \/ Cached(t) \/ LockDevice(t) \/ Access(t)

\* nothing to do: no scan left, no device to use, or the daemon has ended
Rest ==
  /\ dead \/ (Started /\ \A t \in Threads : pc[t] = Idle)
  /\ UNCHANGED vars

Next == (\E t \in Callers : Scan(t)) \/ (\E t \in Users : Use(t)) \/ Rest

Spec == Init /\ [][Next]_vars

-----------------------------------------------------------------------------
(***************************************************************************)
(* Properties                                                              *)
(***************************************************************************)

\* the list is sorted without duplicates, as lower_bound() needs, and never
\* longer than its array
TypeOK ==
  /\ \A n \in DOMAIN obj :
       /\ obj[n].rom \in Roms \ Strange
       /\ obj[n].state \in {"created", "init", "running"}
       /\ obj[n].ds \in BOOLEAN /\ obj[n].alive \in BOOLEAN /\ obj[n].begun \in Nat
  /\ devices \in Seq(DOMAIN obj) /\ IsInjective(devices)
  /\ Len(devList) <= Capacity
  /\ \A m, n \in DOMAIN devList : m < n => RomOf(devList[m]) < RomOf(devList[n])
  /\ listed \subseteq DOMAIN obj
  /\ mtx \in Threads \cup {Nobody}
  /\ DOMAIN lock = DOMAIN obj /\ Range(lock) \subseteq Threads \cup {Nobody}
  /\ \A t \in Threads : pc[t] \in Scanning \cup {Idle, "found", "locked"}

Busy(t) == pc[t] \in Scanning
NoScan == \A t \in Callers : ~Busy(t)

(***************************************************************************)
(* However often the busses are scanned, whatever CRC a device's code      *)
(* reads with and whatever the configuration lists twice: a rom has two    *)
(* devices only when the list is full without it, and no device is         *)
(* forgotten while there is room (add_device(), update_device() and        *)
(* update_data()).                                                         *)
(***************************************************************************)
EachDeviceOnce ==
  NoScan =>
    /\ Range(devList) \subseteq Range(devices)
    /\ \A d \in Range(devices) :
         \/ Find(RomOf(d)) = {d}
         \/ Find(RomOf(d)) = {} /\ Len(devList) = Capacity

(***************************************************************************)
(* The device a thread found, and uses without holding anything that keeps *)
(* it, is not destroyed under it: update_data() erases duplicates only.    *)
(***************************************************************************)
UsedIsAlive ==
  \A t \in Users : pc[t] \in {"found", "locked"} => obj[at[t]].alive

(***************************************************************************)
(* Between scans, when the controller started at the last begin(), every   *)
(* device one can find was begun, and begun once, whenever it was found    *)
(* and however often the sweep came by (OwDev::begin()'s state guard).     *)
(***************************************************************************)
FoundIsBegun ==
  NoScan /\ up =>
    \A d \in Range(devList) \cup listed :
      obj[d].ds /\ obj[d].state = "running" /\ obj[d].begun = 1

(***************************************************************************)
(* The thread that t waits for                                             *)
(***************************************************************************)
Blocker(t) ==
  CASE pc[t] \in {"init", "found"} -> lock[at[t]]
    [] pc[t] = "sweep" /\ k[t] <= Len(devices) -> lock[devices[k[t]]]
    [] pc[t] \in {"start", "locked"} -> mtx
    [] pc[t] = "bus" /\ k[t] <= Busses -> mtx
    [] OTHER -> Nobody

(***************************************************************************)
(* Nobody waits in a circle.  The code promises the order that keeps it    *)
(* so: a device lock is "Always taken before the bus mutex (ds->mtx),      *)
(* never while holding it" (include/ow_dev.h).  A scan does take one       *)
(* while holding it, of a device that nobody else can have - as long as    *)
(* there is one scan.                                                      *)
(***************************************************************************)
NoWaitCycle ==
  \A S \in (SUBSET Threads) \ {{}} : \E t \in S : Blocker(t) \notin S

(***************************************************************************)
(* "a device method that dereferences it without begin() having run first  *)
(* is a bug in that caller" (include/ow_dev.h): no device is used before.  *)
(***************************************************************************)
UsedAfterBegin == ~dead
=============================================================================

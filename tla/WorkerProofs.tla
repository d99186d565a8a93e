---------------------------- MODULE WorkerProofs ----------------------------
(***************************************************************************)
(* The poll worker, for any busses, devices and threads.                   *)
(*                                                                         *)
(* Its loop, for any number of reads in a service and any intervals: type  *)
(* correctness and LineIsWatched of Worker, and that a round ends.         *)
(*                                                                         *)
(* Its work on the busses beside the FUSE threads: type correctness of     *)
(* OneWire, the locks, and - as long as no FUSE thread uses the busses     *)
(* during an alarm pass - CommandReachesItsDevice and PassHandsAll.        *)
(***************************************************************************)
EXTENDS Worker, OneWire, FiniteSetTheorems, TLAPS

\* The flags of TypeOK, and its other variables
Flags ==
  /\ wired \in BOOLEAN /\ low \in BOOLEAN /\ edge \in BOOLEAN
  /\ wake \in BOOLEAN /\ running \in BOOLEAN
  /\ retry \in BOOLEAN /\ more \in BOOLEAN

Others ==
  /\ reported \subseteq Busses /\ alarms \subseteq Busses /\ todo \subseteq Busses
  /\ impulses \in 0..MaxRaises /\ raises \in 0..MaxRaises
  /\ main \in {"mounted", "woke", "joins", "left"}
  /\ pc \in At
  /\ left \in 0..Second /\ rest \in 0..Every /\ tm \in 0..Second
  /\ why \subseteq {"edge", "wake"}
  /\ reads \in 0..MaxReads
  /\ back \in {"poll", "served"}

\* An impulse is queued when it is reported.
Reported == impulses <= raises

Inv == Flags /\ Others /\ Reported /\ LineIsWatched

LEMMA LessIsLess == \A n \in Nat : Less(n) \in Nat /\ Less(n) <= n
  BY DEF Less

LEMMA InitInv == Init => Inv
<1> SUFFICES ASSUME Init PROVE Inv
  OBVIOUS
<1>1. Flags
  BY Zenon DEF Init, Flags
<1>2. Others
  BY WorkerAssumption DEF Init, Others, At
<1>3. Reported /\ LineIsWatched
  BY WorkerAssumption DEF Init, Reported, LineIsWatched
<1> QED BY <1>1, <1>2, <1>3 DEF Inv

-----------------------------------------------------------------------------
(***************************************************************************)
(* The flags                                                               *)
(***************************************************************************)
LEMMA WorkFlags ==
  ASSUME Flags, Work
  PROVE  Flags'
<1> USE DEF Flags, arduino, shutdown, clocks, waiting, service, Serve
<1>1. CASE StartWait
  BY <1>1, Zenon DEF StartWait
<1>2. CASE StopLoop
  BY <1>2, Zenon DEF StopLoop
<1>3. CASE PollReturns
  BY <1>3, Zenon DEF PollReturns
<1>4. CASE Woken
  <2>1. edge' \in BOOLEAN
    BY <1>4, Zenon DEF Woken
  <2> QED BY <1>4, <2>1, Zenon DEF Woken
<1>5. CASE DevicePoll
  BY <1>5, Zenon DEF DevicePoll
<1>6. CASE PollEnds
  BY <1>6, Zenon DEF PollEnds
<1>7. CASE NoPollDue
  BY <1>7, Zenon DEF NoPollDue
<1>8. CASE ServiceEnds
  <2>1. retry' \in BOOLEAN
    BY <1>8, Zenon DEF ServiceEnds
  <2> QED BY <1>8, <2>1, Zenon DEF ServiceEnds
<1>9. CASE ReadStatus
  <2>1. (impulses' > 0) \in BOOLEAN
    OBVIOUS
  <2> QED BY <1>9, <2>1, Zenon DEF ReadStatus
<1>10. CASE NoAnswer
  BY <1>10, Zenon DEF NoAnswer
<1>11. CASE AllHandled
  BY <1>11, Zenon DEF AllHandled
<1>12. ASSUME NEW b \in Busses, Handled(b) \/ BusFails(b) PROVE Flags'
  BY <1>12, Zenon DEF Handled, BusFails, HandleBus
<1> QED BY <1>1, <1>2, <1>3, <1>4, <1>5, <1>6, <1>7, <1>8, <1>9, <1>10, <1>11, <1>12
           DEF Work

LEMMA OtherFlags ==
  ASSUME Flags, Environment \/ StopWorker \/ Join
  PROVE  Flags'
<1> USE DEF Flags, arduino, shutdown, clocks, waiting, service
<1>1. CASE Tick
  BY <1>1, Zenon DEF Tick
<1>2. CASE Unmounted
  BY <1>2, Zenon DEF Unmounted
<1>3. CASE Impulse
  BY <1>3, Zenon DEF Impulse, LineGoesLow
<1>4. ASSUME NEW b \in Busses, RaiseAlarm(b) PROVE Flags'
  BY <1>4, Zenon DEF RaiseAlarm, LineGoesLow
<1>5. CASE StopWorker
  BY <1>5, Zenon DEF StopWorker
<1>6. CASE Join
  BY <1>6, Zenon DEF Join
<1> QED BY <1>1, <1>2, <1>3, <1>4, <1>5, <1>6 DEF Environment

-----------------------------------------------------------------------------
(***************************************************************************)
(* What the others do: a line that goes low under a sleeping worker has an *)
(* edge, and a wait only gets shorter.                                     *)
(***************************************************************************)
LEMMA EnvironmentInv ==
  ASSUME Inv, Environment \/ StopWorker \/ Join
  PROVE  Inv'
<1>0. Flags'
  BY OtherFlags DEF Inv
<1> USE WorkerAssumption
        DEF Others, Reported, LineIsWatched, At, Retry, arduino, shutdown,
            clocks, waiting, service
<1> SUFFICES Others' /\ Reported' /\ LineIsWatched'
  BY <1>0 DEF Inv
<1>1. CASE Tick
  <2>1. /\ left' \in Nat /\ left' <= left /\ rest' \in Nat /\ rest' <= rest
        /\ tm' \in Nat /\ tm' <= tm
    BY <1>1, LessIsLess DEF Tick, Inv
  <2> QED BY <1>1, <2>1 DEF Tick, Inv
<1>2. CASE Unmounted
  BY <1>2 DEF Unmounted, Inv
<1>3. CASE Impulse
  BY <1>3 DEF Impulse, LineGoesLow, Inv, Flags
<1>4. ASSUME NEW b \in Busses, RaiseAlarm(b) PROVE Others' /\ Reported' /\ LineIsWatched'
  BY <1>4 DEF RaiseAlarm, LineGoesLow, Inv, Flags
<1>5. CASE StopWorker
  BY <1>5 DEF StopWorker, Inv
<1>6. CASE Join
  BY <1>6 DEF Join, Inv
<1> QED BY <1>1, <1>2, <1>3, <1>4, <1>5, <1>6 DEF Environment

(***************************************************************************)
(* The loop around poll(): with a line the worker does not go to sleep     *)
(* from here.                                                              *)
(***************************************************************************)
LEMMA LoopInv ==
  ASSUME Inv, StartWait \/ StopLoop \/ PollReturns \/ Woken \/ DevicePoll
              \/ PollEnds \/ NoPollDue
  PROVE  Others' /\ Reported' /\ LineIsWatched'
<1> USE WorkerAssumption
        DEF Inv, Others, Reported, LineIsWatched, At, Retry, arduino, shutdown,
            clocks, waiting, service, Serve
<1>1. CASE StartWait
  BY <1>1 DEF StartWait, LooksAtLevel
<1>2. CASE StopLoop
  BY <1>2 DEF StopLoop
<1>3. CASE PollReturns
  BY <1>3 DEF PollReturns, Ready
<1>4. CASE Woken
  BY <1>4 DEF Woken
<1>5. CASE DevicePoll
  BY <1>5 DEF DevicePoll, PolledBusses
<1>6. CASE PollEnds
  BY <1>6 DEF PollEnds
<1>7. CASE NoPollDue
  BY <1>7 DEF NoPollDue
<1> QED BY <1>1, <1>2, <1>3, <1>4, <1>5, <1>6, <1>7

(***************************************************************************)
(* The service: it ends with the line high, or with a short wait.          *)
(***************************************************************************)
LEMMA ServiceInv ==
  ASSUME Inv, ServiceEnds \/ ReadStatus \/ NoAnswer \/ AllHandled
              \/ \E b \in Busses : Handled(b) \/ BusFails(b)
  PROVE  Others' /\ Reported' /\ LineIsWatched'
<1> USE WorkerAssumption
        DEF Inv, Others, Reported, LineIsWatched, At, Retry, arduino, shutdown,
            clocks, waiting, service, CanRead
<1>1. CASE ServiceEnds
  <2>1. back = "poll" /\ wired /\ low => reads = MaxReads
    BY <1>1 DEF ServiceEnds, NothingPending
  <2>2. back = "poll" /\ wired /\ low => tm' <= Retry
    BY <1>1, <2>1 DEF ServiceEnds
  <2>3. LineIsWatched'
    BY <1>1, <2>2 DEF ServiceEnds
  <2>4. Others' /\ Reported'
    BY <1>1 DEF ServiceEnds
  <2> QED BY <2>3, <2>4
<1>2. CASE ReadStatus
  <2>1. impulses' \in Nat /\ impulses' <= impulses
    BY <1>2, LessIsLess DEF ReadStatus
  <2> QED BY <1>2, <2>1 DEF ReadStatus
<1>3. CASE NoAnswer
  BY <1>3 DEF NoAnswer
<1>4. CASE AllHandled
  BY <1>4 DEF AllHandled
<1>5. ASSUME NEW b \in Busses, Handled(b) \/ BusFails(b)
      PROVE  Others' /\ Reported' /\ LineIsWatched'
  BY <1>5 DEF Handled, BusFails, HandleBus
<1> QED BY <1>1, <1>2, <1>3, <1>4, <1>5

LEMMA StutterInv == Inv /\ UNCHANGED vars => Inv'
  BY DEF Inv, Flags, Others, Reported, LineIsWatched, vars, arduino, shutdown,
         clocks, waiting, service

-----------------------------------------------------------------------------
(***************************************************************************)
(* Theorems                                                                *)
(***************************************************************************)
THEOREM Invariant == Spec => []Inv
<1>1. Inv /\ Work => Inv'
  <2>1. Inv /\ Work => Flags'
    BY WorkFlags DEF Inv
  <2> QED BY <2>1, LoopInv, ServiceInv DEF Work, Inv
<1>2. Inv /\ [Next]_vars => Inv'
  BY <1>1, EnvironmentInv, StutterInv DEF Next
<1> QED BY InitInv, <1>2, PTL DEF Spec

\* The worker's variables keep their types; no counter passes its bound.
THEOREM TypeCorrect == Spec => []TypeOK
<1>1. Inv => TypeOK
  BY DEF Inv, Flags, Others, TypeOK
<1> QED BY <1>1, Invariant, PTL

\* For any busses, intervals and reads per service, the worker sleeps on a
\* low line for ARD_RETRY_MS at most, or has an edge to wake it.
THEOREM LowLineIsWatched == Spec => []LineIsWatched
<1>1. Inv => LineIsWatched
  BY DEF Inv
<1> QED BY <1>1, Invariant, PTL

-----------------------------------------------------------------------------
(***************************************************************************)
(* A round of the loop is bounded: the part of DuePolled, AlarmsHandled    *)
(* and MainReturns that needs no fairness.                                 *)
(***************************************************************************)
\* How far the worker is from the top of its loop
Phase ==
  CASE pc \in {"service", "handle"} /\ back = "poll" -> 6
    [] pc = "poll" -> 5
    [] pc = "woken" -> 4
    [] pc \in {"service", "handle"} /\ back = "served" -> 3
    [] pc = "served" -> 2
    [] pc = "polled" -> 1
    [] OTHER -> 0

\* A step nearer to it: on to a later phase or, in the same one, a read more
\* of the MaxReads there are, the service after the busses of a read, or one
\* of the busses.
NextRead == reads' > reads
NextService == reads' = reads /\ pc = "handle" /\ pc' = "service"
NextBus == reads' = reads /\ pc' = pc /\ Cardinality(todo') < Cardinality(todo)
Nearer ==
  \/ Phase' < Phase
  \/ Phase' = Phase /\ Phase > 0 /\ (NextRead \/ NextService \/ NextBus)

LEMMA PhaseIs ==
  /\ Phase \in 0..6
  /\ pc = "poll" => Phase = 5
  /\ pc = "woken" => Phase = 4
  /\ pc = "served" => Phase = 2
  /\ pc = "polled" => Phase = 1
  /\ pc \in {"top", "ended"} => Phase = 0
  /\ pc \in {"service", "handle"} /\ back = "poll" => Phase = 6
  /\ pc \in {"service", "handle"} /\ back = "served" => Phase = 3
  BY DEF Phase

LEMMA PhaseBecomes ==
  /\ Phase' \in 0..6
  /\ pc' = "poll" => Phase' = 5
  /\ pc' = "woken" => Phase' = 4
  /\ pc' = "served" => Phase' = 2
  /\ pc' = "polled" => Phase' = 1
  /\ pc' \in {"top", "ended"} => Phase' = 0
  /\ pc' \in {"service", "handle"} /\ back' = "poll" => Phase' = 6
  /\ pc' \in {"service", "handle"} /\ back' = "served" => Phase' = 3
  BY DEF Phase

LEMMA SamePhase == pc' = pc /\ back' = back => Phase' = Phase
  BY DEF Phase

LEMMA LoopIsNearer ==
  ASSUME Others,
         PollReturns \/ Woken \/ DevicePoll \/ PollEnds \/ NoPollDue
  PROVE  Nearer
<1> USE PhaseIs, PhaseBecomes DEF Nearer
<1>1. CASE PollReturns
  BY <1>1 DEF PollReturns
<1>2. CASE Woken
  BY <1>2 DEF Woken, Serve
<1>3. CASE DevicePoll
  BY <1>3 DEF DevicePoll
<1>4. CASE PollEnds
  BY <1>4 DEF PollEnds
<1>5. CASE NoPollDue
  BY <1>5 DEF NoPollDue
<1> QED BY <1>1, <1>2, <1>3, <1>4, <1>5

LEMMA ServiceIsNearer ==
  ASSUME Others, ServiceEnds \/ ReadStatus \/ NoAnswer \/ AllHandled
  PROVE  Nearer
<1>0. back \in {"poll", "served"} /\ reads \in Nat
  BY WorkerAssumption DEF Others
<1>1. CASE ServiceEnds
  BY <1>0, <1>1, PhaseIs, PhaseBecomes DEF ServiceEnds, Nearer
<1>2. CASE ReadStatus
  <2>1. pc = "service" /\ pc' = "handle" /\ back' = back /\ reads' = reads + 1
    BY <1>2 DEF ReadStatus, CanRead
  <2> QED BY <1>0, <2>1, PhaseIs, PhaseBecomes DEF Nearer, NextRead
<1>3. CASE NoAnswer
  <2>1. pc = "service" /\ pc' = "service" /\ back' = back /\ reads' = reads + 1
    BY <1>3 DEF NoAnswer, CanRead
  <2> QED BY <1>0, <2>1, PhaseIs, PhaseBecomes DEF Nearer, NextRead
<1>4. CASE AllHandled
  <2>1. pc = "handle" /\ pc' = "service" /\ back' = back /\ reads' = reads
    BY <1>4 DEF AllHandled, service
  <2> QED BY <1>0, <2>1, PhaseIs, PhaseBecomes DEF Nearer, NextService
<1> QED BY <1>1, <1>2, <1>3, <1>4

LEMMA BusIsNearer ==
  ASSUME Others, NEW b \in Busses, HandleBus(b)
  PROVE  Nearer
<1>1. /\ b \in todo /\ todo' = todo \ {b}
      /\ pc \in {"handle", "polled"} /\ pc' = pc /\ reads' = reads /\ back' = back
  BY DEF HandleBus
<1>2. IsFiniteSet(todo)
  BY WorkerAssumption, FS_Subset DEF Others
<1>3. Cardinality(todo) \in Nat /\ Cardinality(todo') = Cardinality(todo) - 1
  BY <1>1, <1>2, FS_RemoveElement, FS_CardinalityType
<1>4. NextBus
  BY <1>1, <1>3 DEF NextBus
<1>5. Phase' = Phase /\ Phase > 0
  BY <1>1, SamePhase, PhaseIs DEF Others
<1> QED BY <1>4, <1>5 DEF Nearer

LEMMA OthersLeaveIt ==
  ASSUME Environment \/ StopWorker \/ Join
  PROVE  UNCHANGED <<pc, reads, todo, back>>
<1> USE DEF service
<1>1. CASE Tick
  BY <1>1 DEF Tick
<1>2. CASE Unmounted
  BY <1>2 DEF Unmounted
<1>3. CASE Impulse
  BY <1>3 DEF Impulse
<1>4. ASSUME NEW b \in Busses, RaiseAlarm(b)
      PROVE  UNCHANGED <<pc, reads, todo, back>>
  BY <1>4 DEF RaiseAlarm
<1>5. CASE StopWorker
  BY <1>5 DEF StopWorker
<1>6. CASE Join
  BY <1>6 DEF Join
<1> QED BY <1>1, <1>2, <1>3, <1>4, <1>5, <1>6 DEF Environment

\* Whatever the Arduino reports, and however often it does not answer, the
\* worker comes back to the top of its loop, where the stop of main() is seen:
\* each of its steps is one nearer, the reads of a service are bounded, and
\* nobody else sets it back (background_worker(), arduino_service()).
RoundsAreBounded ==
  /\ reads <= MaxReads /\ IsFiniteSet(todo)
  /\ Phase = 0 => pc \in {"top", "ended"}

THEOREM RoundsEnd ==
  Spec => /\ []RoundsAreBounded
          /\ [][/\ Work => pc = "top" \/ Nearer
                /\ ~Work => UNCHANGED <<pc, reads, todo, back>>]_vars
<1>1. Inv => RoundsAreBounded
  <2>1. Inv => reads <= MaxReads /\ IsFiniteSet(todo)
    BY WorkerAssumption, FS_Subset DEF Inv, Others
  <2>2. Inv => (Phase = 0 => pc \in {"top", "ended"})
    BY PhaseIs DEF Inv, Others, At
  <2> QED BY <2>1, <2>2 DEF RoundsAreBounded
<1>2. ASSUME Inv, Work PROVE pc = "top" \/ Nearer
  <2>1. Others
    BY <1>2 DEF Inv
  <2>2. CASE StartWait \/ StopLoop
    BY <2>2 DEF StartWait, StopLoop
  <2>3. ASSUME NEW b \in Busses, Handled(b) \/ BusFails(b) PROVE Nearer
    BY <2>1, <2>3, BusIsNearer DEF Handled, BusFails
  <2> QED BY <1>2, <2>1, <2>2, <2>3, LoopIsNearer, ServiceIsNearer DEF Work
<1>3. ASSUME [Next]_vars, ~Work PROVE UNCHANGED <<pc, reads, todo, back>>
  <2>1. CASE UNCHANGED vars
    BY <2>1 DEF vars, service
  <2>2. CASE Next
    BY <1>3, <2>2, OthersLeaveIt DEF Next
  <2> QED BY <1>3, <2>1, <2>2
<1>4. Inv /\ [Next]_vars =>
        [/\ Work => pc = "top" \/ Nearer
         /\ ~Work => UNCHANGED <<pc, reads, todo, back>>]_vars
  BY <1>2, <1>3
<1> QED BY <1>1, <1>4, Invariant, PTL DEF Spec

-----------------------------------------------------------------------------
(***************************************************************************)
(* The threads on the busses                                               *)
(***************************************************************************)

OnBus == {"channel", "reset", "select", "command", "blind", "unlock"}

\* A thread that is not idle has a job; what only a pass does, the worker
\* does, during one.
JobKnown(t) == stage[t] # "idle" => job[t] \in Job
OfFile(t) ==
  stage[t] # "idle" =>
    job[t].kind \in {"poll", "set", "setlatch", "scan"} /\ stage[t] \notin {"switch", "passed"}
OfPass ==
  /\ stage[Worker] # "idle" /\ job[Worker].kind \in {"first", "next", "read", "latch"} =>
       bus # Nobody
  /\ stage[Worker] # "idle" /\ job[Worker].kind \in {"first", "next"} => job[Worker].at = bus
  /\ stage[Worker] \in {"switch", "passed"} => bus # Nobody
  /\ stage[Worker] # "idle" => job[Worker].kind # "scan"
  /\ stage[Worker] = "idle" => bus = Nobody
Jobs ==
  /\ \A t \in Threads : JobKnown(t)
  /\ \A t \in Files : OfFile(t)
  /\ OfPass

\* Who is on the bus holds its mutex, but for the reset of the latches after
\* an alarm was read.
Holding(t) ==
  stage[t] \in OnBus =>
    IF job[t].kind = "latch" THEN stage[t] # "unlock" ELSE mtx = t
MutexHeld == \A t \in Threads : Holding(t)

BusTypes == BusTypeOK /\ Jobs /\ MutexHeld

\* The FUSE threads are off the busses during a pass.
PassAlone == bus # Nobody => \A t \in Files : stage[t] = "idle"

\* Who listens on which channel, by how far a command is
Listening(t) ==
  /\ stage[t] = "select" => wire = "rom"
  /\ stage[t] = "command" => wire = Meant(job[t])
  /\ stage[t] \in {"reset", "select", "command", "blind"} /\ job[t].kind \in DeviceKinds =>
       chan = BusOf[job[t].at]
Heard == \A t \in Threads : Listening(t)

\* What is still wanted is in alarm, on the bus of the pass and not handed.
\* While the search goes on where it was, none was sent blind and its channel
\* is that bus's; when it is exhausted the alarm it has just found is the last
\* that is wanted.
Searching == job[Worker].kind \in {"first", "next"}
Begins == job[Worker].kind = "first" /\ stage[Worker] \in {"lock", "channel"}
Finds == stage[Worker] = "unlock" /\ Searching
Wants ==
  wanted \subseteq alarming /\ wanted \cap handed = {} /\ \A d \in wanted : BusOf[d] = bus
Goes ==
  course = "kept" /\ ~Begins =>
    /\ chan = bus
    /\ ~(stage[Worker] = "blind" /\ Searching)
    /\ exhausted => wanted \subseteq (IF Finds THEN {found} ELSE {})
    /\ Finds /\ found = Nobody => wanted = {}
    /\ stage[Worker] = "passed" => wanted = {}
PassKnows == bus # Nobody => Wants /\ Goes

BusInv == BusTypes /\ PassAlone /\ Heard /\ PassKnows

LEMMA BusConstants ==
  /\ Worker \in Threads /\ Worker \notin Files /\ Files \subseteq Threads
  /\ \A t \in Threads : t # Worker => t \in Files
  /\ Nobody \notin Threads /\ Nobody \notin Devices /\ Nobody \notin Channels
  /\ \A d \in Devices : BusOf[d] \in Channels /\ d \notin {"rom", "search", "lost"}
  BY OneWireAssumption DEF Threads

LEMMA JobTypes ==
  /\ \A j \in Job : /\ j.kind \in SearchKinds \cup DeviceKinds
                    /\ j.kind \in DeviceKinds => j.at \in Devices
                    /\ j.kind \in SearchKinds => j.at \in Channels
                    /\ BusFor(j) \in Channels
                    /\ Meant(j) \in Devices \cup {"search"}
  /\ \A kind \in SearchKinds, b \in Channels : [kind |-> kind, at |-> b] \in Job
  /\ \A kind \in DeviceKinds, d \in Devices : [kind |-> kind, at |-> d] \in Job
  BY BusConstants DEF Job, BusFor, Meant, SearchKinds, DeviceKinds

\* What a step of one thread has to keep of the threads.
LEMMA OneMoves ==
  ASSUME BusTypes, NEW t \in Threads, NEW l \in Stages, NEW j \in Job \cup {NoJob},
         stage' = [stage EXCEPT ![t] = l], job' = [job EXCEPT ![t] = j],
         l # "idle" => j \in Job,
         t \in Files /\ l # "idle" =>
           j.kind \in {"poll", "set", "setlatch", "scan"} /\ l \notin {"switch", "passed"},
         t # Worker => bus' = bus,
         t = Worker /\ l # "idle" =>
           /\ j.kind \in {"first", "next", "read", "latch"} => bus' # Nobody
           /\ j.kind \in {"first", "next"} => j.at = bus'
           /\ l \in {"switch", "passed"} => bus' # Nobody
           /\ j.kind # "scan",
         t = Worker /\ l = "idle" => bus' = Nobody,
         l \in OnBus => IF j.kind = "latch" THEN l # "unlock" ELSE mtx' = t,
         mtx' = mtx \/ mtx = Nobody \/ mtx = t
  PROVE  stage' \in [Threads -> Stages] /\ job' \in [Threads -> Job \cup {NoJob}]
         /\ Jobs' /\ MutexHeld'
<1>1. stage \in [Threads -> Stages] /\ job \in [Threads -> Job \cup {NoJob}]
  BY DEF BusTypes, BusTypeOK
<1>2. /\ \A u \in Threads \ {t} : stage'[u] = stage[u] /\ job'[u] = job[u]
      /\ stage'[t] = l /\ job'[t] = j
      /\ stage' \in [Threads -> Stages] /\ job' \in [Threads -> Job \cup {NoJob}]
  BY <1>1
<1>3. Jobs'
  <2>1. \A u \in Threads : JobKnown(u)'
    BY <1>2 DEF BusTypes, Jobs, JobKnown
  <2>2. \A u \in Files : OfFile(u)'
    BY <1>2, BusConstants DEF BusTypes, Jobs, OfFile
  <2>3. OfPass'
    BY <1>2, BusConstants DEF BusTypes, Jobs, OfPass, Stages
  <2> QED BY <2>1, <2>2, <2>3 DEF Jobs
<1>4. MutexHeld'
  <2>1. \A u \in Threads : u # t => Holding(u)'
    BY <1>2, BusConstants DEF BusTypes, MutexHeld, Holding
  <2>2. Holding(t)'
    BY <1>2 DEF Holding
  <2> QED BY <2>1, <2>2 DEF MutexHeld
<1> QED BY <1>2, <1>3, <1>4

\* The types beside those of OneMoves
OtherTypes ==
  /\ mtx \in Threads \cup {Nobody}
  /\ dev \in [Devices -> Threads \cup {Nobody}]
  /\ chan \in Channels \cup {Nobody}
  /\ wire \in Devices \cup {"rom", "search", "lost"}
  /\ exhausted \in BOOLEAN
  /\ alarming \subseteq Devices
  /\ found \in Devices \cup {Nobody}
  /\ bus \in Channels \cup {Nobody}
  /\ handed \subseteq Devices /\ wanted \subseteq Devices
  /\ course \in {"kept", "moved", "failed"}

LEMMA TypesAre ==
  BusTypes <=> /\ stage \in [Threads -> Stages] /\ job \in [Threads -> Job \cup {NoJob}]
               /\ OtherTypes /\ Jobs /\ MutexHeld
  BY Zenon DEF BusTypes, BusTypeOK, OtherTypes

LEMMA TypesAgain ==
  ASSUME stage' \in [Threads -> Stages] /\ job' \in [Threads -> Job \cup {NoJob}],
         OtherTypes', Jobs', MutexHeld'
  PROVE  BusTypes'
  BY Zenon DEF BusTypes, BusTypeOK, OtherTypes

LEMMA SameJob ==
  ASSUME BusTypes, NEW t \in Threads, job' = job
  PROVE  job' = [job EXCEPT ![t] = job[t]]
  BY DEF BusTypes, BusTypeOK

\* What is known of a thread at a stage
LEMMA AtStage ==
  ASSUME BusTypes, NEW t \in Threads, stage[t] # "idle"
  PROVE  /\ job[t] \in Job /\ job[t].kind \in SearchKinds \cup DeviceKinds
         /\ t \in Files => /\ job[t].kind \in {"poll", "set", "setlatch", "scan"}
                           /\ stage[t] \notin {"switch", "passed"}
         /\ t = Worker =>
              /\ job[t].kind \in {"first", "next", "read", "latch"} => bus # Nobody
              /\ job[t].kind \in {"first", "next"} => job[t].at = bus
              /\ stage[t] \in {"switch", "passed"} => bus # Nobody
              /\ job[t].kind # "scan"
         /\ stage[t] \in OnBus => IF job[t].kind = "latch" THEN stage[t] # "unlock"
                                                           ELSE mtx = t
         /\ job[t].kind \in {"first", "next", "read", "latch"} => t = Worker
         /\ stage[t] \in {"switch", "passed"} => t = Worker
<1>1. JobKnown(t) /\ (t \in Files => OfFile(t)) /\ OfPass /\ Holding(t)
  BY DEF BusTypes, Jobs, MutexHeld
<1>2. job[t] \in Job /\ job[t].kind \in SearchKinds \cup DeviceKinds
  BY <1>1, JobTypes DEF JobKnown
<1> QED BY <1>1, <1>2, BusConstants DEF OfFile, OfPass, Holding

LEMMA LockDeviceTypes ==
  ASSUME BusTypes, NEW t \in Threads, LockDevice(t) PROVE BusTypes'
<1>1. stage[t] # "idle" /\ stage[t] \notin OnBus
  BY DEF LockDevice, OnBus
<1>2. OtherTypes'
  BY TypesAre DEF LockDevice, OtherTypes, controller, pass
<1>3. /\ stage' = [stage EXCEPT ![t] = "lock"] /\ job' = [job EXCEPT ![t] = job[t]]
      /\ bus' = bus /\ mtx' = mtx
  BY SameJob DEF LockDevice, GoTo, controller, pass
<1>4. /\ job[t] \in Job /\ "lock" \in Stages /\ "lock" \notin OnBus
      /\ t \in Files => job[t].kind \in {"poll", "set", "setlatch", "scan"}
      /\ t = Worker =>
           /\ job[t].kind \in {"first", "next", "read", "latch"} => bus' # Nobody
           /\ job[t].kind \in {"first", "next"} => job[t].at = bus'
           /\ job[t].kind # "scan"
  BY <1>1, <1>3, AtStage DEF Stages, OnBus
<1>5. stage' \in [Threads -> Stages] /\ job' \in [Threads -> Job \cup {NoJob}]
      /\ Jobs' /\ MutexHeld'
  BY <1>3, <1>4, OneMoves
<1> QED BY ONLY <1>2, <1>5, TypesAgain

LEMMA LockBusTypes ==
  ASSUME BusTypes, NEW t \in Threads, LockBus(t) PROVE BusTypes'
<1>1. stage[t] # "idle"
  BY DEF LockBus
<1>2. OtherTypes'
  BY TypesAre DEF LockBus, TakeMutex, OtherTypes, controller, pass
<1>3. /\ stage' = [stage EXCEPT ![t] = AfterLock(job[t].kind)]
      /\ job' = [job EXCEPT ![t] = job[t]]
      /\ bus' = bus /\ mtx' = t /\ mtx = Nobody
  BY SameJob DEF LockBus, TakeMutex, GoTo, controller, pass
<1> DEFINE l == AfterLock(job[t].kind)
<1>4. l \in {"reset", "channel"} /\ l \in Stages
  BY DEF AfterLock, Stages
<1> HIDE DEF l
<1>5. /\ job[t] \in Job
      /\ t \in Files => job[t].kind \in {"poll", "set", "setlatch", "scan"}
      /\ t = Worker =>
           /\ job[t].kind \in {"first", "next", "read", "latch"} => bus' # Nobody
           /\ job[t].kind \in {"first", "next"} => job[t].at = bus'
           /\ job[t].kind # "scan"
  BY <1>1, <1>3, AtStage
<1>6. stage' = [stage EXCEPT ![t] = l]
  BY <1>3 DEF l
<1>7. stage' \in [Threads -> Stages] /\ job' \in [Threads -> Job \cup {NoJob}]
      /\ Jobs' /\ MutexHeld'
  BY <1>3, <1>4, <1>5, <1>6, OneMoves
<1> QED BY <1>2, <1>7, TypesAgain

\* A step of a command: the thread stays on the bus.
LEMMA CommandTypes ==
  ASSUME BusTypes, NEW t \in Threads, NEW l \in OnBus, stage[t] \in OnBus \ {"unlock"},
         stage' = [stage EXCEPT ![t] = l], job' = job, mtx' = mtx, bus' = bus,
         l = "unlock" => job[t].kind # "latch", OtherTypes'
  PROVE  BusTypes'
<1>1. stage[t] # "idle" /\ stage[t] # "unlock" /\ stage[t] \in OnBus
      /\ l \in Stages /\ l # "idle" /\ l \notin {"switch", "passed"}
  BY DEF OnBus, Stages
<1>2. job' = [job EXCEPT ![t] = job[t]]
  BY SameJob
<1>3. /\ job[t] \in Job /\ mtx' = mtx /\ bus' = bus
      /\ t \in Files => job[t].kind \in {"poll", "set", "setlatch", "scan"}
      /\ t = Worker =>
           /\ job[t].kind \in {"first", "next", "read", "latch"} => bus' # Nobody
           /\ job[t].kind \in {"first", "next"} => job[t].at = bus'
           /\ job[t].kind # "scan"
      /\ IF job[t].kind = "latch" THEN l # "unlock" ELSE mtx' = t
  BY <1>1, AtStage
<1>4. stage' \in [Threads -> Stages] /\ job' \in [Threads -> Job \cup {NoJob}]
      /\ Jobs' /\ MutexHeld'
  BY <1>1, <1>2, <1>3, OneMoves
<1> QED BY ONLY <1>4, OtherTypes', TypesAgain

LEMMA SelectChannelTypes ==
  ASSUME BusTypes, NEW t \in Threads, SelectChannel(t) PROVE BusTypes'
<1>1. stage[t] = "channel" /\ job[t] \in Job
  BY AtStage DEF SelectChannel
<1>2. chan' \in Channels /\ exhausted' \in BOOLEAN
  <2>1. BusFor(job[t]) \in Channels
    BY <1>1, JobTypes
  <2>2. exhausted' = ResetSearch(job[t].kind)
    BY DEF SelectChannel
  <2>3. exhausted' \in BOOLEAN
    BY <2>2, Zenon DEF ResetSearch
  <2> QED BY <2>1, <2>3 DEF SelectChannel, Channel
<1>3. wire' \in {wire, "lost"} /\ course' \in {"kept", "moved", "failed"}
  BY TypesAre DEF SelectChannel, Moved, OtherTypes
<1>4. OtherTypes'
  BY <1>2, <1>3, TypesAre DEF SelectChannel, OtherTypes
<1> QED BY <1>1, <1>4, CommandTypes DEF SelectChannel, GoTo, OnBus

LEMMA ResetBusTypes ==
  ASSUME BusTypes, NEW t \in Threads, ResetBus(t) PROVE BusTypes'
<1>1. OtherTypes'
  BY TypesAre DEF ResetBus, OtherTypes, pass
<1> QED BY <1>1, CommandTypes DEF ResetBus, GoTo, OnBus, pass

LEMMA NoPresenceTypes ==
  ASSUME BusTypes, NEW t \in Threads, NoPresence(t) PROVE BusTypes'
<1>1. OtherTypes'
  BY TypesAre DEF NoPresence, OtherTypes
<1> QED BY <1>1, CommandTypes DEF NoPresence, GoTo, OnBus

LEMMA NoneLeftTypes ==
  ASSUME BusTypes, NEW t \in Threads, NoneLeft(t) PROVE BusTypes'
<1>1. OtherTypes'
  BY TypesAre DEF NoneLeft, OtherTypes, controller
<1>2. job[t].kind # "latch"
  BY DEF NoneLeft, Is, SearchKinds
<1> QED BY <1>1, <1>2, CommandTypes DEF NoneLeft, Is, GoTo, OnBus

LEMMA SelectTypes ==
  ASSUME BusTypes, NEW t \in Threads, Select(t) PROVE BusTypes'
<1>1. Meant(job[t]) \in Devices \cup {"search"}
  BY AtStage, JobTypes DEF Select
<1>2. OtherTypes'
  BY <1>1, TypesAre DEF Select, OtherTypes, pass
<1> QED BY <1>2, CommandTypes DEF Select, GoTo, OnBus, pass

LEMMA FindAlarmTypes ==
  ASSUME BusTypes, NEW t \in Threads, FindAlarm(t) PROVE BusTypes'
<1>1. exhausted' \in BOOLEAN
  <2>1. exhausted \in BOOLEAN
    BY TypesAre, Zenon DEF OtherTypes
  <2>2. \/ exhausted' \in {Findable = {found'}, course # "kept" \/ Findable = {found'}}
        \/ exhausted' = exhausted
        \/ exhausted' \in BOOLEAN
    BY Zenon DEF FindAlarm
  <2>3. CASE exhausted' \in {Findable = {found'}, course # "kept" \/ Findable = {found'}}
    BY <2>3, Zenon
  <2>4. CASE exhausted' = exhausted
    BY <2>1, <2>4, Zenon
  <2> QED BY <2>2, <2>3, <2>4
<1>2. found' \in Devices \cup {Nobody}
  BY TypesAre DEF FindAlarm, Findable, OtherTypes
<1>3. OtherTypes'
  BY <1>1, <1>2, TypesAre DEF FindAlarm, OtherTypes
<1>4. job[t].kind # "latch" /\ stage[t] \in OnBus \ {"unlock"} /\ job' = job
      /\ mtx' = mtx /\ bus' = bus /\ stage' = [stage EXCEPT ![t] = "unlock"]
  BY DEF FindAlarm, Sends, GoTo, OnBus
<1> QED BY <1>3, <1>4, CommandTypes DEF OnBus

LEMMA ScanStepTypes ==
  ASSUME BusTypes, NEW t \in Threads, ScanStep(t) PROVE BusTypes'
<1>1. exhausted' \in BOOLEAN
  BY TypesAre DEF ScanStep, OtherTypes
<1>2. OtherTypes'
  BY <1>1, TypesAre DEF ScanStep, OtherTypes, pass
<1>3. job[t].kind # "latch" /\ stage[t] \in {"command", "blind"}
      /\ job' = job /\ mtx' = mtx /\ bus' = bus
  BY DEF ScanStep, Sends, pass
<1>4. PICK l \in {"reset", "unlock"} : stage' = [stage EXCEPT ![t] = l]
  BY DEF ScanStep, GoTo
<1> QED BY <1>2, <1>3, <1>4, CommandTypes DEF OnBus

LEMMA AccessTypes ==
  ASSUME BusTypes, NEW t \in Threads, Access(t) PROVE BusTypes'
<1>1. stage[t] \in {"command", "blind"} /\ job[t].kind \in {"poll", "read", "set"}
      /\ bus' = bus /\ mtx' = mtx
  BY DEF Access, Sends, pass
<1>2. OtherTypes'
  BY TypesAre DEF Access, OtherTypes, controller, pass
<1>3. CASE job[t].kind = "set"
  <2>1. /\ stage' = [stage EXCEPT ![t] = "channel"]
        /\ job' = [job EXCEPT ![t] = [kind |-> "setlatch", at |-> job[t].at]]
    BY <1>3 DEF Access, Do, GoTo
  <2>2. [kind |-> "setlatch", at |-> job[t].at] \in Job
    BY <1>1, <1>3, AtStage, JobTypes DEF DeviceKinds
  <2> PICK j \in Job : j = [kind |-> "setlatch", at |-> job[t].at]
    BY <2>2
  <2>3. job' = [job EXCEPT ![t] = j] /\ j.kind = "setlatch"
    BY <2>1
  <2>4. "channel" \in Stages /\ stage[t] # "idle" /\ stage[t] \in OnBus
    BY <1>1 DEF Stages, OnBus
  <2>5. mtx' = t
    BY <1>1, <1>3, <2>4, AtStage
  <2>6. stage' \in [Threads -> Stages] /\ job' \in [Threads -> Job \cup {NoJob}]
        /\ Jobs' /\ MutexHeld'
    BY <1>1, <2>1, <2>3, <2>4, <2>5, OneMoves
  <2> QED BY ONLY <1>2, <2>6, TypesAgain
<1>4. CASE job[t].kind # "set"
  BY <1>1, <1>2, <1>4, CommandTypes DEF Access, GoTo, OnBus
<1> QED BY <1>3, <1>4

LEMMA ResetLatchesTypes ==
  ASSUME BusTypes, NEW t \in Threads, ResetLatches(t) PROVE BusTypes'
<1>1. stage[t] \in {"command", "blind"} /\ job[t].kind \in {"latch", "setlatch"}
      /\ bus' = bus /\ mtx' = mtx /\ job' = job
  BY DEF ResetLatches, Sends
<1>2. OtherTypes'
  BY TypesAre DEF ResetLatches, Moved, OtherTypes, controller
<1>3. CASE stage' = [stage EXCEPT ![t] = "channel"]
  BY <1>1, <1>2, <1>3, CommandTypes DEF OnBus
<1>5. CASE job[t].kind = "setlatch" /\ stage' = [stage EXCEPT ![t] = "unlock"]
  BY <1>1, <1>2, <1>5, CommandTypes DEF OnBus
<1>4. CASE job[t].kind = "latch" /\ stage' = [stage EXCEPT ![t] = "switch"]
  <2>1. stage' = [stage EXCEPT ![t] = "switch"] /\ job' = [job EXCEPT ![t] = job[t]]
    BY <1>1, <1>4, SameJob
  <2>2. t = Worker /\ job[t] \in Job /\ bus' # Nobody
    BY <1>1, <1>4, AtStage, BusConstants
  <2> QED BY <1>1, <1>2, <1>4, <2>1, <2>2, BusConstants, OneMoves, TypesAgain
          DEF Stages, OnBus
<1>6. \/ stage' = [stage EXCEPT ![t] = "channel"]
      \/ job[t].kind = "setlatch" /\ stage' = [stage EXCEPT ![t] = "unlock"]
      \/ job[t].kind = "latch" /\ stage' = [stage EXCEPT ![t] = "switch"]
  BY <1>1 DEF ResetLatches, GoTo
<1> QED BY <1>3, <1>4, <1>5, <1>6

LEMMA FailsTypes ==
  ASSUME BusTypes, NEW t \in Threads, Fails(t)
  PROVE  /\ stage[t] \in OnBus \ {"unlock"} /\ stage[t] # "idle"
         /\ chan' \in Channels \cup {Nobody}
         /\ wire' \in Devices \cup {"rom", "search", "lost"}
         /\ course' \in {"kept", "moved", "failed"}
<1>1. stage[t] \in OnBus \ {"unlock"} /\ stage[t] # "idle"
  BY DEF Fails, Is, OnBus
<1>2. chan' \in Channels \cup {Nobody} /\ wire' \in Devices \cup {"rom", "search", "lost"}
  BY TypesAre DEF Fails, OtherTypes
<1>3. course' \in {"kept", "moved", "failed"}
  BY TypesAre DEF Fails, OtherTypes
<1> QED BY <1>1, <1>2, <1>3

LEMMA TryAgainTypes ==
  ASSUME BusTypes, NEW t \in Threads, TryAgain(t) PROVE BusTypes'
<1>1. stage[t] \in OnBus \ {"unlock"} /\ stage[t] # "idle" /\ bus' = bus /\ job' = job
      /\ job[t].kind \in DeviceKinds
  BY FailsTypes DEF TryAgain
<1>2. OtherTypes'
  <2>1. mtx' \in Threads \cup {Nobody}
    BY TypesAre DEF TryAgain, OtherTypes
  <2> QED BY <2>1, FailsTypes, TypesAre DEF TryAgain, OtherTypes
<1>3. CASE stage' = [stage EXCEPT ![t] = "channel"] /\ mtx' = mtx
  BY <1>1, <1>2, <1>3, CommandTypes DEF OnBus
<1>4. CASE /\ stage' = [stage EXCEPT ![t] = "lock"] /\ mtx' = Nobody
           /\ job[t].kind \in {"poll", "read"}
  <2>1. mtx = t
    BY <1>1, <1>4, AtStage
  <2>2. stage \in [Threads -> Stages] /\ job \in [Threads -> Job \cup {NoJob}]
    BY TypesAre
  <2>3. /\ \A u \in Threads \ {t} : stage'[u] = stage[u]
        /\ stage'[t] = "lock" /\ stage' \in [Threads -> Stages]
    BY <1>4, <2>2 DEF Stages
  <2>4. Jobs'
    <3>1. \A u \in Threads : JobKnown(u)'
      BY <1>1, <2>3, TypesAre DEF Jobs, JobKnown
    <3>2. \A u \in Files : OfFile(u)'
      BY <1>1, <2>3, TypesAre, BusConstants DEF Jobs, OfFile
    <3>3. OfPass'
      BY <1>1, <2>3, TypesAre, BusConstants DEF Jobs, OfPass
    <3> QED BY <3>1, <3>2, <3>3 DEF Jobs
  <2>5. MutexHeld'
    <3> SUFFICES ASSUME NEW u \in Threads PROVE Holding(u)'
      BY DEF MutexHeld
    <3>1. CASE u = t
      BY <2>3, <3>1 DEF Holding, OnBus
    <3>2. CASE u # t
      BY <1>1, <2>1, <2>3, <3>2, TypesAre, BusConstants DEF MutexHeld, Holding
    <3> QED BY <3>1, <3>2
  <2> QED BY <1>1, <1>2, <2>2, <2>3, <2>4, <2>5, TypesAgain
<1>5. \/ stage' = [stage EXCEPT ![t] = "channel"] /\ mtx' = mtx
      \/ /\ stage' = [stage EXCEPT ![t] = "lock"] /\ mtx' = Nobody
         /\ job[t].kind \in {"poll", "read"}
  BY DEF TryAgain, GoTo
<1> QED BY <1>3, <1>4, <1>5

LEMMA GiveUpTypes ==
  ASSUME BusTypes, NEW t \in Threads, GiveUp(t) PROVE BusTypes'
<1>1. stage[t] \in OnBus \ {"unlock"} /\ bus' = bus /\ mtx' = mtx
  BY FailsTypes DEF GiveUp
<1>2. OtherTypes'
  BY FailsTypes, TypesAre DEF GiveUp, OtherTypes
<1>3. CASE job' = job /\ job[t].kind # "latch"
  BY <1>1, <1>2, <1>3, CommandTypes DEF GiveUp, GoTo, OnBus
<1>4. CASE job' = job /\ job[t].kind = "latch"
  <2>1. stage' = [stage EXCEPT ![t] = "switch"] /\ job' = [job EXCEPT ![t] = job[t]]
    BY <1>4, SameJob DEF GiveUp, GoTo
  <2>2. stage[t] # "idle"
    BY <1>1 DEF OnBus
  <2>3. /\ job[t] \in Job /\ t = Worker /\ t \notin Files /\ bus # Nobody
        /\ "switch" \in Stages /\ "switch" \notin OnBus
    BY <1>1, <1>4, <2>2, AtStage, BusConstants DEF Stages, OnBus
  <2>4. bus' = bus /\ mtx' = mtx
    BY <1>1
  <2>5. stage' \in [Threads -> Stages] /\ job' \in [Threads -> Job \cup {NoJob}]
        /\ Jobs' /\ MutexHeld'
    BY <1>4, <2>1, <2>3, <2>4, OneMoves
  <2> QED BY ONLY <1>2, <2>5, TypesAgain
<1>5. CASE job[t].kind = "read" /\ Do(t, "poll", job[t].at)
  <2>1. /\ stage' = [stage EXCEPT ![t] = "unlock"]
        /\ job' = [job EXCEPT ![t] = [kind |-> "poll", at |-> job[t].at]]
    BY <1>5 DEF GiveUp, Do, GoTo
  <2>2. stage[t] # "idle" /\ stage[t] \in OnBus
    BY <1>1 DEF OnBus
  <2>3. [kind |-> "poll", at |-> job[t].at] \in Job
    BY <1>5, <2>2, AtStage, JobTypes DEF DeviceKinds
  <2>4. t = Worker /\ mtx = t
    BY <1>5, <2>2, AtStage
  <2> QED BY <1>1, <1>2, <2>1, <2>3, <2>4, BusConstants, OneMoves, TypesAgain DEF Stages, OnBus
<1> QED BY <1>3, <1>4, <1>5 DEF GiveUp

\* The worker gives the mutex back, or has none, and goes on in its pass.
LEMMA PassUnlocks ==
  ASSUME BusTypes, NEW l \in {"dev", "lock", "channel", "passed"}, NEW j \in Job,
         stage[Worker] \in {"unlock", "switch"},
         stage[Worker] = "unlock" \/ mtx' = mtx, mtx' \in {mtx, Nobody},
         stage' = [stage EXCEPT ![Worker] = l], job' = [job EXCEPT ![Worker] = j],
         l = "channel" => j.kind = "latch",
         bus # Nobody, bus' = bus, j.kind \in {"first", "next"} => j.at = bus,
         j.kind # "scan"
  PROVE  stage' \in [Threads -> Stages] /\ job' \in [Threads -> Job \cup {NoJob}]
         /\ Jobs' /\ MutexHeld'
<1>1. stage \in [Threads -> Stages] /\ job \in [Threads -> Job \cup {NoJob}] /\ Worker \in Threads
  BY TypesAre, BusConstants
<1>2. /\ \A u \in Threads \ {Worker} : stage'[u] = stage[u] /\ job'[u] = job[u]
      /\ stage'[Worker] = l /\ job'[Worker] = j
      /\ stage' \in [Threads -> Stages] /\ job' \in [Threads -> Job \cup {NoJob}]
  BY <1>1 DEF Stages
<1>3. stage[Worker] = "unlock" => mtx = Worker
  BY <1>1, AtStage DEF OnBus
<1>4. Jobs'
  BY <1>2, TypesAre, BusConstants DEF Jobs, JobKnown, OfFile, OfPass
<1>5. MutexHeld'
  <2>1. \A u \in Threads : u # Worker => Holding(u)'
    <3> SUFFICES ASSUME NEW u \in Threads, u # Worker PROVE Holding(u)'
      OBVIOUS
    <3>1. Holding(u) /\ stage'[u] = stage[u] /\ job'[u] = job[u]
      BY <1>2, TypesAre DEF MutexHeld
    <3>2. stage[u] \in OnBus /\ job[u].kind # "latch" => mtx = u /\ mtx' = mtx
      BY <1>3, <3>1 DEF Holding
    <3> QED BY <3>1, <3>2 DEF Holding
  <2>2. Holding(Worker)'
    BY <1>2 DEF Holding, OnBus
  <2> QED BY <2>1, <2>2 DEF MutexHeld
<1> QED BY <1>2, <1>4, <1>5

LEMMA FreeTypes ==
  ASSUME BusTypes, NEW t
  PROVE  Free(t) \in [Devices -> Threads \cup {Nobody}]
  BY TypesAre DEF Free, OtherTypes

LEMMA UnlockJobTypes ==
  ASSUME BusTypes, NEW t \in Threads, UnlockJob(t) PROVE BusTypes'
<1>1. stage[t] = "unlock" /\ mtx' = Nobody /\ bus' = bus
      /\ stage' = [stage EXCEPT ![t] = "idle"] /\ job' = [job EXCEPT ![t] = NoJob]
      /\ (t = Worker => bus = Nobody)
  BY DEF UnlockJob, GoTo, Pressing, pass
<1>2. OtherTypes'
  BY TypesAre, FreeTypes DEF UnlockJob, OtherTypes, controller, pass
<1>3. mtx = t
  BY <1>1, AtStage DEF OnBus
<1>4. MutexHeld' /\ Jobs' /\ stage' \in [Threads -> Stages] /\ job' \in [Threads -> Job \cup {NoJob}]
  <2>1. stage \in [Threads -> Stages] /\ job \in [Threads -> Job \cup {NoJob}]
    BY TypesAre
  <2>2. /\ \A u \in Threads \ {t} : stage'[u] = stage[u] /\ job'[u] = job[u]
        /\ stage'[t] = "idle"
        /\ stage' \in [Threads -> Stages] /\ job' \in [Threads -> Job \cup {NoJob}]
    BY <1>1, <2>1 DEF Stages
  <2>3. Jobs'
    BY <1>1, <2>2, TypesAre, BusConstants DEF Jobs, JobKnown, OfFile, OfPass
  <2>4. MutexHeld'
    BY <1>3, <2>2, TypesAre DEF MutexHeld, Holding, OnBus
  <2> QED BY <2>2, <2>3, <2>4
<1> QED BY <1>2, <1>4, TypesAgain

LEMMA UnlockReadTypes ==
  ASSUME BusTypes, UnlockRead PROVE BusTypes'
<1>1. stage[Worker] = "unlock" /\ job[Worker].kind = "read" /\ mtx' = Nobody /\ bus' = bus
      /\ stage' = [stage EXCEPT ![Worker] = "channel"]
      /\ job' = [job EXCEPT ![Worker] = [kind |-> "latch", at |-> job[Worker].at]]
  BY DEF UnlockRead, Is, Do, GoTo, pass
<1>2. OtherTypes'
  BY TypesAre DEF UnlockRead, OtherTypes, controller, pass
<1>3. mtx = Worker /\ bus # Nobody /\ job[Worker] \in Job
  BY <1>1, BusConstants, AtStage DEF OnBus
<1>4. [kind |-> "latch", at |-> job[Worker].at] \in Job
  BY <1>1, <1>3, JobTypes DEF DeviceKinds
<1> QED BY <1>1, <1>2, <1>3, <1>4, BusConstants, PassUnlocks, TypesAgain DEF Stages, OnBus

LEMMA UnlockSearchTypes ==
  ASSUME BusTypes, UnlockSearch PROVE BusTypes'
<1>1. stage[Worker] = "unlock" /\ job[Worker].kind \in {"first", "next"} /\ mtx' = Nobody
      /\ bus' = bus
  BY DEF UnlockSearch, Is
<1>2. bus \in Channels /\ bus # Nobody /\ job[Worker] \in Job /\ job[Worker].at = bus
  BY <1>1, BusConstants, AtStage, TypesAre DEF OtherTypes
<1>3. OtherTypes'
  BY TypesAre DEF UnlockSearch, OtherTypes, controller
<1>4. CASE found = Nobody
  <2>1. stage' = [stage EXCEPT ![Worker] = "passed"]
        /\ job' = [job EXCEPT ![Worker] = job[Worker]]
    BY <1>4, BusConstants, SameJob DEF UnlockSearch, GoTo
  <2> QED BY <1>1, <1>2, <1>3, <2>1, PassUnlocks, TypesAgain
<1>5. CASE found # Nobody /\ BusOf[found] = bus
  <2>1. stage' = [stage EXCEPT ![Worker] = "dev"]
        /\ job' = [job EXCEPT ![Worker] = [kind |-> "read", at |-> found]]
    BY <1>5 DEF UnlockSearch, GoTo, Do
  <2>2. [kind |-> "read", at |-> found] \in Job
    BY <1>5, TypesAre, JobTypes DEF OtherTypes, DeviceKinds
  <2> QED BY <1>1, <1>2, <1>3, <2>1, <2>2, PassUnlocks, TypesAgain
<1>6. CASE found # Nobody /\ BusOf[found] # bus
  <2>1. stage' = [stage EXCEPT ![Worker] = "lock"]
        /\ job' = [job EXCEPT ![Worker] = [kind |-> "next", at |-> bus]]
    BY <1>6 DEF UnlockSearch, GoTo, Do
  <2>2. [kind |-> "next", at |-> bus] \in Job
    BY <1>2, JobTypes DEF SearchKinds
  <2> QED BY <1>1, <1>2, <1>3, <2>1, <2>2, PassUnlocks, TypesAgain
<1> QED BY <1>4, <1>5, <1>6

LEMMA SwitchTypes ==
  ASSUME BusTypes, NEW d \in Devices, Switch(d) PROVE BusTypes'
<1>1. stage[Worker] = "switch" /\ mtx' = mtx /\ bus' = bus
      /\ stage' = [stage EXCEPT ![Worker] = "dev"]
      /\ job' = [job EXCEPT ![Worker] = [kind |-> "set", at |-> d]]
  BY DEF Switch, GoTo, Do, pass
<1>2. OtherTypes'
  BY TypesAre, FreeTypes DEF Switch, OtherTypes, controller, pass
<1>3. bus # Nobody
  BY <1>1, BusConstants, AtStage
<1>4. [kind |-> "set", at |-> d] \in Job
  BY JobTypes DEF DeviceKinds
<1> QED BY <1>1, <1>2, <1>3, <1>4, PassUnlocks, TypesAgain

LEMMA SearchOnTypes ==
  ASSUME BusTypes, SearchOn PROVE BusTypes'
<1>1. /\ \/ stage[Worker] = "switch" /\ mtx' = mtx
         \/ stage[Worker] = "unlock" /\ mtx' = Nobody /\ bus # Nobody
      /\ bus' = bus
      /\ stage' = [stage EXCEPT ![Worker] = "lock"]
      /\ job' = [job EXCEPT ![Worker] = [kind |-> "next", at |-> bus]]
  BY DEF SearchOn, Is, GoTo, Do, pass
<1>2. OtherTypes'
  <2>1. mtx' \in Threads \cup {Nobody}
    BY <1>1, TypesAre DEF OtherTypes
  <2> QED BY <2>1, TypesAre, FreeTypes DEF SearchOn, OtherTypes, controller, pass
<1>3. bus # Nobody /\ bus \in Channels
  BY <1>1, BusConstants, AtStage, TypesAre DEF OtherTypes
<1>4. [kind |-> "next", at |-> bus] \in Job
  BY <1>3, JobTypes DEF SearchKinds
<1> QED BY <1>1, <1>2, <1>3, <1>4, PassUnlocks, TypesAgain

LEMMA EndPassTypes ==
  ASSUME BusTypes, EndPass PROVE BusTypes'
<1>1. stage[Worker] = "passed" /\ mtx' = mtx /\ bus' = Nobody /\ Worker \in Threads
      /\ stage' = [stage EXCEPT ![Worker] = "idle"] /\ job' = [job EXCEPT ![Worker] = NoJob]
  BY BusConstants DEF EndPass, GoTo
<1>2. OtherTypes'
  BY TypesAre DEF EndPass, OtherTypes, controller
<1> QED BY <1>1, <1>2, BusConstants, OneMoves, TypesAgain DEF Stages, OnBus

\* A job starts, outside of the busses.
LEMMA FileJobTypes ==
  ASSUME BusTypes, NEW t \in Files, FileOnly(t) PROVE BusTypes'
<1>1. PICK kind \in {"poll", "set", "scan"}, a \in Devices \cup Channels :
        /\ kind = "scan" => a \in Channels
        /\ kind # "scan" => a \in Devices
        /\ FileJob(t, kind, a)
  BY DEF FileOnly
<1>2. PICK l \in {"lock", "dev"} : stage' = [stage EXCEPT ![t] = l]
  BY <1>1 DEF FileJob, GoTo
<1>3. job' = [job EXCEPT ![t] = [kind |-> kind, at |-> a]] /\ mtx' = mtx /\ bus' = bus
      /\ t \in Threads /\ t # Worker
  BY <1>1, BusConstants, OneWireAssumption DEF FileJob, Do, pass
<1>4. [kind |-> kind, at |-> a] \in Job
  BY <1>1, JobTypes DEF SearchKinds, DeviceKinds
<1>5. OtherTypes'
  BY <1>1, TypesAre DEF FileJob, OtherTypes, controller, pass
<1> QED BY <1>1, <1>2, <1>3, <1>4, <1>5, OneMoves, TypesAgain DEF Stages, OnBus

LEMMA PollJobTypes ==
  ASSUME BusTypes, NEW d \in Devices, PollJob(d) PROVE BusTypes'
<1>1. stage' = [stage EXCEPT ![Worker] = "dev"]
      /\ job' = [job EXCEPT ![Worker] = [kind |-> "poll", at |-> d]]
      /\ mtx' = mtx /\ bus' = bus /\ Worker \in Threads /\ Worker \notin Files
  BY BusConstants, OneWireAssumption DEF PollJob, Do, GoTo, pass
<1>2. [kind |-> "poll", at |-> d] \in Job
  BY JobTypes DEF DeviceKinds
<1>3. OtherTypes'
  BY TypesAre DEF PollJob, OtherTypes, controller, pass
<1> QED BY <1>1, <1>2, <1>3, OneMoves, TypesAgain DEF Stages, OnBus

LEMMA PassTypes ==
  ASSUME BusTypes, NEW b \in Channels, Pass(b) PROVE BusTypes'
<1>1. stage' = [stage EXCEPT ![Worker] = "lock"]
      /\ job' = [job EXCEPT ![Worker] = [kind |-> "first", at |-> b]]
      /\ mtx' = mtx /\ bus' = b /\ b # Nobody /\ Worker \in Threads /\ Worker \notin Files
  BY BusConstants, OneWireAssumption DEF Pass, Do, GoTo
<1>2. [kind |-> "first", at |-> b] \in Job
  BY JobTypes DEF SearchKinds
<1>3. OtherTypes'
  BY TypesAre DEF Pass, OtherTypes, controller
<1> QED BY <1>1, <1>2, <1>3, OneMoves, TypesAgain DEF Stages, OnBus

LEMMA RaiseTypes ==
  ASSUME BusTypes, NEW d \in Devices, Raise(d) PROVE BusTypes'
<1>1. OtherTypes'
  BY TypesAre DEF Raise, OtherTypes, controller, pass
<1>2. Jobs' /\ MutexHeld'
  BY TypesAre DEF Raise, pass, Jobs, JobKnown, OfFile, OfPass, MutexHeld, Holding
<1> QED BY <1>1, <1>2, TypesAre, TypesAgain DEF Raise

LEMMA InitTypes == BusInit => BusTypes
<1> SUFFICES ASSUME BusInit PROVE BusTypes
  OBVIOUS
<1>1. OtherTypes
  BY DEF BusInit, OtherTypes
<1>2. stage \in [Threads -> Stages] /\ job \in [Threads -> Job \cup {NoJob}]
  BY DEF BusInit, Stages
<1>3. Jobs /\ MutexHeld
  BY BusConstants DEF BusInit, Jobs, JobKnown, OfFile, OfPass, MutexHeld, Holding, OnBus
<1> QED BY <1>1, <1>2, <1>3, TypesAre

LEMMA StepTypes == BusTypes /\ [BusNext]_busVars => BusTypes'
<1> SUFFICES ASSUME BusTypes, [BusNext]_busVars PROVE BusTypes'
  OBVIOUS
<1>1. ASSUME NEW t \in Threads, Thread(t) PROVE BusTypes'
  BY <1>1, LockDeviceTypes, LockBusTypes, SelectChannelTypes, ResetBusTypes, NoPresenceTypes,
     NoneLeftTypes, SelectTypes, AccessTypes, ResetLatchesTypes, FindAlarmTypes, ScanStepTypes,
     TryAgainTypes, GiveUpTypes, UnlockJobTypes DEF Thread
<1>2. CASE WorkerOnly
  BY <1>2, PollJobTypes, SwitchTypes, PassTypes, UnlockReadTypes, UnlockSearchTypes,
     SearchOnTypes, EndPassTypes DEF WorkerOnly
<1>3. CASE UNCHANGED busVars
  <2>1. OtherTypes'
    BY <1>3, TypesAre DEF OtherTypes, busVars, controller, pass
  <2>2. Jobs' /\ MutexHeld'
    BY <1>3, TypesAre
       DEF busVars, pass, Jobs, JobKnown, OfFile, OfPass, MutexHeld, Holding
  <2> QED BY <1>3, <2>1, <2>2, TypesAre, TypesAgain DEF busVars
<1> QED BY <1>1, <1>2, <1>3, FileJobTypes, RaiseTypes DEF BusNext

-----------------------------------------------------------------------------
(***************************************************************************)
(* One thread at a time on the busses                                      *)
(***************************************************************************)

Apart == BusTypes /\ PassAlone

LEMMA OneOnBus ==
  ASSUME Apart, NEW t \in Threads, NEW u \in Threads, stage[t] \in OnBus, stage[u] \in OnBus
  PROVE  t = u
<1>1. \A v \in Threads : stage[v] \in OnBus =>
        \/ mtx = v /\ job[v].kind # "latch"
        \/ v = Worker /\ bus # Nobody
  BY AtStage DEF Apart, OnBus
<1>2. \A v \in Threads : bus # Nobody /\ stage[v] \in OnBus => v = Worker
  BY BusConstants DEF Apart, PassAlone, OnBus
<1> QED BY <1>1, <1>2

LEMMA FilesOutsidePass ==
  ASSUME Apart, NEW t \in Threads, stage[t] # "idle", bus # Nobody
  PROVE  t = Worker
  BY BusConstants DEF Apart, PassAlone

\* A step of t leaves the others where they are.
OthersStay(t) == \A u \in Threads \ {t} : stage'[u] = stage[u] /\ job'[u] = job[u]

LEMMA StepOthersStay ==
  ASSUME BusTypes
  PROVE  /\ \A t \in Threads : Thread(t) => OthersStay(t) /\ stage[t] # "idle" /\ bus' = bus
         /\ WorkerOnly => OthersStay(Worker)
         /\ \A t \in Files : FileOnly(t) => OthersStay(t) /\ stage[t] = "idle" /\ bus' = bus
         /\ \A d \in Devices : Raise(d) => OthersStay(Worker) /\ stage' = stage /\ job' = job /\ bus' = bus
<1>1. stage \in [Threads -> Stages] /\ job \in [Threads -> Job \cup {NoJob}]
  BY TypesAre
<1>2. ASSUME NEW t \in Threads, Thread(t)
      PROVE  OthersStay(t) /\ stage[t] # "idle" /\ bus' = bus
  <2>1. CASE LockDevice(t) \/ LockBus(t) \/ SelectChannel(t)
    BY <1>1, <2>1 DEF LockDevice, LockBus, SelectChannel, GoTo, OthersStay, pass
  <2>2. CASE ResetBus(t) \/ NoPresence(t) \/ NoneLeft(t) \/ Select(t)
    BY <1>1, <2>2 DEF ResetBus, NoPresence, NoneLeft, Select, Is, GoTo, OthersStay, pass
  <2>3. CASE Access(t)
    BY <1>1, <2>3 DEF Access, Sends, GoTo, Do, OthersStay, pass
  <2>4. CASE ResetLatches(t) \/ FindAlarm(t) \/ ScanStep(t)
    BY <1>1, <2>4 DEF ResetLatches, FindAlarm, ScanStep, Sends, GoTo, OthersStay, pass
  <2>5. CASE TryAgain(t) \/ GiveUp(t)
    <3>1. stage[t] # "idle"
      BY <2>5, FailsTypes DEF TryAgain, GiveUp
    <3> QED BY <1>1, <2>5, <3>1 DEF TryAgain, GiveUp, GoTo, Do, OthersStay
  <2>6. CASE UnlockJob(t)
    BY <1>1, <2>6 DEF UnlockJob, GoTo, OthersStay, pass
  <2> QED BY <1>2, <2>1, <2>2, <2>3, <2>4, <2>5, <2>6 DEF Thread
<1>3. ASSUME WorkerOnly PROVE OthersStay(Worker)
  <2>1. ASSUME NEW d \in Devices, PollJob(d) \/ Switch(d) PROVE OthersStay(Worker)
    BY <1>1, <2>1 DEF PollJob, Switch, GoTo, Do, OthersStay
  <2>2. ASSUME NEW b \in Channels, Pass(b) PROVE OthersStay(Worker)
    BY <1>1, <2>2 DEF Pass, GoTo, Do, OthersStay
  <2>3. CASE UnlockRead \/ UnlockSearch
    BY <1>1, <2>3 DEF UnlockRead, UnlockSearch, GoTo, Do, OthersStay
  <2>4. CASE SearchOn \/ EndPass
    BY <1>1, <2>4 DEF SearchOn, EndPass, GoTo, Do, OthersStay
  <2> QED BY <1>3, <2>1, <2>2, <2>3, <2>4 DEF WorkerOnly
<1>4. ASSUME NEW t \in Files, FileOnly(t)
      PROVE  OthersStay(t) /\ stage[t] = "idle" /\ bus' = bus
  BY <1>1, <1>4 DEF FileOnly, FileJob, GoTo, Do, OthersStay, pass
<1>5. ASSUME NEW d \in Devices, Raise(d)
      PROVE  OthersStay(Worker) /\ stage' = stage /\ job' = job /\ bus' = bus
  BY <1>5 DEF Raise, OthersStay, pass
<1> QED BY <1>2, <1>3, <1>4, <1>5

LEMMA StepAlone ==
  ASSUME ~Together, Apart, BusNext PROVE PassAlone'
<1>1. ASSUME NEW t \in Threads, Thread(t) PROVE PassAlone'
  <2>1. OthersStay(t) /\ stage[t] # "idle" /\ bus' = bus
    BY <1>1, StepOthersStay DEF Apart
  <2> QED BY <2>1, BusConstants DEF Apart, PassAlone, OthersStay
<1>2. CASE WorkerOnly
  <2>1. OthersStay(Worker)
    BY <1>2, StepOthersStay DEF Apart
  <2>2. ASSUME bus' # Nobody PROVE \A t \in Files : stage[t] = "idle"
    <3>1. bus # Nobody \/ \E b \in Channels : Pass(b)
      BY <1>2, <2>2 DEF WorkerOnly, PollJob, Switch, UnlockRead, UnlockSearch, SearchOn, EndPass, pass
    <3> QED BY <3>1 DEF Apart, PassAlone, Pass
  <2> QED BY <2>1, <2>2, BusConstants DEF PassAlone, OthersStay
<1>3. ASSUME NEW t \in Files, FileOnly(t) PROVE PassAlone'
  BY <1>3 DEF FileOnly, FileJob, PassAlone, pass
<1>4. ASSUME NEW d \in Devices, Raise(d) PROVE PassAlone'
  BY <1>4 DEF Raise, Apart, PassAlone, pass
<1> QED BY <1>1, <1>2, <1>3, <1>4 DEF BusNext

-----------------------------------------------------------------------------
(***************************************************************************)
(* Who listens to a command                                                *)
(***************************************************************************)

LEMMA HeardAgain ==
  ASSUME Apart, Heard, NEW t \in Threads, OthersStay(t), Listening(t)',
         stage[t] \in OnBus \/ UNCHANGED <<chan, wire>>
  PROVE  Heard'
<1> SUFFICES ASSUME NEW u \in Threads, u # t PROVE Listening(u)'
  BY DEF Heard
<1>1. Listening(u) /\ stage'[u] = stage[u] /\ job'[u] = job[u]
  BY DEF Heard, OthersStay
<1>2. CASE stage[u] \in OnBus
  BY <1>1, <1>2, OneOnBus DEF Listening
<1>3. CASE stage[u] \notin OnBus
  BY <1>1, <1>3 DEF Listening, OnBus
<1> QED BY <1>2, <1>3

LEMMA ThreadListens ==
  ASSUME BusTypes, NEW t \in Threads, Listening(t), Thread(t)
  PROVE  Listening(t)' /\ (stage[t] \in OnBus \/ UNCHANGED <<chan, wire>>)
<1>1. stage \in [Threads -> Stages] /\ job \in [Threads -> Job \cup {NoJob}]
  BY TypesAre
<1>2. CASE LockDevice(t) \/ UnlockJob(t)
  BY <1>1, <1>2 DEF LockDevice, UnlockJob, GoTo, Listening, controller, OnBus
<1>3. CASE LockBus(t)
  BY <1>1, <1>3 DEF LockBus, AfterLock, GoTo, Listening, controller, OnBus, DeviceKinds
<1>4. CASE SelectChannel(t)
  BY <1>1, <1>4 DEF SelectChannel, Channel, BusFor, GoTo, Listening, OnBus
<1>5. CASE ResetBus(t) \/ NoPresence(t)
  BY <1>1, <1>5 DEF ResetBus, NoPresence, GoTo, Listening, OnBus
<1>6. CASE Select(t)
  <2>1. stage[t] = "select" /\ wire = "rom" /\ stage'[t] = "command"
        /\ job' = job /\ chan' = chan
    BY <1>1, <1>6 DEF Select, GoTo, Listening
  <2>2. OnChannel(job[t])
    <3>1. job[t].kind \in SearchKinds \cup DeviceKinds
      BY <2>1, AtStage
    <3> QED BY <2>1, <3>1 DEF OnChannel, BusFor, Listening
  <2>3. wire' = Meant(job[t])
    BY <1>6, <2>1, <2>2 DEF Select
  <2>4. job[t].kind \in DeviceKinds => chan = BusOf[job[t].at]
    BY <2>1 DEF Listening
  <2>5. Meant(job[t])' = Meant(job'[t])
    BY DEF Meant
  <2> QED BY <2>1, <2>3, <2>4 DEF Listening, OnBus, Meant
<1>7. CASE NoneLeft(t) \/ Access(t)
  BY <1>1, <1>7 DEF NoneLeft, Access, Is, Sends, GoTo, Do, Listening, OnBus
<1>8. CASE ResetLatches(t) \/ FindAlarm(t)
  BY <1>1, <1>8 DEF ResetLatches, FindAlarm, Sends, GoTo, Listening, OnBus
<1>9. CASE ScanStep(t)
  BY <1>1, <1>9 DEF ScanStep, Sends, GoTo, Listening, OnBus, DeviceKinds
<1>10. CASE TryAgain(t) \/ GiveUp(t)
  <2>1. stage[t] \in OnBus
    BY <1>10, FailsTypes DEF TryAgain, GiveUp
  <2>2. stage'[t] \in {"lock", "channel", "switch", "unlock"}
    BY <1>1, <1>10 DEF TryAgain, GiveUp, GoTo
  <2> QED BY <2>1, <2>2 DEF Listening
<1> QED BY <1>2, <1>3, <1>4, <1>5, <1>6, <1>7, <1>8, <1>9, <1>10 DEF Thread

LEMMA OtherListens ==
  ASSUME BusTypes
  PROVE  /\ WorkerOnly => Listening(Worker)' /\ UNCHANGED <<chan, wire>>
         /\ \A t \in Files : FileOnly(t) => Listening(t)' /\ UNCHANGED <<chan, wire>>
<1>1. stage \in [Threads -> Stages] /\ job \in [Threads -> Job \cup {NoJob}]
      /\ Worker \in Threads /\ Files \subseteq Threads
  BY TypesAre, BusConstants
<1>2. ASSUME WorkerOnly PROVE Listening(Worker)' /\ UNCHANGED <<chan, wire>>
  <2>1. PICK l \in {"dev", "lock", "channel", "passed", "idle"} : stage' = [stage EXCEPT ![Worker] = l]
    BY <1>2 DEF WorkerOnly, PollJob, Switch, Pass, UnlockRead, UnlockSearch, SearchOn, EndPass, GoTo
  <2>2. UNCHANGED <<chan, wire>>
    BY <1>2 DEF WorkerOnly, PollJob, Switch, Pass, UnlockRead, UnlockSearch, SearchOn, EndPass, controller
  <2> QED BY <1>1, <2>1, <2>2 DEF Listening
<1>3. ASSUME NEW t \in Files, FileOnly(t) PROVE Listening(t)' /\ UNCHANGED <<chan, wire>>
  BY <1>1, <1>3 DEF FileOnly, FileJob, GoTo, Listening, controller
<1> QED BY <1>2, <1>3

LEMMA StepHeard ==
  ASSUME Apart, Heard, BusNext PROVE Heard'
<1>1. ASSUME NEW t \in Threads, Thread(t) PROVE Heard'
  BY <1>1, StepOthersStay, ThreadListens, HeardAgain DEF Apart, Heard
<1>2. CASE WorkerOnly
  BY <1>2, BusConstants, StepOthersStay, OtherListens, HeardAgain DEF Apart
<1>3. ASSUME NEW t \in Files, FileOnly(t) PROVE Heard'
  BY <1>3, BusConstants, StepOthersStay, OtherListens, HeardAgain DEF Apart
<1>4. ASSUME NEW d \in Devices, Raise(d) PROVE Heard'
  BY <1>4 DEF Raise, Heard, Listening, controller
<1> QED BY <1>1, <1>2, <1>3, <1>4 DEF BusNext

-----------------------------------------------------------------------------
(***************************************************************************)
(* What a pass has handed over                                             *)
(***************************************************************************)

\* A step that leaves the alarms, the pass and the controller as they are,
\* between what is known of the pass.
LEMMA GoesOn ==
  ASSUME Wants, Goes, UNCHANGED <<alarming, wanted, handed, bus, course, chan, exhausted>>,
         ~Begins, ~Finds, ~Finds', stage'[Worker] # "passed",
         ~(stage'[Worker] = "blind" /\ Searching')
  PROVE  Wants' /\ Goes'
  BY DEF Wants, Goes

\* The steps of the worker up to the search or access
LEMMA LocksKnow ==
  ASSUME BusTypes, Wants, Goes, LockDevice(Worker) \/ LockBus(Worker)
  PROVE  Wants' /\ Goes'
<1>1. stage \in [Threads -> Stages] /\ job' = job /\ Worker \in Threads
  BY TypesAre, BusConstants DEF LockDevice, LockBus
<1>2. PICK l \in {"lock", "channel", "reset"} :
        /\ stage' = [stage EXCEPT ![Worker] = l]
        /\ job[Worker].kind = "first" => l \in {"lock", "channel"}
  BY DEF LockDevice, LockBus, GoTo, AfterLock
<1>3. ~Finds /\ ~Finds' /\ stage'[Worker] = l
  BY <1>1, <1>2 DEF LockDevice, LockBus, Finds
<1>4. Begins => Begins'
  BY <1>1, <1>2, <1>3 DEF Begins
<1>5. UNCHANGED <<alarming, wanted, handed, bus, course, chan, exhausted>>
  BY DEF LockDevice, LockBus, controller, pass
<1> QED BY <1>3, <1>4, <1>5 DEF Wants, Goes

LEMMA SelectChannelKnows ==
  ASSUME BusTypes, bus # Nobody, Wants, Goes, SelectChannel(Worker)
  PROVE  Wants' /\ Goes'
<1>1. stage \in [Threads -> Stages] /\ job' = job /\ Worker \in Threads
  BY TypesAre, BusConstants DEF SelectChannel
<1>2. UNCHANGED <<alarming, wanted, handed, bus>> /\ stage'[Worker] = "reset"
  BY <1>1 DEF SelectChannel, GoTo
<1>3. course' = "kept" => course = "kept" /\ chan' = bus
  BY DEF SelectChannel, Moved
<1>4. exhausted' => exhausted /\ job[Worker].kind # "first"
  BY Zenon DEF SelectChannel, ResetSearch
<1>5. ~Finds /\ ~Finds'
  BY <1>2 DEF Finds, SelectChannel
<1>6. job[Worker].kind # "first" => ~Begins
  BY DEF Begins
<1> QED BY <1>2, <1>3, <1>4, <1>5, <1>6 DEF Wants, Goes

LEMMA ResetSelectKnow ==
  ASSUME BusTypes, Wants, Goes, ResetBus(Worker) \/ Select(Worker) \/ Access(Worker)
  PROVE  Wants' /\ Goes'
<1>1. stage \in [Threads -> Stages] /\ job \in [Threads -> Job \cup {NoJob}] /\ Worker \in Threads
  BY TypesAre, BusConstants
<1>2. UNCHANGED <<alarming, wanted, handed, bus, course, chan, exhausted>>
  BY DEF ResetBus, Select, Access, controller, pass
<1>3. ~Begins /\ ~Finds /\ ~Finds' /\ stage'[Worker] \notin {"passed", "blind"}
  BY <1>1 DEF ResetBus, Select, Access, Sends, GoTo, Do, Begins, Finds, Searching
<1> QED BY <1>2, <1>3, GoesOn

LEMMA NoPresenceKnows ==
  ASSUME BusTypes, bus # Nobody, Wants, Goes, NoPresence(Worker)
  PROVE  Wants' /\ Goes'
<1>1. stage \in [Threads -> Stages] /\ Worker \in Threads /\ job' = job
  BY TypesAre, BusConstants DEF NoPresence
<1>2. UNCHANGED <<alarming, wanted, handed, bus, chan, exhausted>> /\ stage'[Worker] = "blind"
      /\ stage[Worker] = "reset"
  BY <1>1 DEF NoPresence, GoTo
<1>3. ~Begins /\ ~Finds /\ ~Finds'
  BY <1>2 DEF Begins, Finds
<1>4. CASE Searching
  <2>1. course' = "failed"
    BY <1>4 DEF NoPresence, Searching, SearchKinds
  <2> QED BY <1>2, <2>1 DEF Wants, Goes
<1>5. CASE ~Searching
  <2>1. ~Searching' /\ (course' = "kept" => course = "kept")
    BY <1>1, <1>5 DEF Searching, NoPresence
  <2> QED BY <1>2, <1>3, <2>1 DEF Wants, Goes
<1> QED BY <1>4, <1>5

LEMMA ResetLatchesKnows ==
  ASSUME BusTypes, Wants, Goes, ResetLatches(Worker)
  PROVE  Wants' /\ Goes'
<1>1. stage \in [Threads -> Stages] /\ job' = job /\ Worker \in Threads
  BY TypesAre, BusConstants DEF ResetLatches
<1>2. UNCHANGED <<handed, bus, chan, exhausted>> /\ wanted' = wanted \ {wire}
      /\ alarming' = alarming \ {wire} /\ (course' = "kept" => course = "kept")
  BY DEF ResetLatches, Moved, controller
<1>3. ~Begins /\ ~Finds /\ ~Finds' /\ stage'[Worker] \notin {"passed", "blind"}
  BY <1>1 DEF ResetLatches, Sends, GoTo, Begins, Finds, Searching
<1> QED BY <1>2, <1>3 DEF Wants, Goes

LEMMA NoneLeftKnows ==
  ASSUME BusTypes, Wants, Goes, NoneLeft(Worker)
  PROVE  Wants' /\ Goes'
<1>1. stage \in [Threads -> Stages] /\ job' = job /\ Worker \in Threads
  BY TypesAre, BusConstants DEF NoneLeft
<1>2. UNCHANGED <<alarming, wanted, handed, bus, course, chan, exhausted>>
      /\ stage'[Worker] = "unlock" /\ exhausted
  BY <1>1 DEF NoneLeft, GoTo, controller
<1>3. ~Begins /\ ~Finds
  BY DEF NoneLeft, Is, Begins, Finds
<1>4. course = "kept" => chan = bus /\ wanted = {}
  BY <1>2, <1>3 DEF Goes
<1> QED BY <1>2, <1>4 DEF Wants, Goes

LEMMA FindAlarmKnows ==
  ASSUME BusTypes, Listening(Worker), Wants, Goes, FindAlarm(Worker)
  PROVE  Wants' /\ Goes'
<1>1. stage \in [Threads -> Stages] /\ job' = job /\ Worker \in Threads
  BY TypesAre, BusConstants DEF FindAlarm
<1>2. UNCHANGED <<alarming, wanted, handed, bus, course, chan>> /\ stage'[Worker] = "unlock"
      /\ stage[Worker] \in {"command", "blind"} /\ Searching
  BY <1>1 DEF FindAlarm, Sends, GoTo, Searching
<1>3. ~Begins /\ Finds'
  BY <1>1, <1>2 DEF Begins, Finds, Searching
<1>4. course = "kept" => wire = "search"
  BY <1>2, <1>3 DEF Goes, Listening, Meant, SearchKinds, Searching
<1>5. ASSUME course = "kept"
      PROVE  chan = bus /\ (exhausted' => wanted \subseteq {found'})
             /\ (found' = Nobody => wanted = {})
  <2>1. chan = bus
    BY <1>3, <1>5 DEF Goes
  <2>2. wanted \subseteq Findable
    BY <2>1 DEF Wants, Findable
  <2>3. CASE found' \in Findable /\ exhausted' \in {Findable = {found'}, course # "kept" \/ Findable = {found'}}
    <3>1. exhausted' => Findable = {found'}
      BY <1>5, <2>3, Zenon
    <3>2. found' # Nobody
      BY <2>3, TypesAre, BusConstants DEF Findable, OtherTypes
    <3> QED BY <2>1, <2>2, <3>1, <3>2
  <2>4. CASE Findable = {}
    BY <2>1, <2>2, <2>4
  <2> QED BY <1>4, <1>5, <2>3, <2>4 DEF FindAlarm
<1> QED BY <1>2, <1>3, <1>5 DEF Wants, Goes

LEMMA FailsKnows ==
  ASSUME BusTypes, bus # Nobody, Wants, Goes, TryAgain(Worker) \/ GiveUp(Worker)
  PROVE  Wants' /\ Goes'
<1>1. stage \in [Threads -> Stages] /\ job \in [Threads -> Job \cup {NoJob}] /\ Worker \in Threads
  BY TypesAre, BusConstants
<1>2. UNCHANGED <<alarming, wanted, handed, bus, exhausted>>
      /\ stage'[Worker] \in {"lock", "channel", "switch", "unlock"}
  BY <1>1 DEF TryAgain, GiveUp, GoTo
<1>3. Fails(Worker)
  BY DEF TryAgain, GiveUp
<1>4. CASE course' = "failed"
  BY <1>2, <1>4 DEF Wants, Goes
<1>5. CASE course' # "failed"
  <2>1. course' = course /\ chan' = chan /\ job[Worker].kind \notin SearchKinds
        /\ stage[Worker] # "channel"
    BY <1>3, <1>5 DEF Fails
  <2>2. job[Worker].kind \notin {"first", "next"} /\ job'[Worker].kind \notin {"first", "next"}
    BY <1>1, <2>1 DEF TryAgain, GiveUp, Do, SearchKinds
  <2>3. ~Begins /\ ~Finds /\ ~Finds' /\ ~Searching'
    BY <2>2 DEF Begins, Finds, Searching
  <2>4. UNCHANGED course /\ UNCHANGED chan
    BY <2>1
  <2> QED BY <1>2, <2>3, <2>4, GoesOn
<1> QED BY <1>4, <1>5

\* What the worker does between two commands
LEMMA UnlockSearchKnows ==
  ASSUME BusTypes, bus # Nobody, Wants, Goes, UnlockSearch
  PROVE  Wants' /\ Goes'
<1>1. stage \in [Threads -> Stages] /\ job \in [Threads -> Job \cup {NoJob}] /\ Worker \in Threads
  BY TypesAre, BusConstants
<1>2. stage[Worker] = "unlock" /\ Finds /\ ~Begins
  BY DEF UnlockSearch, Is, Finds, Searching, Begins
<1>3. UNCHANGED <<alarming, found, bus, course, chan, exhausted>>
  BY DEF UnlockSearch, controller
<1>4. CASE found = Nobody
  <2>1. UNCHANGED <<wanted, handed>> /\ stage'[Worker] = "passed"
    BY <1>1, <1>4 DEF UnlockSearch, GoTo
  <2>2. ~Finds'
    BY <2>1 DEF Finds
  <2>3. course = "kept" => wanted = {}
    BY <1>2, <1>4 DEF Goes
  <2> QED BY <1>2, <1>3, <2>1, <2>2, <2>3 DEF Wants, Goes
<1>5. CASE found # Nobody
  <2>1. handed' = handed \cup {found} /\ wanted' = wanted \ {found}
        /\ stage'[Worker] \in {"dev", "lock"}
    BY <1>1, <1>5 DEF UnlockSearch, GoTo
  <2>2. ~Finds'
    BY <2>1 DEF Finds
  <2>3. course = "kept" => chan = bus /\ (exhausted => wanted' = {})
    BY <1>2, <2>1 DEF Goes
  <2> QED BY <1>3, <2>1, <2>2, <2>3 DEF Wants, Goes
<1> QED BY <1>4, <1>5

LEMMA BetweenKnows ==
  ASSUME BusTypes, Wants, Goes, UnlockRead \/ SearchOn \/ \E d \in Devices : Switch(d)
  PROVE  Wants' /\ Goes'
<1>1. stage \in [Threads -> Stages] /\ job \in [Threads -> Job \cup {NoJob}] /\ Worker \in Threads
  BY TypesAre, BusConstants
<1>2. UNCHANGED <<alarming, wanted, handed, bus, course, chan, exhausted>>
  BY DEF UnlockRead, SearchOn, Switch, controller, pass
<1>3. ~Begins /\ ~Finds
  BY DEF UnlockRead, SearchOn, Switch, Is, Begins, Finds, Searching
<1>4. ~Finds' /\ stage'[Worker] \notin {"passed", "blind"}
  BY <1>1 DEF UnlockRead, SearchOn, Switch, GoTo, Finds
<1> QED BY <1>2, <1>3, <1>4, GoesOn

LEMMA StepKnows ==
  ASSUME Apart, Heard, PassKnows, BusNext PROVE PassKnows'
<1>1. ASSUME NEW t \in Threads, Thread(t) PROVE PassKnows'
  <2>1. bus' = bus /\ stage[t] # "idle" /\ BusTypes
    BY <1>1, StepOthersStay DEF Apart
  <2>2. SUFFICES ASSUME bus # Nobody PROVE Wants' /\ Goes'
    BY <2>1 DEF PassKnows
  <2>3. t = Worker /\ Listening(Worker) /\ Wants /\ Goes
    BY <2>1, <2>2, BusConstants, FilesOutsidePass DEF Heard, PassKnows
  <2>4. ~ScanStep(Worker)
    BY <2>1, <2>3, BusConstants, AtStage DEF ScanStep, Sends
  <2>5. ~UnlockJob(Worker)
    BY <2>2 DEF UnlockJob, Pressing
  <2> QED BY <1>1, <2>1, <2>2, <2>3, <2>4, <2>5, LocksKnow, SelectChannelKnows, ResetSelectKnow,
             NoPresenceKnows, ResetLatchesKnows, NoneLeftKnows, FindAlarmKnows, FailsKnows
             DEF Thread
<1>2. CASE WorkerOnly
  <2>1. ASSUME NEW d \in Devices, PollJob(d) PROVE PassKnows'
    <3>1. bus = Nobody
      BY <2>1 DEF PollJob, Apart, BusTypes, Jobs, OfPass
    <3> QED BY <2>1, <3>1 DEF PollJob, PassKnows, pass
  <2>2. ASSUME NEW b \in Channels, Pass(b) PROVE PassKnows'
    <3>1. stage \in [Threads -> Stages] /\ job \in [Threads -> Job \cup {NoJob}]
          /\ Worker \in Threads
      BY TypesAre, BusConstants DEF Apart
    <3>2. /\ wanted' = {d \in alarming : BusOf[d] = b} /\ handed' = {} /\ alarming' = alarming
          /\ bus' = b /\ stage'[Worker] = "lock" /\ job'[Worker].kind = "first"
      BY <2>2, <3>1 DEF Pass, Do, GoTo
    <3> QED BY <3>2 DEF PassKnows, Wants, Goes, Begins
  <2>3. ASSUME UnlockRead \/ UnlockSearch \/ SearchOn \/ \E d \in Devices : Switch(d)
        PROVE  PassKnows'
    <3>1. bus' = bus /\ BusTypes
      BY <2>3 DEF UnlockRead, UnlockSearch, SearchOn, Switch, Apart, pass
    <3>2. bus # Nobody => Wants' /\ Goes'
      BY <2>3, <3>1, UnlockSearchKnows, BetweenKnows DEF PassKnows
    <3> QED BY <3>1, <3>2 DEF PassKnows
  <2>4. CASE EndPass
    BY <2>4 DEF EndPass, PassKnows
  <2> QED BY <1>2, <2>1, <2>2, <2>3, <2>4 DEF WorkerOnly
<1>3. ASSUME NEW t \in Files, FileOnly(t) PROVE PassKnows'
  <2>1. bus' = bus /\ stage[t] = "idle" /\ OthersStay(t) /\ Worker # t /\ Worker \in Threads
    BY <1>3, StepOthersStay, BusConstants DEF Apart
  <2>2. UNCHANGED <<chan, exhausted, alarming, found, handed, wanted, course>>
    BY <1>3 DEF FileOnly, FileJob, controller, pass
  <2> QED BY <2>1, <2>2
          DEF PassKnows, Wants, Goes, Begins, Finds, Searching, OthersStay
<1>4. ASSUME NEW d \in Devices, Raise(d) PROVE PassKnows'
  BY <1>4 DEF Raise, PassKnows, Wants, Goes, Begins, Finds, Searching, controller, pass
<1> QED BY <1>1, <1>2, <1>3, <1>4 DEF BusNext

-----------------------------------------------------------------------------
(***************************************************************************)
(* The device locks                                                        *)
(***************************************************************************)

\* A transaction has its device's lock from its start to its end; the read of
\* an alarm and the reset of the latches it has read are one.
Uses(t) == stage[t] \in {"lock", "switch"} \cup OnBus /\ job[t].kind \in DeviceKinds
DeviceHeld(t) == Uses(t) => dev[job[t].at] = t
DevicesHeld == \A t \in Threads : DeviceHeld(t)

LEMMA DeviceStaysHeld ==
  ASSUME BusTypes, DevicesHeld, NEW t \in Threads, OthersStay(t), DeviceHeld(t)',
         \/ dev' = dev
         \/ dev' = Free(t)
         \/ \E d \in Devices : dev[d] = Nobody /\ dev' = [dev EXCEPT ![d] = t]
  PROVE  DevicesHeld'
<1> SUFFICES ASSUME NEW u \in Threads, u # t, Uses(u)' PROVE dev'[job'[u].at] = u
  BY DEF DevicesHeld, DeviceHeld
<1>1. Uses(u) /\ job'[u] = job[u]
  BY DEF OthersStay, Uses
<1>2. dev[job[u].at] = u /\ job[u].at \in Devices
  <2>1. stage[u] # "idle"
    BY <1>1 DEF Uses, OnBus
  <2> QED BY <1>1, <2>1, AtStage, JobTypes DEF DevicesHeld, DeviceHeld, Uses
<1>3. dev \in [Devices -> Threads \cup {Nobody}] /\ u # Nobody
  BY TypesAre, BusConstants DEF OtherTypes
<1> QED BY <1>1, <1>2, <1>3 DEF Free

LEMMA ThreadHolds ==
  ASSUME BusTypes, DevicesHeld, NEW t \in Threads, Thread(t) PROVE DevicesHeld'
<1>1. /\ stage \in [Threads -> Stages] /\ job \in [Threads -> Job \cup {NoJob}]
      /\ dev \in [Devices -> Threads \cup {Nobody}]
      /\ OthersStay(t) /\ DeviceHeld(t)
  BY TypesAre, StepOthersStay DEF OtherTypes, DevicesHeld
<1>2. CASE LockDevice(t)
  <2>1. dev[job[t].at] = Nobody /\ dev' = [dev EXCEPT ![job[t].at] = t] /\ job' = job
    BY <1>2 DEF LockDevice
  <2>2. job[t].kind \in DeviceKinds => job[t].at \in Devices
    BY <1>2, AtStage, JobTypes DEF LockDevice
  <2>3. CASE job[t].at \in Devices
    <3>1. DeviceHeld(t)'
      BY <1>1, <2>1, <2>3 DEF DeviceHeld
    <3> QED BY <1>1, <2>1, <2>3, <3>1, DeviceStaysHeld
  <2>4. CASE job[t].at \notin Devices
    <3>1. DeviceHeld(t)' /\ dev' = dev
      BY <1>1, <2>1, <2>2, <2>4 DEF DeviceHeld, Uses
    <3> QED BY <1>1, <3>1, DeviceStaysHeld
  <2> QED BY <2>3, <2>4
<1>3. CASE LockBus(t) \/ SelectChannel(t) \/ ResetBus(t) \/ NoneLeft(t) \/ Select(t)
  <2>1. DeviceHeld(t)' /\ dev' = dev
    BY <1>1, <1>3
       DEF LockBus, SelectChannel, ResetBus, NoneLeft, Select, Is, DeviceHeld, Uses, OnBus
  <2> QED BY <1>1, <2>1, DeviceStaysHeld
<1>7. CASE NoPresence(t)
  <2>1. DeviceHeld(t)' /\ dev' = dev
    BY <1>1, <1>7 DEF NoPresence, DeviceHeld, Uses, OnBus
  <2> QED BY <1>1, <2>1, DeviceStaysHeld
<1>4. CASE ResetLatches(t) \/ FindAlarm(t) \/ ScanStep(t)
  <2>1. DeviceHeld(t)' /\ dev' = dev
    BY <1>1, <1>4 DEF ResetLatches, FindAlarm, ScanStep, Sends, DeviceHeld, Uses, OnBus
  <2> QED BY <1>1, <2>1, DeviceStaysHeld
<1>5. CASE Access(t) \/ TryAgain(t) \/ GiveUp(t)
  <2>1. stage[t] \in OnBus /\ dev' = dev
    BY <1>5, FailsTypes DEF Access, TryAgain, GiveUp, Sends, OnBus
  <2>2. \/ job' = job
        \/ job[t].kind \in {"set", "read"} /\ job'[t].at = job[t].at
    BY <1>1, <1>5 DEF Access, TryAgain, GiveUp, Sends, Do
  <2>3. DeviceHeld(t)'
    BY <1>1, <2>1, <2>2 DEF DeviceHeld, Uses, DeviceKinds
  <2> QED BY <1>1, <2>1, <2>3, DeviceStaysHeld
<1>6. CASE UnlockJob(t)
  <2>1. DeviceHeld(t)' /\ dev' = Free(t)
    BY <1>1, <1>6 DEF UnlockJob, GoTo, DeviceHeld, Uses, OnBus
  <2> QED BY <1>1, <2>1, DeviceStaysHeld
<1> QED BY <1>2, <1>3, <1>4, <1>5, <1>6, <1>7 DEF Thread

LEMMA WorkerHolds ==
  ASSUME BusTypes, DevicesHeld, WorkerOnly PROVE DevicesHeld'
<1>1. /\ stage \in [Threads -> Stages] /\ job \in [Threads -> Job \cup {NoJob}]
      /\ Worker \in Threads
      /\ OthersStay(Worker) /\ DeviceHeld(Worker)
  BY TypesAre, BusConstants, StepOthersStay DEF DevicesHeld
<1>2. CASE UnlockRead
  <2>1. DeviceHeld(Worker)' /\ dev' = dev
    BY <1>1, <1>2 DEF UnlockRead, Is, Do, DeviceHeld, Uses, OnBus, DeviceKinds
  <2> QED BY <1>1, <2>1, DeviceStaysHeld
<1>3. CASE ~UnlockRead
  <2>1. ~Uses(Worker)'
    <3>1. ASSUME NEW d \in Devices, PollJob(d) \/ Switch(d) PROVE stage'[Worker] = "dev"
      BY <1>1, <3>1 DEF PollJob, Switch, GoTo
    <3>2. ASSUME NEW b \in Channels, Pass(b) PROVE job'[Worker].kind = "first"
      BY <1>1, <3>2 DEF Pass, Do
    <3>3. CASE UnlockSearch \/ EndPass
      BY <1>1, <3>3 DEF UnlockSearch, EndPass, GoTo, Do, Uses, OnBus, DeviceKinds
    <3>4. CASE SearchOn
      BY <1>1, <3>4 DEF SearchOn, Do, Uses, DeviceKinds
    <3> QED BY <1>3, <3>1, <3>2, <3>3, <3>4 DEF WorkerOnly, Uses, OnBus, DeviceKinds
  <2>2. dev' = dev \/ dev' = Free(Worker)
    BY <1>3 DEF WorkerOnly, PollJob, Switch, Pass, UnlockSearch, SearchOn, EndPass
  <2> QED BY <1>1, <2>1, <2>2, DeviceStaysHeld DEF DeviceHeld
<1> QED BY <1>2, <1>3

LEMMA StepHolds == BusTypes /\ DevicesHeld /\ [BusNext]_busVars => DevicesHeld'
<1> SUFFICES ASSUME BusTypes, DevicesHeld, [BusNext]_busVars PROVE DevicesHeld'
  OBVIOUS
<1>1. ASSUME NEW t \in Files, FileOnly(t) PROVE DevicesHeld'
  <2>1. t \in Threads /\ OthersStay(t) /\ stage \in [Threads -> Stages]
        /\ job \in [Threads -> Job \cup {NoJob}]
    BY <1>1, TypesAre, BusConstants, StepOthersStay
  <2>2. DeviceHeld(t)' /\ dev' = dev
    BY <1>1, <2>1
       DEF FileOnly, FileJob, Do, GoTo, DeviceHeld, Uses, OnBus, DeviceKinds, SearchKinds
  <2> QED BY <2>1, <2>2, DeviceStaysHeld
<1>2. CASE (\E d \in Devices : Raise(d)) \/ UNCHANGED busVars
  BY <1>2 DEF Raise, busVars, DevicesHeld, DeviceHeld, Uses
<1> QED BY <1>1, <1>2, ThreadHolds, WorkerHolds DEF BusNext

-----------------------------------------------------------------------------
(***************************************************************************)
(* Theorems                                                                *)
(***************************************************************************)

LEMMA BusStutter ==
  ASSUME UNCHANGED busVars
  PROVE  (PassAlone => PassAlone') /\ (Heard => Heard') /\ (PassKnows => PassKnows')
  BY DEF busVars, controller, pass, PassAlone, Heard, Listening, PassKnows, Wants, Goes,
         Begins, Finds, Searching

LEMMA BusInvariant == ASSUME ~Together PROVE BusSpec => []BusInv
<1>1. BusInit => BusInv
  <2> SUFFICES ASSUME BusInit PROVE BusInv
    OBVIOUS
  <2>1. PassAlone /\ Heard /\ PassKnows
    BY DEF BusInit, PassAlone, Heard, Listening, PassKnows
  <2> QED BY <2>1, InitTypes DEF BusInv
<1>2. BusInv /\ [BusNext]_busVars => BusInv'
  BY StepTypes, StepAlone, StepHeard, StepKnows, BusStutter DEF BusInv, Apart
<1> QED BY <1>1, <1>2, PTL DEF BusSpec

\* The variables of the bus keep their types, whoever uses it when: a thread
\* that selects a channel has a job on one, and a pass that goes on has a bus.
THEOREM BusTypeCorrect == BusSpec => []BusTypeOK
<1>1. BusTypes => BusTypeOK
  BY DEF BusTypes
<1> QED BY <1>1, InitTypes, StepTypes, PTL DEF BusSpec

\* The bus mutex is held from the selection of the channel to the end of the
\* command, but for the reset of the latches that follows an alarm read.
THEOREM MutexIsHeld == BusSpec => []MutexHeld
<1>1. BusTypes => MutexHeld
  BY DEF BusTypes
<1> QED BY <1>1, InitTypes, StepTypes, PTL DEF BusSpec

\* Whoever reads or writes a device has its lock, from before the bus mutex
\* to the end, so that no access comes between an alarm and the reset of what
\* it has read.
THEOREM DeviceIsLocked == BusSpec => []DevicesHeld
<1>1. BusInit => BusTypes /\ DevicesHeld
  <2> SUFFICES ASSUME BusInit PROVE DevicesHeld
    BY InitTypes
  <2> QED BY DEF BusInit, DevicesHeld, DeviceHeld, Uses, OnBus
<1>2. BusTypes /\ DevicesHeld /\ [BusNext]_busVars => (BusTypes /\ DevicesHeld)'
  BY StepTypes, StepHolds
<1> QED BY <1>1, <1>2, PTL DEF BusSpec

\* As long as no FUSE thread uses the busses during an alarm pass, every
\* command sent after its select reaches the device it is for, also after
\* failures, retries and commands sent blind, for any devices, busses and
\* threads.
THEOREM CommandsArrive ==
  ASSUME ~Together PROVE BusSpec => []CommandReachesItsDevice
<1>1. BusInv => CommandReachesItsDevice
  BY DEF BusInv, Heard, Listening, CommandReachesItsDevice
<1> QED BY <1>1, BusInvariant, PTL

\* Then a pass whose search goes on where it was hands over every device of
\* its bus that was in alarm when it started.
THEOREM PassIsComplete ==
  ASSUME ~Together PROVE BusSpec => []PassHandsAll
<1>1. BusInv => PassHandsAll
  <2> SUFFICES ASSUME BusInv, stage[Worker] = "passed", course = "kept" PROVE wanted = {}
    BY DEF PassHandsAll
  <2>1. bus # Nobody
    BY BusConstants, AtStage DEF BusInv
  <2>2. ~Begins
    BY DEF Begins
  <2> QED BY <2>1, <2>2 DEF BusInv, PassKnows, Goes
<1> QED BY <1>1, BusInvariant, PTL

=============================================================================

------------------------------- MODULE Worker -------------------------------
(***************************************************************************)
(* The poll worker (background_worker() of src/main.cpp): one poll() that  *)
(* waits for the next due device poll, for an edge of the Arduino's        *)
(* interrupt line and for main() to stop it; arduino_service() and         *)
(* Ard_i2c::interrupt(), and the shutdown at the end of main().            *)
(*                                                                         *)
(* The Arduino is external: it holds the line low until its status is      *)
(* read.  A tick is ARD_RETRY_MS.                                          *)
(***************************************************************************)
EXTENDS Integers, FiniteSets

CONSTANTS
  Busses,
  Second,     \* poll_time() is at most a second, in ticks
  MaxReads,   \* ARD_MAX_READS
  Every,      \* ticks between two alarm polls (cache.poll)
  MaxRaises   \* bound on what the Arduino reports

ASSUME WorkerAssumption ==
  /\ IsFiniteSet(Busses)
  /\ Second \in Nat \ {0} /\ MaxReads \in Nat \ {0}
  /\ Every \in Nat /\ MaxRaises \in Nat

Retry == 1    \* ARD_RETRY_MS, in ticks

VARIABLES
  wired,     \* is there a GPIO line to watch? (nfds = 2)
  low,       \* the interrupt line, active low
  edge,      \* a falling edge not consumed yet
  reported,  \* the busses in the Arduino's status, unread
  impulses,  \* power impulses queued, one is taken by a read
  raises,    \* what the Arduino has reported so far
  alarms,    \* the busses with an alarm nobody has handled
  wake,      \* the eventfd
  running,
  main,      \* main(): "mounted", "woke" (wake_fd written), "joins", "left"
  pc,        \* the worker
  left,      \* ticks until the next device poll is due: poll_time()
  rest,      \* ticks until the next alarm poll is due
  tm, retry, \* the rest of the wait, and is it a shortened one?
  why,       \* what ended poll(): empty for a timeout
  reads, more, todo, \* arduino_service(): reads done, 0x40, busses to handle
  back       \* where the worker goes on after the service

arduino == <<low, edge, reported, impulses, raises>>
shutdown == <<wake, running, main>>
clocks == <<left, rest>>
waiting == <<tm, retry, why>>
service == <<reads, more, todo, back>>
vars == <<wired, arduino, alarms, shutdown, pc, clocks, waiting, service>>

At == {"top", "service", "handle", "poll", "woken", "served", "polled", "ended"}

\* arduino_service() from its start
Serve(then) ==
  /\ pc' = "service"
  /\ reads' = 0 /\ more' = FALSE /\ todo' = {} /\ back' = then

\* The line may be low from before it was watched.
Init ==
  /\ wired \in BOOLEAN
  /\ low \in BOOLEAN /\ edge = FALSE
  /\ reported = {} /\ impulses = 0 /\ raises = 0
  /\ alarms = {}
  /\ wake = FALSE /\ running = TRUE /\ main = "mounted"
  /\ pc = "top"
  /\ left \in 1..Second /\ rest = Every
  /\ tm = 0 /\ retry = FALSE /\ why = {}
  /\ reads = 0 /\ more = FALSE /\ todo = {} /\ back = "poll"

-----------------------------------------------------------------------------
(***************************************************************************)
(* The Arduino, the time, main().                                          *)
(***************************************************************************)
LineGoesLow ==
  /\ raises < MaxRaises
  /\ raises' = raises + 1
  /\ low' = TRUE
  /\ edge' = (edge \/ ~low)

RaiseAlarm(b) ==
  /\ LineGoesLow
  /\ alarms' = alarms \cup {b}
  /\ reported' = reported \cup {b}
  /\ UNCHANGED <<wired, impulses, shutdown, pc, clocks, waiting, service>>

Impulse ==
  /\ LineGoesLow
  /\ impulses' = impulses + 1
  /\ UNCHANGED <<wired, reported, alarms, shutdown, pc, clocks, waiting, service>>

Less(n) == IF n > 0 THEN n - 1 ELSE 0

Tick ==
  /\ pc = "poll" => tm > 0
  /\ left' = Less(left) /\ rest' = Less(rest)
  /\ tm' = IF pc = "poll" THEN Less(tm) ELSE tm
  /\ <<left, rest, tm>>' # <<left, rest, tm>>
  /\ UNCHANGED <<wired, arduino, alarms, shutdown, pc, retry, why, service>>

\* The file system is unmounted: main() writes wake_fd first.
Unmounted ==
  /\ main = "mounted"
  /\ main' = "woke" /\ wake' = TRUE
  /\ UNCHANGED <<wired, arduino, alarms, running, pc, clocks, waiting, service>>

StopWorker ==
  /\ main = "woke"
  /\ main' = "joins" /\ running' = FALSE
  /\ UNCHANGED <<wired, arduino, alarms, wake, pc, clocks, waiting, service>>

Join ==
  /\ main = "joins" /\ pc = "ended"
  /\ main' = "left"
  /\ UNCHANGED <<wired, arduino, alarms, wake, running, pc, clocks, waiting, service>>

-----------------------------------------------------------------------------
(***************************************************************************)
(* The worker's loop.                                                      *)
(***************************************************************************)
\* With a line the level is looked at first.
Unlooked == FALSE                                                   \* mutant
LooksAtLevel == wired

StartWait ==
  /\ pc = "top" /\ running
  /\ tm' = left /\ retry' = FALSE /\ why' = {}
  /\ IF LooksAtLevel THEN Serve("poll") ELSE pc' = "poll" /\ UNCHANGED service
  /\ UNCHANGED <<wired, arduino, alarms, shutdown, clocks>>

StopLoop ==
  /\ pc = "top" /\ ~running
  /\ pc' = "ended"
  /\ UNCHANGED <<wired, arduino, alarms, shutdown, clocks, waiting, service>>

\* poll() returns: a file descriptor is ready, or the time is up.
Ready == {s \in {"edge", "wake"} : IF s = "edge" THEN wired /\ edge ELSE wake}

NeverUp == FALSE                                                    \* mutant
TimeUp == tm = 0

PollReturns ==
  /\ pc = "poll"
  /\ Ready # {} \/ TimeUp
  /\ why' = Ready
  /\ pc' = "woken"
  /\ UNCHANGED <<wired, arduino, alarms, shutdown, clocks, tm, retry, service>>

\* The edges are consumed before the service; without a line the Arduino is
\* asked at every wake.
Woken ==
  /\ pc = "woken"
  /\ IF "edge" \in why \/ ~wired THEN Serve("served")
                                 ELSE pc' = "served" /\ UNCHANGED service
  /\ edge' = (edge /\ "edge" \notin why)
  /\ UNCHANGED <<wired, low, reported, impulses, raises, alarms, shutdown,
                 clocks, waiting>>

\* A shortened wait is no due device poll.
DueUnlessServed(short) == why = {} /\ ~short /\ ~low                 \* mutant
PollIsDue(short) == why = {} /\ ~short

\* dev_poll(), then alarm_poll(): it is every bus's turn.
AllButOne == Busses \ {CHOOSE b \in Busses : TRUE}                  \* mutant
PolledBusses == Busses

DevicePoll ==
  /\ pc = "served" /\ PollIsDue(retry)
  /\ left' \in 1..Second
  /\ IF rest = 0 THEN rest' = Every /\ todo' = PolledBusses
                 ELSE UNCHANGED <<rest, todo>>
  /\ pc' = "polled"
  /\ UNCHANGED <<wired, arduino, alarms, shutdown, waiting, reads, more, back>>

PollEnds ==
  /\ pc = "polled" /\ todo = {}
  /\ pc' = "top"
  /\ UNCHANGED <<wired, arduino, alarms, shutdown, clocks, waiting, service>>

\* The wake event is cleared.
NoPollDue ==
  /\ pc = "served" /\ ~PollIsDue(retry)
  /\ wake' = (wake /\ "wake" \notin why)
  /\ pc' = "top"
  /\ UNCHANGED <<wired, arduino, alarms, running, main, clocks, waiting, service>>

-----------------------------------------------------------------------------
(***************************************************************************)
(* arduino_service() and Ard_i2c::interrupt().                             *)
(***************************************************************************)
NothingPending == IF wired THEN ~more /\ ~low ELSE reads > 0 /\ ~more

\* The service ends; a line that stays low shortens the wait.
ServiceEnds ==
  /\ pc = "service"
  /\ NothingPending \/ reads = MaxReads
  /\ pc' = back
  /\ IF back = "poll" /\ reads = MaxReads /\ tm > Retry
       THEN retry' = TRUE /\ tm' = Retry
       ELSE UNCHANGED <<retry, tm>>
  /\ UNCHANGED <<wired, arduino, alarms, shutdown, clocks, why, service>>

CanRead == pc = "service" /\ ~NothingPending /\ reads < MaxReads

\* The status is read: the line is released, but for impulses still queued.
ReadStatus ==
  /\ CanRead
  /\ reads' = reads + 1
  /\ todo' = reported /\ reported' = {}
  /\ impulses' = Less(impulses)
  /\ more' = (impulses' > 0)
  /\ low' \in {FALSE, impulses' > 0}
  /\ edge' = edge
  /\ pc' = "handle"
  /\ UNCHANGED <<wired, raises, alarms, shutdown, clocks, waiting, back>>

\* No answer: the line stays low.
NoAnswer ==
  /\ CanRead
  /\ reads' = reads + 1 /\ more' = FALSE
  /\ UNCHANGED <<wired, arduino, alarms, shutdown, pc, clocks, waiting, todo, back>>

\* alarmHandler() of one bus; when the bus does not work, its alarm stays.
HandleBus(b) ==
  /\ pc \in {"handle", "polled"}
  /\ b \in todo
  /\ todo' = todo \ {b}
  /\ UNCHANGED <<wired, arduino, shutdown, pc, clocks, waiting, reads, more, back>>

Handled(b) == HandleBus(b) /\ alarms' = alarms \ {b}
BusFails(b) == HandleBus(b) /\ UNCHANGED alarms

AllHandled ==
  /\ pc = "handle" /\ todo = {}
  /\ pc' = "service"
  /\ UNCHANGED <<wired, arduino, alarms, shutdown, clocks, waiting, service>>

Environment == Tick \/ Unmounted \/ Impulse \/ \E b \in Busses : RaiseAlarm(b)

Work ==
  \/ StartWait \/ StopLoop \/ PollReturns \/ Woken \/ DevicePoll \/ PollEnds
  \/ NoPollDue \/ ServiceEnds \/ ReadStatus \/ NoAnswer \/ AllHandled
  \/ \E b \in Busses : Handled(b) \/ BusFails(b)

Next == Work \/ Environment \/ StopWorker \/ Join

Spec == Init /\ [][Next]_vars

(***************************************************************************)
(* The threads run, time passes, main() goes on once it stops the worker,  *)
(* and a bus that is searched again and again works at last.               *)
(***************************************************************************)
FairSpec ==
  /\ Spec
  /\ WF_vars(Work) /\ WF_vars(Tick)
  /\ WF_vars(StopWorker) /\ WF_vars(Join)
  /\ \A b \in Busses : SF_vars(Handled(b))

-----------------------------------------------------------------------------
(***************************************************************************)
(* Properties                                                              *)
(***************************************************************************)

\* The variables keep their types.
TypeOK ==
  /\ wired \in BOOLEAN /\ low \in BOOLEAN /\ edge \in BOOLEAN
  /\ reported \subseteq Busses /\ alarms \subseteq Busses /\ todo \subseteq Busses
  /\ impulses \in 0..MaxRaises /\ raises \in 0..MaxRaises
  /\ wake \in BOOLEAN /\ running \in BOOLEAN
  /\ main \in {"mounted", "woke", "joins", "left"}
  /\ pc \in At
  /\ left \in 0..Second /\ rest \in 0..Every /\ tm \in 0..Second
  /\ retry \in BOOLEAN /\ more \in BOOLEAN
  /\ why \subseteq {"edge", "wake"}
  /\ reads \in 0..MaxReads
  /\ back \in {"poll", "served"}

\* The worker never sleeps on a line that is low: an edge will wake it, or
\* it looks again after ARD_RETRY_MS ("a missed edge leaves the line low:
\* poll() would never wake up for it").
LineIsWatched == pc = "poll" /\ wired /\ low => edge \/ tm <= Retry

\* A due device poll is made, also while the line is stuck low or the
\* Arduino does not answer (the one polling cadence of background_worker()).
DuePolled == left = 0 ~> (left > 0 \/ pc = "ended")

\* With the alarms polled too, an alarm whose handling failed, or that the
\* Arduino did not tell, is handled at last (alarm_poll() as a backstop).
AlarmsHandled ==
  \A b \in Busses : b \in alarms ~> (b \notin alarms \/ ~running)

\* The worker ends although it may have eaten the wake-up before running
\* was cleared: main() returns from join() and goes on to save.
MainReturns == main = "woke" ~> main = "left"

=============================================================================

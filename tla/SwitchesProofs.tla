--------------------------- MODULE SwitchesProofs ---------------------------
(***************************************************************************)
(* The switch handler, for any outputs, devices, rooms and tables: type    *)
(* correctness and NoDuplicates of Switches, and - as long as no table is  *)
(* edited and no bus is scanned while a press is handled - its             *)
(* TimedHasTimer, PlainHasNoTimer and DarkStaysOff, and that the timers of *)
(* timed switches run out.                                                 *)
(***************************************************************************)
EXTENDS Switches, SequenceTheorems, TLAPS

-----------------------------------------------------------------------------
(***************************************************************************)
(* Lemmas about the operators of the model                                 *)
(***************************************************************************)
LEMMA LowestLatchIsLatch ==
  ASSUME NEW L \in SUBSET (1..8), L # {}
  PROVE  LowestLatch(L) \in L
<1>1. \E n \in L : \A m \in L : n <= m
  <2> DEFINE Lowest(n) == n \in L /\ \A m \in L : n <= m
  <2>1. L \subseteq {1, 2, 3, 4, 5, 6, 7, 8}
    OBVIOUS
  <2>2. \/ 1 \in L
        \/ 1 \notin L /\ 2 \in L
        \/ 1 \notin L /\ 2 \notin L /\ 3 \in L
        \/ L \cap {1, 2, 3} = {} /\ 4 \in L
        \/ L \cap {1, 2, 3, 4} = {} /\ 5 \in L
        \/ L \cap {1, 2, 3, 4, 5} = {} /\ 6 \in L
        \/ L \cap {1, 2, 3, 4, 5, 6} = {} /\ 7 \in L
        \/ L \cap {1, 2, 3, 4, 5, 6, 7} = {} /\ 8 \in L
    BY <2>1
  <2> QED BY <2>1, <2>2
<1> QED BY <1>1 DEF LowestLatch

LEMMA PressKindType == ASSUME NEW t \in 0..255 PROVE PressKind(t) \in Press
  BY DEF PressKind, Press

\* A sequence is a function on an interval from 1.
LEMMA IntervalIsSeq ==
  ASSUME NEW S, NEW n \in Nat, NEW f \in [1..n -> S]
  PROVE  f \in Seq(S) /\ Len(f) = n
  OBVIOUS

LEMMA NoEntryIsEntry == NoEntry \in Entry
<1>1. <<1, 0>> \in Source
  BY DEF Source, Press
<1> QED BY <1>1 DEF NoEntry, Entry

\* Entries of a table have their type.
LEMMA TableEntry ==
  ASSUME TypeOK, NEW k \in 1..Len(table)
  PROVE  /\ table[k] \in Entry
         /\ table[k].src \in Source /\ table[k].dst \in Pins \cup {AllOff}
         /\ table[k].secs \in Nat /\ table[k].disabled \in BOOLEAN
<1>1. table[k] \in Entry
  BY DEF TypeOK
<1> QED BY <1>1 DEF Entry

-----------------------------------------------------------------------------
(***************************************************************************)
(* Type correctness                                                        *)
(***************************************************************************)
LEMMA InitType == Init => TypeOK
<1> SUFFICES ASSUME Init PROVE TypeOK
  OBVIOUS
<1>1. table \in Seq(Entry)
  BY EntriesAssumption DEF Init
<1>2. cur \in Entry /\ src \in Source
  BY NoEntryIsEntry DEF Init, Source, Press
<1>3. /\ out \in [Pins -> OutState] /\ copy \in [Pins -> BOOLEAN] /\ timer \in [Pins -> Nat \cup {NoTimer}]
      /\ roomDark \in [Rooms -> {"dark", "day", "follow"}]
      /\ astro \in BOOLEAN /\ masked \in BOOLEAN /\ byDay \in BOOLEAN
  BY DEF Init, OutState
<1>4. /\ pc \in WorkerState /\ latches \subseteq Latches /\ press \in 0..255
      /\ idx \in Nat \ {0} /\ aim \in Pins \cup {AllOff}
      /\ expired \subseteq Pins /\ todo \subseteq Devs
  BY DEF Init, WorkerState
<1> QED BY <1>1, <1>2, <1>3, <1>4 DEF TypeOK

\* The entry the worker is at
SlotType == /\ idx \in Nat \ {0} /\ cur \in Entry
            /\ aim \in Pins \cup {AllOff} /\ byDay \in BOOLEAN

LEMMA NextEntryType ==
  ASSUME TypeOK, NextEntry \/ UNCHANGED slot
  PROVE  SlotType' /\ (NextEntry => pc' \in WorkerState)
<1>1. CASE NextEntry
  <2>1. idx' \in Nat \ {0}
    BY <1>1 DEF NextEntry, TypeOK
  <2>2. cur' \in Entry /\ aim' \in Pins \cup {AllOff} /\ byDay' \in BOOLEAN
    BY <1>1, NoEntryIsEntry, Zenon DEF NextEntry
  <2>3. pc' \in WorkerState
    BY <1>1 DEF NextEntry, WorkerState
  <2> QED BY <2>1, <2>2, <2>3 DEF SlotType
<1>2. CASE UNCHANGED slot /\ ~NextEntry
  BY <1>2 DEF slot, SlotType, TypeOK
<1> QED BY <1>1, <1>2

\* The worker on its way through an alarm and the table
LEMMA ScanType ==
  ASSUME TypeOK, Alarm \/ TakeLatch \/ AlarmDone \/ LookAt \/ CheckLit
  PROVE  TypeOK'
<1> USE LatchAssumption DEF outputs, settings, alarm, slot
<1>1. CASE Alarm
  BY <1>1 DEF Alarm, DevAlarm, TypeOK, WorkerState
<1>2. CASE TakeLatch
  <2> DEFINE n == LowestLatch(latches)
  <2>1. n \in 1..8
    BY <1>2, LowestLatchIsLatch DEF TakeLatch, TypeOK
  <2>2. PressKind(press) \in Press
    BY PressKindType DEF TypeOK
  <2>3. src' \in Source
    BY <1>2, <2>1, <2>2 DEF TakeLatch, Source
  <2>4. pc' \in WorkerState
    BY <1>2 DEF TakeLatch, WorkerState
  <2>5. latches' = latches \ {n} /\ idx' = 1
    BY <1>2 DEF TakeLatch
  <2>6. latches' \subseteq Latches
    BY <2>5 DEF TypeOK
  <2>7. idx' \in Nat \ {0}
    BY <2>5
  <2> HIDE DEF n
  <2> QED BY <1>2, <2>3, <2>4, <2>6, <2>7, Zenon DEF TakeLatch, TypeOK
<1>3. CASE AlarmDone
  BY <1>3 DEF AlarmDone, TypeOK, WorkerState, Source, Press
<1>4. CASE LookAt
  <2>1. idx <= Len(table) => table[idx] \in Entry /\ table[idx].dst \in Pins \cup {AllOff}
    BY TableEntry DEF TypeOK
  <2>2. idx <= Len(table) => ByDay(table[idx]) \in BOOLEAN
    BY DEF ByDay
  <2>3. SlotType' /\ pc' \in WorkerState
    <3>1. CASE NextEntry \/ UNCHANGED slot
      BY <1>4, <3>1, NextEntryType DEF LookAt, WorkerState
    <3>2. CASE ~(NextEntry \/ UNCHANGED slot)
      BY <1>4, <2>1, <2>2, <3>2 DEF LookAt, SlotType, TypeOK, WorkerState
    <3> QED BY <3>1, <3>2
  <2> QED
    BY <1>4, <2>3 DEF LookAt, SlotType, TypeOK
<1>5. CASE CheckLit
  <2>1. SlotType' /\ pc' \in WorkerState
    BY <1>5, NextEntryType DEF CheckLit, WorkerState
  <2> QED BY <1>5, <2>1 DEF CheckLit, SlotType, TypeOK
<1> QED BY <1>1, <1>2, <1>3, <1>4, <1>5

LEMMA CurType == TypeOK => /\ cur.dst \in Pins \cup {AllOff}
                           /\ cur.secs \in Nat
  BY DEF TypeOK, Entry

\* What is noted in the copy when an answer was read
LEMMA AnswerType ==
  ASSUME TypeOK, NEW d, NEW on, Answer(d, on)
  PROVE  copy' \in [Pins -> BOOLEAN]
<1>1. copy \in [Pins -> BOOLEAN]
  BY DEF TypeOK
<1>2. Noted(d, on) \in [Pins -> BOOLEAN]
  <2> SUFFICES ASSUME NEW q \in Pins
               PROVE  (IF q \in PinsOf(d) THEN q \in on ELSE copy[q]) \in BOOLEAN
    BY Zenon DEF Noted
  <2>1. copy[q] \in BOOLEAN /\ (q \in on) \in BOOLEAN
    BY <1>1
  <2>2. CASE q \in PinsOf(d)
    BY <2>1, <2>2, Zenon
  <2>3. CASE q \notin PinsOf(d)
    BY <2>1, <2>3, Zenon
  <2> QED BY <2>2, <2>3, Zenon
<1> QED BY <1>1, <1>2 DEF Answer

\* What is written to a device
LEMMA PioSetType ==
  ASSUME TypeOK, NEW d, NEW on, NEW p, NEW who \in OutState, PioSet(d, on, p, who)
  PROVE  out' \in [Pins -> OutState] /\ copy' \in [Pins -> BOOLEAN]
<1>1. out' \in [Pins -> OutState]
  BY DEF TypeOK, PioSet, Written, OutState
<1> QED BY <1>1, AnswerType DEF PioSet

LEMMA ActorHandleType ==
  ASSUME TypeOK, NEW p \in Pins, NEW on, NEW who \in OutState,
         ActorHandle(p, on, who)
  PROVE  out' \in [Pins -> OutState] /\ copy' \in [Pins -> BOOLEAN]
<1>1. CASE PioSet(DevOf[p], WithPin(p, on), p, who)
  BY <1>1, PioSetType
<1>2. CASE out' = Failed(p) /\ Answer(DevOf[p], WithPin(p, on))
  <2>1. out' \in [Pins -> OutState]
    BY <1>2 DEF TypeOK, Failed, OutState
  <2> QED BY <1>2, <2>1, AnswerType
<1> QED BY <1>1, <1>2 DEF ActorHandle

\* What the worker does with the entry of a press
LEMMA ActType ==
  ASSUME TypeOK,
         \/ Toggle \/ ToggleStop \/ TimedFindsOff \/ TimedOn \/ TimedStart
         \/ TimedOff \/ TimedRetrigger
  PROVE  TypeOK'
<1> USE CurType DEF outputs, settings, alarm
<1> DEFINE Rest == /\ table \in Seq(Entry) /\ masked \in BOOLEAN
                   /\ astro \in BOOLEAN
                   /\ roomDark \in [Rooms -> {"dark", "day", "follow"}]
                   /\ latches \subseteq Latches /\ press \in 0..255
                   /\ src \in Source /\ expired \subseteq Pins
                   /\ todo \subseteq Devs
<1>1. Rest
  BY DEF TypeOK
<1>2. Rest'
  BY <1>1 DEF Toggle, ToggleStop, TimedFindsOff, TimedOn, TimedStart, TimedOff,
              TimedRetrigger
<1>3. SlotType' /\ pc' \in WorkerState
  <2>1. CASE Toggle \/ TimedFindsOff \/ TimedOn
    BY <2>1, NextEntryType DEF Toggle, TimedFindsOff, TimedOn, WorkerState
  <2>2. CASE ToggleStop \/ TimedStart \/ TimedOff \/ TimedRetrigger
    BY <2>2, NextEntryType DEF ToggleStop, TimedStart, TimedOff, TimedRetrigger
  <2> QED BY <2>1, <2>2
<1>4. timer' \in [Pins -> Nat \cup {NoTimer}]
  BY DEF Toggle, ToggleStop, TimedFindsOff, TimedOn, TimedStart, TimedOff,
         TimedRetrigger, TimerStop, TimerStart, TypeOK
<1>5. out' \in [Pins -> OutState] /\ copy' \in [Pins -> BOOLEAN]
  <2>1. "plain" \in OutState /\ "timed" \in OutState
    BY DEF OutState
  <2>2. CASE Toggle
    BY <2>1, <2>2, ActorHandleType DEF Toggle
  <2>3. CASE TimedOn
    BY <2>1, <2>3, ActorHandleType DEF TimedOn, TypeOK
  <2>4. CASE TimedOff
    BY <2>1, <2>4, ActorHandleType DEF TimedOff
  <2> QED
    BY <2>2, <2>3, <2>4 DEF ToggleStop, TimedFindsOff, TimedStart, TimedRetrigger, TypeOK
<1> QED BY <1>2, <1>3, <1>4, <1>5 DEF TypeOK, SlotType

\* All lights off, and the timers
LEMMA OffType ==
  ASSUME TypeOK, AllOffTimers \/ (\E d \in Devs : LightsOff(d)) \/ HandleTimers \/ Tick
  PROVE  TypeOK'
<1> USE DEF outputs, settings, alarm
<1>1. CASE AllOffTimers
  BY <1>1 DEF AllOffTimers, slot, TypeOK, WorkerState
<1>2. ASSUME NEW d \in Devs, LightsOff(d) PROVE TypeOK'
  <2>1. out' \in [Pins -> OutState] /\ copy' \in [Pins -> BOOLEAN]
    <3>1. "off" \in OutState
      BY DEF OutState
    <3>2. CASE PioSet(d, InCopy(d) \ Lights, AllOff, "off")
      BY <3>1, <3>2, PioSetType
    <3>3. CASE /\ out' \in {Unreached(d, "stuck"), Unreached(d, "missed")}
               /\ Answer(d, InCopy(d) \ Lights) \/ UNCHANGED copy
      <4>1. out' \in [Pins -> OutState]
        BY <3>3 DEF Unreached, TypeOK, OutState
      <4>2. copy' \in [Pins -> BOOLEAN]
        BY <3>3, AnswerType DEF TypeOK
      <4> QED BY <4>1, <4>2
    <3> QED BY <1>2, <3>2, <3>3 DEF LightsOff
  <2>2. todo' \subseteq Devs
    BY <1>2 DEF LightsOff, TypeOK
  <2>3. SlotType' /\ pc' \in WorkerState
    BY <1>2, NextEntryType DEF LightsOff, TypeOK
  <2> QED BY <1>2, <2>1, <2>2, <2>3 DEF LightsOff, TypeOK, SlotType
<1>3. CASE TimerPoll
  BY <1>3 DEF TimerPoll, Expired, slot, TypeOK, WorkerState
<1>4. ASSUME NEW p \in Pins, Expire(p) PROVE TypeOK'
  <2>1. "timed" \in OutState
    BY DEF OutState
  <2>2. out' \in [Pins -> OutState] /\ copy' \in [Pins -> BOOLEAN]
    BY <1>4, <2>1, ActorHandleType DEF Expire
  <2> QED BY <1>4, <2>2 DEF Expire, slot, TypeOK, WorkerState
<1>5. CASE Tick
  <2>1. \A p \in Pins : Aged(timer[p]) \in Nat \cup {NoTimer}
    BY DEF Aged, TypeOK, NoTimer
  <2> QED BY <1>5, <2>1 DEF Tick, slot, TypeOK
<1> QED BY <1>1, <1>2, <1>3, <1>4, <1>5 DEF HandleTimers

-----------------------------------------------------------------------------
(***************************************************************************)
(* Edits of the table: what its slots hold after one.                      *)
(***************************************************************************)
LEMMA MaskedTable ==
  ASSUME TypeOK, NEW e \in Entries, NEW d \in BOOLEAN, Mask(e, d)
  PROVE  /\ table' \in Seq(Entry) /\ Len(table') = Len(table)
         /\ \A k \in 1..Len(table) :
              table'[k].src = table[k].src /\ table'[k].dst = table[k].dst
<1> DEFINE new(k) == IF SameSwitch(table[k], e) THEN [table[k] EXCEPT !.disabled = d]
                                                ELSE table[k]
<1>1. \A k \in 1..Len(table) :
        new(k) \in Entry /\ new(k).src = table[k].src /\ new(k).dst = table[k].dst
  <2> SUFFICES ASSUME NEW k \in 1..Len(table)
               PROVE  new(k) \in Entry /\ new(k).src = table[k].src
                                       /\ new(k).dst = table[k].dst
    OBVIOUS
  <2>1. table[k] \in Entry
    BY TableEntry
  <2> QED BY <2>1 DEF Entry
<1> HIDE DEF new
<1>2. table' = [k \in 1..Len(table) |-> new(k)]
  BY DEF Mask, new
<1>3. Len(table) \in Nat
  BY DEF TypeOK
<1> QED BY <1>1, <1>2, <1>3, IntervalIsSeq

LEMMA AddedTable ==
  ASSUME TypeOK, NEW e \in Entries, Add(e)
  PROVE  /\ table' \in Seq(Entry)
         /\ \/ /\ \A k \in 1..Len(table) : ~SameSwitch(table[k], e)
               /\ Len(table') = Len(table) + 1
               /\ table'[Len(table) + 1] = e
               /\ \A k \in 1..Len(table) : table'[k] = table[k]
            \/ /\ Len(table') = Len(table)
               /\ \A k \in 1..Len(table) : SameSwitch(table'[k], table[k])
<1>1. e \in Entry
  BY EntriesAssumption
<1> DEFINE same == {k \in 1..Len(table) : SameSwitch(table[k], e)}
<1>2. CASE same = {} /\ table' = Append(table, e)
  <2>1. table \in Seq(Entry)
    BY DEF TypeOK
  <2> QED BY <1>1, <1>2, <2>1, AppendProperties
<1>3. ASSUME NEW k \in same,
             table' = [table EXCEPT ![k] = [e EXCEPT !.disabled = table[k].disabled]]
      PROVE  /\ table' \in Seq(Entry) /\ Len(table') = Len(table)
             /\ \A j \in 1..Len(table) : SameSwitch(table'[j], table[j])
  <2> DEFINE new == [e EXCEPT !.disabled = table[k].disabled]
  <2>1. table \in Seq(Entry) /\ table[k].disabled \in BOOLEAN
    BY TableEntry DEF TypeOK
  <2>2. new \in Entry /\ new.src = e.src /\ new.dst = e.dst
    BY <1>1, <2>1 DEF Entry
  <2>3. SameSwitch(table[k], e)
    OBVIOUS
  <2> HIDE DEF new
  <2>4. table' = [table EXCEPT ![k] = new]
    BY <1>3 DEF new
  <2> QED BY <2>1, <2>2, <2>3, <2>4, ExceptSeq DEF SameSwitch
<1> QED BY <1>2, <1>3 DEF Add

LEMMA DeletedTable ==
  ASSUME TypeOK, NEW e \in Entries, Del(e)
  PROVE  /\ table' \in Seq(Entry) /\ Len(table') = Len(table) - 1
         /\ \E k \in 1..Len(table) : \A j \in 1..(Len(table) - 1) :
              table'[j] = table[IF j < k THEN j ELSE j + 1]
<1>1. PICK k \in 1..Len(table) :
        table' = [j \in 1..(Len(table) - 1) |-> IF j < k THEN table[j] ELSE table[j + 1]]
  BY DEF Del
<1>2. Len(table) - 1 \in Nat /\ \A j \in 1..Len(table) : table[j] \in Entry
  BY DEF TypeOK
<1>3. \A j \in 1..(Len(table) - 1) :
        (IF j < k THEN table[j] ELSE table[j + 1]) \in Entry
  BY <1>2
<1>4. table' \in [1..(Len(table) - 1) -> Entry]
  BY <1>1, <1>3
<1> QED BY <1>1, <1>2, <1>4, IntervalIsSeq

LEMMA EditType ==
  ASSUME TypeOK, NEW e \in Entries, Add(e) \/ Del(e)
  PROVE  TypeOK'
<1>1. table' \in Seq(Entry)
  BY AddedTable, DeletedTable
<1>2. Len(table') \in Nat /\ idx \in Nat \ {0}
  BY <1>1 DEF TypeOK
<1>3. SeesEdit
  BY DEF Add, Del
<1>4. cur' \in Entry
  BY <1>1, <1>2, <1>3 DEF SeesEdit, TypeOK
<1> QED BY <1>1, <1>3, <1>4 DEF SeesEdit, TypeOK, outputs, alarm

LEMMA FuseType ==
  ASSUME TypeOK, Fuse
  PROVE  TypeOK'
<1> USE DEF outputs, worker, settings, alarm, slot
<1>1. ASSUME NEW p \in FsPins, NEW on \in BOOLEAN, FsSwitch(p, on) PROVE TypeOK'
  <2>1. (IF Lit(p) THEN out[p] ELSE "outside") \in OutState
    BY PinsAssumption DEF TypeOK, OutState
  <2>2. out' \in [Pins -> OutState] /\ copy' \in [Pins -> BOOLEAN]
    BY <1>1, <2>1, PioSetType DEF FsSwitch
  <2> QED BY <1>1, <2>2 DEF FsSwitch, TypeOK
<1>5. ASSUME NEW d \in Devs, RegRead(d) PROVE TypeOK'
  <2>1. copy' \in [Pins -> BOOLEAN]
    <3>1. PICK answered \in BOOLEAN :
            copy' = [p \in Pins |-> IF p \in PinsOf(d) THEN answered /\ Lit(p) ELSE copy[p]]
      BY <1>5 DEF RegRead
    <3>2. \A p \in Pins : copy[p] \in BOOLEAN /\ (answered /\ Lit(p)) \in BOOLEAN
      BY DEF TypeOK
    <3> QED BY <3>1, <3>2
  <2> QED BY <1>5, <2>1 DEF RegRead, TypeOK
<1>2. ASSUME NEW d \in BOOLEAN, DarkSet(d) \/ MaskAll(d) PROVE TypeOK'
  <2>1. astro' \in BOOLEAN /\ masked' \in BOOLEAN
    BY <1>2 DEF DarkSet, MaskAll, TypeOK
  <2>2. UNCHANGED <<out, copy, timer, table, roomDark, worker>>
    BY <1>2 DEF DarkSet, MaskAll
  <2> QED BY <2>1, <2>2 DEF TypeOK
<1>3. ASSUME NEW r \in Rooms, NEW d \in {"dark", "day", "follow"}, RoomDarkSet(r, d)
      PROVE  TypeOK'
  BY <1>3 DEF RoomDarkSet, TypeOK
<1>4. ASSUME NEW e \in Entries, NEW d \in BOOLEAN, Mask(e, d) PROVE TypeOK'
  BY <1>4, MaskedTable DEF Mask, TypeOK
<1> QED BY <1>1, <1>2, <1>3, <1>4, <1>5, EditType DEF Fuse

LEMMA StepType == TypeOK /\ [Next]_vars => TypeOK'
<1>1. ASSUME TypeOK, UNCHANGED vars PROVE TypeOK'
  BY <1>1 DEF vars, outputs, settings, alarm, slot, TypeOK
<1> QED BY <1>1, ScanType, ActType, OffType, FuseType DEF Next, HandlePress

\* The variables keep their types, also when the table is edited while a press
\* is handled.
THEOREM TypeCorrect == Spec => []TypeOK
  BY InitType, StepType, PTL DEF Spec

-----------------------------------------------------------------------------
(***************************************************************************)
(* No switch is in the table twice.                                        *)
(***************************************************************************)
LEMMA InitNoDuplicates == Init => NoDuplicates
  BY EntriesAssumption DEF Init, NoDuplicates

LEMMA EditNoDuplicates ==
  ASSUME TypeOK, NoDuplicates, Fuse
  PROVE  NoDuplicates'
<1> USE DEF outputs, settings, worker
<1> Len(table) \in Nat
  BY DEF TypeOK
<1>1. ASSUME NEW e \in Entries, NEW d \in BOOLEAN, Mask(e, d) PROVE NoDuplicates'
  BY <1>1, MaskedTable DEF NoDuplicates
<1>2. ASSUME NEW e \in Entries, Add(e) PROVE NoDuplicates'
  <2>1. CASE /\ \A k \in 1..Len(table) : ~SameSwitch(table[k], e)
             /\ Len(table') = Len(table) + 1
             /\ table'[Len(table) + 1] = e
             /\ \A k \in 1..Len(table) : table'[k] = table[k]
    <3> SUFFICES ASSUME NEW j \in 1..Len(table'), NEW k \in 1..Len(table'),
                        SameSwitch(table'[j], table'[k])
                 PROVE  j = k
      BY DEF NoDuplicates, SameSwitch
    <3>1. /\ j \in 1..Len(table) \/ j = Len(table) + 1
          /\ k \in 1..Len(table) \/ k = Len(table) + 1
      BY <2>1
    <3>2. CASE j \in 1..Len(table) /\ k \in 1..Len(table)
      <4>1. table[j].src = table[k].src /\ table[j].dst = table[k].dst
        BY <2>1, <3>2 DEF SameSwitch
      <4> QED BY <3>2, <4>1 DEF NoDuplicates
    <3>3. CASE j = Len(table) + 1 /\ k \in 1..Len(table)
      BY <2>1, <3>3 DEF SameSwitch
    <3>4. CASE k = Len(table) + 1 /\ j \in 1..Len(table)
      BY <2>1, <3>4 DEF SameSwitch
    <3> QED BY <3>1, <3>2, <3>3, <3>4
  <2>2. CASE /\ Len(table') = Len(table)
             /\ \A k \in 1..Len(table) : SameSwitch(table'[k], table[k])
    BY <2>2 DEF NoDuplicates, SameSwitch
  <2> QED BY <1>2, <2>1, <2>2, AddedTable
<1>3. ASSUME NEW e \in Entries, Del(e) PROVE NoDuplicates'
  <2>1. /\ Len(table') = Len(table) - 1
        /\ \E k \in 1..Len(table) : \A j \in 1..(Len(table) - 1) :
             table'[j] = table[IF j < k THEN j ELSE j + 1]
    BY <1>3, DeletedTable
  <2>2. PICK k \in 1..Len(table) : \A j \in 1..(Len(table) - 1) :
          table'[j] = table[IF j < k THEN j ELSE j + 1]
    BY <2>1
  <2> DEFINE From(j) == IF j < k THEN j ELSE j + 1
  <2> SUFFICES ASSUME NEW i \in 1..Len(table)', NEW j \in 1..Len(table)', i # j
               PROVE  ~(table'[i].src = table'[j].src /\ table'[i].dst = table'[j].dst)
    BY DEF NoDuplicates
  <2>4. /\ From(i) \in 1..Len(table) /\ From(j) \in 1..Len(table)
        /\ From(i) # From(j)
    BY <2>1
  <2>5. table'[i] = table[From(i)] /\ table'[j] = table[From(j)]
    BY <2>1, <2>2
  <2> QED BY <2>4, <2>5 DEF NoDuplicates
<1>4. ASSUME UNCHANGED table PROVE NoDuplicates'
  BY <1>4 DEF NoDuplicates
<1> QED
  BY <1>1, <1>2, <1>3, <1>4 DEF Fuse, FsSwitch, RegRead, DarkSet, RoomDarkSet, MaskAll

LEMMA StepNoDuplicates == TypeOK /\ NoDuplicates /\ [Next]_vars => NoDuplicates'
<1>1. ASSUME TypeOK, NoDuplicates, UNCHANGED table PROVE NoDuplicates'
  BY <1>1 DEF NoDuplicates
<1>2. [Next]_vars /\ ~Fuse => UNCHANGED table
  BY DEF Next, vars, outputs, settings, Alarm, DevAlarm, HandlePress, TakeLatch, AlarmDone,
         LookAt, CheckLit, Toggle, ToggleStop, TimedFindsOff, TimedOn, TimedStart,
         TimedOff, TimedRetrigger, AllOffTimers, LightsOff, HandleTimers, TimerPoll,
         Expire, Tick
<1> QED BY <1>1, <1>2, EditNoDuplicates

\* A source and a target are in the table once, however it is edited and
\* masked, also while the worker goes through it (w_add(), w_del(), mask()).
THEOREM NoSwitchTwice == Spec => []NoDuplicates
  BY InitNoDuplicates, StepNoDuplicates, TypeCorrect, PTL DEF Spec

-----------------------------------------------------------------------------
(***************************************************************************)
(* The timers and the outputs: the inductive invariant.                    *)
(***************************************************************************)
\* Timers are taken out only to switch their outputs off.
Settled == expired # {} => pc = "expire"

\* The entry a press acts on is not all-off.
TargetIsPin == pc \in {"tstop", "ton", "tstart"} => cur.dst \in Pins

\* The timer a press stops, or is about to start, is that of an output it
\* leaves to no timed, or no plain, switch.
StopsOwnTimer == pc = "tstop" => out[cur.dst] # "timed"
StartsOwnTimer == pc = "tstart" => out[cur.dst] # "plain"

\* A switch for the dark that is looked at by day acts on an output its copy
\* has on, which nobody else changes.
DarkIsLit ==
  byDay /\ pc \in {"act", "ton"} /\ cur.dst \in OwnPins =>
    pc = "act" /\ copy[cur.dst]

Inv ==
  /\ Settled /\ TargetIsPin /\ StopsOwnTimer /\ StartsOwnTimer /\ DarkIsLit
  /\ TimedHasTimer /\ PlainHasNoTimer

LEMMA InitInv == Init => Inv
  BY DEF Init, Inv, Settled, TargetIsPin, StopsOwnTimer, StartsOwnTimer, DarkIsLit,
         TimedHasTimer, PlainHasNoTimer, TimerRunning

\* What a write to a device does to the outputs beside the one it is for
LEMMA WrittenOut ==
  ASSUME TypeOK, NEW d, NEW on, NEW p, NEW who, out' = Written(d, on, p, who)
  PROVE  /\ \A q \in Pins : q # p => \/ out'[q] = out[q]
                                     \/ out'[q] = "off"
                                     \/ out[q] = "off" /\ out'[q] = "stray"
         /\ \A q \in Pins : q \in PinsOf(d) /\ q \notin on => out'[q] = "off"
         /\ p \in Pins => out'[p] \in {out[p], "off", who}
         /\ p \in PinsOf(d) => out'[p] = IF p \in on THEN who ELSE "off"
  BY DEF Written, PinsOf

\* What actor_handle() does to the outputs
LEMMA ActorHandleOut ==
  ASSUME TypeOK, NEW p \in Pins, NEW on, NEW who, ActorHandle(p, on, who)
  PROVE  /\ \A q \in Pins : q # p => \/ out'[q] = out[q]
                                     \/ out'[q] = "off"
                                     \/ out[q] = "off" /\ out'[q] = "stray"
         /\ on => out'[p] \in {who, "off", "stuck"}
         /\ ~on => out'[p] \in {"off", "stuck"}
<1>1. CASE out' = Failed(p)
  BY <1>1 DEF TypeOK, Failed
<1>2. CASE out' = Written(DevOf[p], WithPin(p, on), p, who)
  <2>1. p \in PinsOf(DevOf[p]) /\ (p \in WithPin(p, on) <=> on)
    BY DEF PinsOf, WithPin
  <2> QED BY <1>2, <2>1, WrittenOut
<1> QED BY <1>1, <1>2 DEF ActorHandle, PioSet

LEMMA FailedStaysOff ==
  ASSUME TypeOK, NEW p \in Pins, NEW who, ActorHandle(p, FALSE, who), out[p] = "off"
  PROVE  out'[p] = "off"
<1>1. CASE out' = Failed(p)
  BY <1>1 DEF TypeOK, Failed
<1>2. CASE out' = Written(DevOf[p], WithPin(p, FALSE), p, who)
  BY <1>2, WrittenOut DEF PinsOf, WithPin
<1> QED BY <1>1, <1>2 DEF ActorHandle, PioSet

LEMMA TimerSteps ==
  ASSUME TypeOK, NEW p \in Pins
  PROVE  /\ TimerStop(p) => \A q \in Pins :
              timer'[q] = IF q = p THEN NoTimer ELSE timer[q]
         /\ \A secs \in Nat : TimerStart(p, secs) => \A q \in Pins :
              timer'[q] = IF q = p THEN secs ELSE timer[q]
  BY DEF TypeOK, TimerStop, TimerStart

\* Without a scan of the busses every device is found.
LEMMA AllFound == ASSUME ~RescanDuringPress PROVE Found = {TRUE}
  BY DEF Found

LEMMA OutputSeen ==
  ASSUME ~RescanDuringPress, NEW p
  PROVE  TRUE \in OutputOn(p) => copy[p]
<1>1. OutputOn(p) = {TRUE /\ copy[p]}
  BY AllFound, Zenon DEF OutputOn
<1> QED BY <1>1, Zenon

LEMMA OutputSeenOff ==
  ASSUME ~RescanDuringPress, NEW p
  PROVE  FALSE \in OutputOn(p) => ~copy[p]
<1>1. OutputOn(p) = {TRUE /\ copy[p]}
  BY AllFound, Zenon DEF OutputOn
<1> QED BY <1>1, Zenon

\* The worker on its way through an alarm and the table
LEMMA ScanInv ==
  ASSUME ~RescanDuringPress, TypeOK, Inv, Alarm \/ TakeLatch \/ AlarmDone \/ LookAt \/ CheckLit
  PROVE  Inv'
<1> USE DEF outputs, settings, alarm, slot, NextEntry
<1>1. /\ UNCHANGED <<out, copy, timer, expired, todo>>
      /\ pc \in {"idle", "take", "scan", "check"}
      /\ pc' \in {"idle", "take", "scan", "check", "act"}
  BY DEF Alarm, DevAlarm, TakeLatch, AlarmDone, LookAt, CheckLit
<1>2. Settled' /\ TargetIsPin' /\ StopsOwnTimer' /\ StartsOwnTimer'
  BY <1>1 DEF Inv, Settled, TargetIsPin, StopsOwnTimer, StartsOwnTimer
<1>3. TimedHasTimer' /\ PlainHasNoTimer'
  BY <1>1 DEF Inv, TimedHasTimer, PlainHasNoTimer, Pending, TimerRunning
<1>4. DarkIsLit'
  <2>1. CASE LookAt
    <3>1. pc' = "act" => byDay' = ByDay(cur') /\ (CondMet(cur', TRUE) \/ cur'.dst = AllOff)
      BY <2>1, AllFound DEF LookAt
    <3>2. pc' = "act" => ~byDay'
      BY <3>1 DEF ByDay, CondMet
    <3> QED BY <1>1, <3>2 DEF DarkIsLit
  <2>2. CASE CheckLit
    <3>1. pc' = "act" => copy[cur.dst]
      BY <2>2, OutputSeen DEF CheckLit
    <3>2. pc' # "act" => pc' = "scan"
      BY <2>2 DEF CheckLit
    <3>3. UNCHANGED <<cur, byDay>> \/ pc' # "act"
      BY <2>2 DEF CheckLit
    <3> QED BY <1>1, <3>1, <3>2, <3>3, Zenon DEF DarkIsLit
  <2>3. CASE Alarm \/ TakeLatch \/ AlarmDone
    BY <2>3 DEF Alarm, DevAlarm, TakeLatch, AlarmDone, DarkIsLit
  <2> QED BY <2>1, <2>2, <2>3
<1> QED BY <1>2, <1>3, <1>4 DEF Inv

\* A plain switch
LEMMA PlainInv ==
  ASSUME TypeOK, Inv, Toggle \/ ToggleStop
  PROVE  Inv'
<1> USE DEF outputs, settings, alarm, slot, NextEntry
<1>1. CASE Toggle
  <2>1. cur.dst \in Pins
    BY <1>1, CurType DEF Toggle
  <2>2. /\ \A q \in Pins : q # cur.dst => out'[q] \in {out[q], "off", "stray"}
        /\ out'[cur.dst] \in {"off", "plain", "stuck"}
    BY <1>1, <2>1, ActorHandleOut DEF Toggle
  <2>3. /\ pc = "act" /\ pc' = "tstop"
        /\ UNCHANGED <<timer, cur, expired, todo, byDay>>
    BY <1>1 DEF Toggle
  <2>4. Settled' /\ TargetIsPin' /\ StopsOwnTimer' /\ StartsOwnTimer' /\ DarkIsLit'
    BY <2>1, <2>2, <2>3
       DEF Inv, Settled, TargetIsPin, StopsOwnTimer, StartsOwnTimer, DarkIsLit
  <2>5. TimedHasTimer'
    BY <2>1, <2>2, <2>3 DEF Inv, TimedHasTimer, Pending, TimerRunning
  <2>6. PlainHasNoTimer'
    BY <2>1, <2>2, <2>3 DEF Inv, Settled, PlainHasNoTimer, TimerRunning
  <2> QED BY <2>4, <2>5, <2>6 DEF Inv
<1>2. CASE ToggleStop
  <2>1. cur.dst \in Pins
    BY <1>2 DEF ToggleStop, Inv, TargetIsPin
  <2>2. \A q \in Pins : timer'[q] = IF q = cur.dst THEN NoTimer ELSE timer[q]
    BY <1>2, <2>1, TimerSteps DEF ToggleStop
  <2>3. /\ pc = "tstop" /\ pc' = "scan"
        /\ UNCHANGED <<out, expired, todo>>
    BY <1>2 DEF ToggleStop
  <2>4. Settled' /\ TargetIsPin' /\ StopsOwnTimer' /\ StartsOwnTimer' /\ DarkIsLit'
    BY <2>3 DEF Inv, Settled, TargetIsPin, StopsOwnTimer, StartsOwnTimer, DarkIsLit
  <2>5. TimedHasTimer'
    BY <2>2, <2>3 DEF Inv, StopsOwnTimer, TimedHasTimer, Pending, TimerRunning
  <2>6. PlainHasNoTimer'
    BY <2>2, <2>3 DEF Inv, Settled, PlainHasNoTimer, TimerRunning
  <2> QED BY <2>4, <2>5, <2>6 DEF Inv
<1> QED BY <1>1, <1>2

\* A timed switch on its way to switching on
LEMMA TimedOnInv ==
  ASSUME ~RescanDuringPress, TypeOK, Inv, TimedFindsOff \/ TimedOn \/ TimedStart
  PROVE  Inv'
<1> USE DEF outputs, settings, alarm, slot, NextEntry
<1>1. CASE TimedFindsOff
  <2>1. cur.dst \in Pins /\ ~copy[cur.dst]
    BY <1>1, CurType, OutputSeenOff DEF TimedFindsOff
  <2>2. /\ pc = "act" /\ pc' = "ton"
        /\ UNCHANGED <<out, copy, timer, cur, byDay, expired, todo>>
    BY <1>1 DEF TimedFindsOff
  <2>3. Settled' /\ TargetIsPin' /\ StopsOwnTimer' /\ StartsOwnTimer' /\ DarkIsLit'
    BY <2>1, <2>2
       DEF Inv, Settled, TargetIsPin, StopsOwnTimer, StartsOwnTimer, DarkIsLit
  <2>4. TimedHasTimer' /\ PlainHasNoTimer'
    BY <2>2 DEF Inv, TimedHasTimer, PlainHasNoTimer, Pending, TimerRunning
  <2> QED BY <2>3, <2>4 DEF Inv
<1>2. CASE TimedOn
  <2>1. cur.dst \in Pins
    BY <1>2 DEF TimedOn, Inv, TargetIsPin
  <2>2. /\ \A q \in Pins : q # cur.dst => out'[q] \in {out[q], "off", "stray"}
        /\ out'[cur.dst] \in {"timed", "off", "stuck"}
    BY <1>2, <2>1, ActorHandleOut DEF TimedOn
  <2>3. \A q \in Pins : timer'[q] = IF q = cur.dst THEN NoTimer ELSE timer[q]
    BY <1>2, <2>1, TimerSteps DEF TimedOn
  <2>4. /\ pc = "ton" /\ pc' = "tstart"
        /\ UNCHANGED <<cur, byDay, expired, todo>>
    BY <1>2 DEF TimedOn
  <2>5. Settled' /\ TargetIsPin' /\ StopsOwnTimer' /\ StartsOwnTimer' /\ DarkIsLit'
    BY <2>1, <2>2, <2>4
       DEF Inv, Settled, TargetIsPin, StopsOwnTimer, StartsOwnTimer, DarkIsLit
  <2>6. TimedHasTimer'
    BY <2>2, <2>3, <2>4 DEF Inv, TimedHasTimer, Pending, TimerRunning
  <2>7. PlainHasNoTimer'
    BY <2>2, <2>3, <2>4 DEF Inv, Settled, PlainHasNoTimer, TimerRunning
  <2> QED BY <2>5, <2>6, <2>7 DEF Inv
<1>3. CASE TimedStart
  <2>1. cur.dst \in Pins /\ out[cur.dst] # "plain"
    BY <1>3 DEF TimedStart, Inv, TargetIsPin, StartsOwnTimer
  <2>2. /\ \A q \in Pins : timer'[q] = IF q = cur.dst THEN cur.secs ELSE timer[q]
        /\ cur.secs # NoTimer
    BY <1>3, <2>1, CurType, TimerSteps DEF TimedStart, NoTimer
  <2>3. /\ pc = "tstart" /\ pc' = "scan"
        /\ UNCHANGED <<out, expired, todo>>
    BY <1>3 DEF TimedStart
  <2>4. Settled' /\ TargetIsPin' /\ StopsOwnTimer' /\ StartsOwnTimer' /\ DarkIsLit'
    BY <2>3 DEF Inv, Settled, TargetIsPin, StopsOwnTimer, StartsOwnTimer, DarkIsLit
  <2>5. TimedHasTimer'
    BY <2>2, <2>3 DEF Inv, TimedHasTimer, Pending, TimerRunning
  <2>6. PlainHasNoTimer'
    BY <2>1, <2>2, <2>3 DEF Inv, Settled, PlainHasNoTimer, TimerRunning
  <2> QED BY <2>4, <2>5, <2>6 DEF Inv
<1> QED BY <1>1, <1>2, <1>3

\* A timed switch whose output is on
LEMMA TimedOffInv ==
  ASSUME ~RescanDuringPress, TypeOK, Inv, TimedOff \/ TimedRetrigger
  PROVE  Inv'
<1> USE DEF outputs, settings, alarm, slot, NextEntry
<1>1. /\ cur.dst \in Pins
      /\ pc = "act" /\ pc' = "scan"
      /\ UNCHANGED <<expired, todo>>
  BY CurType DEF TimedOff, TimedRetrigger
<1>2. Settled' /\ TargetIsPin' /\ StopsOwnTimer' /\ StartsOwnTimer' /\ DarkIsLit'
  BY <1>1 DEF Inv, Settled, TargetIsPin, StopsOwnTimer, StartsOwnTimer, DarkIsLit
<1>3. CASE TimedOff
  <2>1. /\ \A q \in Pins : q # cur.dst => out'[q] \in {out[q], "off", "stray"}
        /\ out'[cur.dst] \in {"off", "stuck"}
    BY <1>1, <1>3, ActorHandleOut DEF TimedOff
  <2>2. \A q \in Pins : timer'[q] = IF q = cur.dst THEN NoTimer ELSE timer[q]
    BY <1>1, <1>3, TimerSteps DEF TimedOff
  <2>3. TimedHasTimer'
    BY <1>1, <2>1, <2>2 DEF Inv, TimedHasTimer, Pending, TimerRunning
  <2>4. PlainHasNoTimer'
    BY <1>1, <2>1, <2>2 DEF Inv, Settled, PlainHasNoTimer, TimerRunning
  <2> QED BY <1>2, <2>3, <2>4 DEF Inv
<1>4. CASE TimedRetrigger
  <2>1. UNCHANGED out
    BY <1>4 DEF TimedRetrigger
  <2>2. \A q \in Pins : timer'[q] # NoTimer <=> timer[q] # NoTimer
    BY <1>1, <1>4, CurType, TimerSteps DEF TimedRetrigger, TimerRunning, NoTimer
  <2>3. TimedHasTimer'
    BY <1>1, <2>1, <2>2 DEF Inv, TimedHasTimer, Pending, TimerRunning
  <2>4. PlainHasNoTimer'
    BY <1>1, <2>1, <2>2 DEF Inv, Settled, PlainHasNoTimer, TimerRunning
  <2> QED BY <1>2, <2>3, <2>4 DEF Inv
<1> QED BY <1>3, <1>4

\* All lights off
LEMMA AllOffInv ==
  ASSUME ~RescanDuringPress, TypeOK, Inv, AllOffTimers \/ \E d \in Devs : LightsOff(d)
  PROVE  Inv'
<1> USE PinsAssumption DEF outputs, settings, alarm, slot, NextEntry
<1>1. pc \in {"act", "lightsoff"} /\ pc' \in {"lightsoff", "scan"} /\ UNCHANGED expired
  BY DEF AllOffTimers, LightsOff
<1>2. Settled' /\ TargetIsPin' /\ StopsOwnTimer' /\ StartsOwnTimer' /\ DarkIsLit'
  BY <1>1 DEF Inv, Settled, TargetIsPin, StopsOwnTimer, StartsOwnTimer, DarkIsLit
<1>3. CASE AllOffTimers
  <2>1. \A q \in Pins : timer'[q] = IF q \in Lights THEN NoTimer ELSE timer[q]
    BY <1>3, AllFound DEF AllOffTimers
  <2>2. pc = "act" /\ pc' = "lightsoff" /\ UNCHANGED <<out, cur>> /\ todo' = Devs
    BY <1>3 DEF AllOffTimers
  <2>3. TimedHasTimer'
    BY <2>1, <2>2 DEF Inv, TimedHasTimer, Pending, TimerRunning
  <2>4. PlainHasNoTimer'
    BY <1>1, <2>1, <2>2 DEF Inv, PlainHasNoTimer, TimerRunning
  <2> QED BY <1>2, <2>3, <2>4 DEF Inv
<1>4. ASSUME NEW d \in Devs, LightsOff(d) PROVE Inv'
  <2>1. \A q \in Pins :
          \/ q \in Lights /\ DevOf[q] = d /\ out'[q] \in {"off", "stuck", "missed"}
          \/ ~(q \in Lights /\ DevOf[q] = d) /\ out'[q] \in {out[q], "off", "stray"}
    <3>1. CASE out' = Written(d, InCopy(d) \ Lights, AllOff, "off")
      BY <3>1, WrittenOut DEF PinsOf
    <3>2. CASE out' \in {Unreached(d, "stuck"), Unreached(d, "missed")}
      BY <3>2 DEF Unreached, PinsOf, Lit
    <3> QED BY <1>4, <3>1, <3>2 DEF LightsOff, PioSet
  <2>2. /\ pc = "lightsoff" /\ todo' = todo \ {d}
        /\ pc' # "lightsoff" => pc' = "scan" /\ todo' = {}
        /\ UNCHANGED timer
    BY <1>4 DEF LightsOff
  <2>4. TimedHasTimer'
    BY <2>1, <2>2 DEF Inv, TimedHasTimer, Pending, TimerRunning
  <2>5. PlainHasNoTimer'
    BY <1>1, <2>1, <2>2 DEF Inv, PlainHasNoTimer, TimerRunning
  <2> QED BY <1>2, <2>4, <2>5 DEF Inv
<1> QED BY <1>3, <1>4

\* The timers
LEMMA TimersInv ==
  ASSUME TypeOK, Inv, HandleTimers \/ Tick
  PROVE  Inv'
<1> USE DEF outputs, settings, alarm, slot
<1>1. CASE TimerPoll
  <2>1. /\ pc = "idle" /\ pc' = "expire" /\ UNCHANGED out
        /\ expired' = {p \in Pins : timer[p] = 0}
        /\ \A q \in Pins : timer'[q] = IF timer[q] = 0 THEN NoTimer ELSE timer[q]
    BY <1>1 DEF TimerPoll, Expired
  <2>2. Settled' /\ TargetIsPin' /\ StopsOwnTimer' /\ StartsOwnTimer' /\ DarkIsLit'
    BY <2>1 DEF Settled, TargetIsPin, StopsOwnTimer, StartsOwnTimer, DarkIsLit
  <2>3. TimedHasTimer'
    BY <2>1 DEF Inv, TimedHasTimer, Pending, TimerRunning
  <2>4. PlainHasNoTimer'
    BY <2>1 DEF Inv, PlainHasNoTimer, TimerRunning, NoTimer
  <2> QED BY <2>2, <2>3, <2>4 DEF Inv
<1>2. ASSUME NEW p \in Pins, Expire(p) PROVE Inv'
  <2>1. /\ \A q \in Pins : q # p => out'[q] \in {out[q], "off", "stray"}
        /\ out'[p] \in {"off", "stuck"}
    BY <1>2, ActorHandleOut DEF Expire
  <2>2. /\ pc = "expire" /\ expired' = expired \ {p} /\ UNCHANGED <<timer, todo>>
        /\ pc' \in {"idle", "expire"} /\ (pc' = "idle" <=> expired' = {})
    BY <1>2 DEF Expire
  <2>3. Settled' /\ TargetIsPin' /\ StopsOwnTimer' /\ StartsOwnTimer' /\ DarkIsLit'
    BY <2>2 DEF Settled, TargetIsPin, StopsOwnTimer, StartsOwnTimer, DarkIsLit
  <2>4. TimedHasTimer'
    BY <2>1, <2>2 DEF Inv, TimedHasTimer, Pending, TimerRunning
  <2>5. PlainHasNoTimer'
    BY <2>1, <2>2 DEF Inv, PlainHasNoTimer, TimerRunning
  <2> QED BY <2>3, <2>4, <2>5 DEF Inv
<1>3. CASE Tick
  <2>1. \A q \in Pins : timer'[q] # NoTimer <=> timer[q] # NoTimer
    BY <1>3 DEF Tick, Aged, NoTimer, TypeOK
  <2>2. UNCHANGED <<out, copy, pc, slot, expired, todo>>
    BY <1>3 DEF Tick
  <2>3. Settled' /\ TargetIsPin' /\ StopsOwnTimer' /\ StartsOwnTimer' /\ DarkIsLit'
    BY <2>2 DEF Inv, Settled, TargetIsPin, StopsOwnTimer, StartsOwnTimer, DarkIsLit
  <2>4. TimedHasTimer'
    BY <2>1, <2>2 DEF Inv, TimedHasTimer, Pending, TimerRunning
  <2>5. PlainHasNoTimer'
    BY <2>1, <2>2 DEF Inv, PlainHasNoTimer, TimerRunning
  <2> QED BY <2>3, <2>4, <2>5 DEF Inv
<1> QED BY <1>1, <1>2, <1>3 DEF HandleTimers

\* What leaves the outputs, the timers and the worker alone keeps the invariant.
LEMMA SettingsInv ==
  ASSUME Inv, UNCHANGED <<out, copy, timer, pc, slot, expired, todo>>
  PROVE  Inv'
  BY DEF slot, Inv, Settled, TargetIsPin, StopsOwnTimer, StartsOwnTimer, DarkIsLit,
         TimedHasTimer, PlainHasNoTimer, Pending, TimerRunning

\* What users do to the outputs and the copy of a device: it is none of
\* OwnPins, unless the worker is at its poll.
LEMMA UsersInv ==
  ASSUME Inv, NEW d, d \in UsedDevs \/ pc = "idle",
         UNCHANGED <<timer, pc, slot, expired, todo>>,
         \A q \in Pins : out'[q] \in {out[q], "off", "stray", "outside"},
         \A q \in Pins : DevOf[q] # d => copy'[q] = copy[q]
  PROVE  Inv'
<1> USE DEF slot
<1>1. Settled' /\ TargetIsPin' /\ StopsOwnTimer' /\ StartsOwnTimer'
  BY DEF Inv, Settled, TargetIsPin, StopsOwnTimer, StartsOwnTimer
<1>2. DarkIsLit'
  <2> SUFFICES ASSUME byDay, pc \in {"act", "ton"}, cur.dst \in OwnPins
               PROVE  pc = "act" /\ copy'[cur.dst]
    BY DEF DarkIsLit, OwnPins, UsedDevs
  <2>1. pc = "act" /\ copy[cur.dst]
    BY DEF Inv, DarkIsLit
  <2>2. cur.dst \in Pins /\ DevOf[cur.dst] # d
    BY DEF OwnPins
  <2> QED BY <2>1, <2>2
<1>3. TimedHasTimer' /\ PlainHasNoTimer'
  BY DEF Inv, TimedHasTimer, PlainHasNoTimer, Pending, TimerRunning
<1> QED BY <1>1, <1>2, <1>3 DEF Inv

LEMMA FsSwitchInv ==
  ASSUME TypeOK, Inv, NEW p \in FsPins, NEW on \in BOOLEAN, FsSwitch(p, on)
  PROVE  Inv'
<1> DEFINE who == IF Lit(p) THEN out[p] ELSE "outside"
<1>1. p \in Pins /\ PioSet(DevOf[p], WithPin(p, on), p, who)
  BY PinsAssumption DEF FsSwitch
<1>2. UNCHANGED <<timer, pc, slot, expired, todo>>
  BY DEF FsSwitch, worker
<1>3. \A q \in Pins : out'[q] \in {out[q], "off", "stray", "outside"}
  BY <1>1, WrittenOut DEF PioSet
<1>4. \A q \in Pins : DevOf[q] # DevOf[p] => copy'[q] = copy[q]
  <2>1. CASE copy' = copy
    BY <2>1
  <2>2. CASE copy' = Noted(DevOf[p], WithPin(p, on))
    BY <2>2, Zenon DEF Noted, PinsOf
  <2> QED BY <1>1, <2>1, <2>2 DEF PioSet, Answer
<1>5. DevOf[p] \in UsedDevs
  BY DEF UsedDevs
<1> QED BY <1>2, <1>3, <1>4, <1>5, UsersInv

LEMMA RegReadInv ==
  ASSUME TypeOK, Inv, NEW d \in Devs, RegRead(d)
  PROVE  Inv'
<1>1. UNCHANGED <<out, timer, pc, slot, expired, todo>> /\ (d \in UsedDevs \/ pc = "idle")
  BY DEF RegRead, worker
<1>2. \A q \in Pins : DevOf[q] # d => copy'[q] = copy[q]
  <2>1. PICK answered \in BOOLEAN :
          copy' = [q \in Pins |-> IF q \in PinsOf(d) THEN answered /\ Lit(q) ELSE copy[q]]
    BY DEF RegRead
  <2> QED BY <2>1, Zenon DEF PinsOf
<1> QED BY <1>1, <1>2, UsersInv

LEMMA FuseInv ==
  ASSUME ~EditDuringPress, ~RescanDuringPress, TypeOK, Inv, Fuse
  PROVE  Inv'
<1> USE DEF outputs, worker, alarm, slot
<1>1. ASSUME NEW p \in FsPins, NEW on \in BOOLEAN, FsSwitch(p, on) PROVE Inv'
  BY <1>1, FsSwitchInv
<1>6. ASSUME NEW d \in Devs, RegRead(d) PROVE Inv'
  BY <1>6, RegReadInv
<1>2. ASSUME NEW d \in BOOLEAN, DarkSet(d) \/ MaskAll(d) PROVE Inv'
  BY <1>2, SettingsInv DEF DarkSet, MaskAll
<1>3. ASSUME NEW r \in Rooms, NEW d, RoomDarkSet(r, d) PROVE Inv'
  BY <1>3, SettingsInv DEF RoomDarkSet
<1>4. ASSUME NEW e, NEW d, Mask(e, d) PROVE Inv'
  BY <1>4, SettingsInv DEF Mask, outputs
<1>5. ASSUME NEW e, Add(e) \/ Del(e) PROVE Inv'
  <2>1. pc \in {"idle", "expire"} /\ SeesEdit
    BY <1>5 DEF Add, Del, MayEdit
  <2>2. UNCHANGED <<out, copy, timer, pc, slot, expired, todo>>
    BY <2>1 DEF SeesEdit, Scanning
  <2> QED BY <2>2, SettingsInv
<1> QED BY <1>1, <1>2, <1>3, <1>4, <1>5, <1>6 DEF Fuse

LEMMA StepInv ==
  ASSUME ~EditDuringPress, ~RescanDuringPress
  PROVE  TypeOK /\ Inv /\ [Next]_vars => Inv'
<1>1. ASSUME Inv, UNCHANGED vars PROVE Inv'
  BY <1>1, SettingsInv DEF vars, outputs
<1> QED
  BY <1>1, ScanInv, PlainInv, TimedOnInv, TimedOffInv, AllOffInv, TimersInv, FuseInv
     DEF Next, HandlePress

LEMMA Invariance ==
  ASSUME ~EditDuringPress, ~RescanDuringPress
  PROVE  Spec => []Inv
  BY InitInv, StepInv, TypeCorrect, PTL DEF Spec

-----------------------------------------------------------------------------

\* As long as no press races an edit of the table, an output a timed switch
\* switched on has its timer (switch_timed(), all_off(), timer_poll()).
THEOREM TimersAreKept ==
  ASSUME ~EditDuringPress, ~RescanDuringPress
  PROVE  Spec => []TimedHasTimer
<1>1. Inv => TimedHasTimer
  BY DEF Inv
<1> QED BY <1>1, Invariance, PTL

\* Nor has an output a plain switch switched on a timer that will switch it off
\* (switchHandle() stops it after the TOGGLE).
THEOREM PlainStaysOn ==
  ASSUME ~EditDuringPress, ~RescanDuringPress
  PROVE  Spec => []PlainHasNoTimer
<1>1. Inv => PlainHasNoTimer
  BY DEF Inv
<1> QED BY <1>1, Invariance, PTL

\* A press of a switch for the dark that is looked at by day switches on no
\* output of a device only the worker uses (cond_met() and output_on() in
\* switchHandle()).
THEOREM DarkIsRespected ==
  ASSUME ~EditDuringPress, ~RescanDuringPress
  PROVE  Spec => DarkStaysOff
<1>1. TypeOK /\ Inv /\ [Next]_vars => [\A p \in OwnPins : ~LightsUpByDay(p)]_vars
  <2> SUFFICES ASSUME TypeOK, Inv, Next, NEW p \in OwnPins, LightsUpByDay(p)
               PROVE  FALSE
    BY DEF vars
  <2> USE DEF outputs, settings, alarm, slot, NextEntry, worker
  <2>1. /\ byDay /\ pc \in {"act", "ton"} /\ out[p] = "off" /\ p \in Pins
        /\ out'[p] \notin {"off", "outside", "stray"}
    BY DEF LightsUpByDay, Lit, OwnPins
  <2>2. cur.dst = p => pc = "act" /\ copy[p]
    BY <2>1 DEF Inv, DarkIsLit
  <2>3. CASE Toggle \/ TimedOn \/ TimedOff
    <3>1. cur.dst \in Pins
      BY <2>1, <2>3, CurType DEF Toggle, TimedOn, TimedOff, Inv, TargetIsPin
    <3>2. CASE cur.dst # p
      <4>1. out'[p] \in {out[p], "off", "stray"}
        BY <2>1, <2>3, <3>1, <3>2, ActorHandleOut DEF Toggle, TimedOn, TimedOff
      <4> QED BY <2>1, <4>1
    <3>3. CASE cur.dst = p
      <4>1. PICK who : ActorHandle(p, FALSE, who)
        <5>1. ~TimedOn
          BY <2>2, <3>3 DEF TimedOn
        <5>2. Toggle => ActorHandle(p, ~copy[p], "plain")
          BY <3>3 DEF Toggle
        <5>3. (~copy[p]) = FALSE
          BY <2>2, <3>3, Zenon
        <5>4. TimedOff => ActorHandle(p, FALSE, "timed")
          BY <3>3 DEF TimedOff
        <5> QED BY ONLY <2>3, <5>1, <5>2, <5>3, <5>4
      <4>2. out'[p] \in {"off", "stuck"}
        BY <2>1, <4>1, ActorHandleOut
      <4>3. out'[p] # "stuck"
        BY <2>1, <4>1, FailedStaysOff
      <4> QED BY <2>1, <4>2, <4>3
    <3> QED BY <3>2, <3>3
  <2>4. ASSUME NEW q \in FsPins, NEW on \in BOOLEAN, FsSwitch(q, on) PROVE FALSE
    <3>1. q \in Pins /\ p # q
      BY <2>4, PinsAssumption DEF OwnPins, UsedDevs
    <3>2. out' = Written(DevOf[q], WithPin(q, on), q, IF Lit(q) THEN out[q] ELSE "outside")
      BY <2>4 DEF FsSwitch, PioSet
    <3>3. out'[p] \in {out[p], "off", "stray"}
      BY <2>1, <3>1, <3>2, WrittenOut
    <3> QED BY <2>1, <3>3
  <2>5. CASE UNCHANGED out
    BY <2>1, <2>5
  <2>6. Next => \/ Toggle \/ TimedOn \/ TimedOff
                \/ \E q \in FsPins, on \in BOOLEAN : FsSwitch(q, on)
                \/ UNCHANGED out
    BY <2>1 DEF Next, Alarm, DevAlarm, HandlePress, TakeLatch, AlarmDone, LookAt,
         CheckLit, ToggleStop, TimedFindsOff, TimedStart, TimedRetrigger, AllOffTimers,
         LightsOff, HandleTimers, TimerPoll, Expire, Tick, Fuse, RegRead, DarkSet,
         RoomDarkSet, MaskAll, Mask, Add, Del, SeesEdit
  <2> QED BY <2>3, <2>4, <2>5, <2>6
<1> QED
  BY <1>1, Invariance, TypeCorrect, PTL DEF Spec, DarkStaysOff

-----------------------------------------------------------------------------
(***************************************************************************)
(* A timer runs out: the part of TimedGoesOff that needs no fairness.      *)
(***************************************************************************)
\* The worker is at its poll, or switches the outputs of expired timers off.
AtRest == pc \in {"idle", "expire"}

\* What is left of the off timer of an output, and the steps that shorten it:
\* a second of a running one, the poll that takes an expired one out, the
\* access that switches its output off.
Remains(p) == IF p \in expired THEN 0 ELSE timer[p] + 1
Shortens(p) ==
  \/ Tick /\ p \notin expired /\ timer[p] > 0
  \/ TimerPoll /\ timer[p] = 0
  \/ Expire(p)

\* A light that keeps burning because of a timed switch
KeepsBurning(p) == out[p] = "timed" /\ out'[p] = "timed"

\* What a step at rest can do to the timers
LEMMA StepsAtRest ==
  ASSUME TypeOK, Next, AtRest, AtRest'
  PROVE  \/ Tick
         \/ TimerPoll
         \/ \E q \in Pins : Expire(q)
         \/ UNCHANGED <<timer, expired>> /\ Fuse
<1> USE DEF AtRest
<1>1. ~Alarm
  BY DEF Alarm, DevAlarm
<1>2. ~HandlePress
  BY DEF HandlePress, TakeLatch, AlarmDone, LookAt, CheckLit, Toggle, ToggleStop,
         TimedFindsOff, TimedOn, TimedStart, TimedOff, TimedRetrigger, AllOffTimers,
         LightsOff
<1>3. ASSUME Fuse PROVE UNCHANGED <<timer, expired>>
  BY <1>3 DEF Fuse, FsSwitch, RegRead, DarkSet, RoomDarkSet, MaskAll, Mask, Add, Del, SeesEdit,
              worker
<1> QED BY <1>1, <1>2, <1>3 DEF Next, HandleTimers

LEMMA TickShortens ==
  ASSUME TypeOK, NEW p \in Pins, p \in expired \/ timer[p] \in Nat, Tick
  PROVE  /\ Remains(p)' <= Remains(p)
         /\ p \notin expired /\ timer[p] > 0 => Remains(p)' < Remains(p)
<1>1. expired' = expired /\ timer'[p] = Aged(timer[p])
  BY DEF Tick, TypeOK
<1>2. CASE p \in expired
  BY <1>1, <1>2 DEF Remains
<1>3. CASE p \notin expired
  <2>1. timer[p] \in Nat
    BY <1>3
  <2> QED BY <1>1, <1>3, <2>1 DEF Remains, Aged
<1> QED BY <1>2, <1>3

LEMMA PollShortens ==
  ASSUME TypeOK, Settled, NEW p \in Pins, p \in expired \/ timer[p] \in Nat, TimerPoll
  PROVE  /\ Remains(p)' <= Remains(p)
         /\ timer[p] = 0 => Remains(p)' < Remains(p)
<1>1. expired = {} /\ timer[p] \in Nat
  BY DEF TimerPoll, Settled
<1>2. expired' = {q \in Pins : timer[q] = 0}
  BY DEF TimerPoll, Expired
<1>3. CASE timer[p] = 0
  BY <1>1, <1>2, <1>3 DEF Remains
<1>4. CASE timer[p] # 0
  <2>1. timer'[p] = timer[p] /\ p \notin expired'
    BY <1>2, <1>4 DEF TimerPoll, Expired
  <2> QED BY <1>1, <1>4, <2>1 DEF Remains
<1> QED BY <1>3, <1>4

LEMMA ExpireShortens ==
  ASSUME TypeOK, NEW p \in Pins, NEW q \in Pins, Expire(q), KeepsBurning(p)
  PROVE  p # q /\ Remains(p)' = Remains(p)
<1>1. out'[q] \in {"off", "stuck"}
  BY ActorHandleOut DEF Expire
<1>2. p # q
  BY <1>1 DEF KeepsBurning
<1>3. timer' = timer /\ expired' = expired \ {q}
  BY DEF Expire
<1> QED BY <1>2, <1>3 DEF Remains

\* While no press is handled, an output that a timed switch keeps on has its
\* timer, and that is never set back, whatever users and plugins do, masked or
\* not: every second, the poll once it is at 0 and the access that follows
\* bring it nearer to its end, which is that the output is off, or stuck
\* (timer_poll()).
HasItsTimer ==
  AtRest => \A p \in Pins : out[p] = "timed" => p \in expired \/ timer[p] \in Nat

THEOREM TimedRunsOut ==
  ASSUME ~EditDuringPress, ~RescanDuringPress
  PROVE  Spec => /\ []HasItsTimer
                 /\ [][AtRest /\ AtRest' => \A p \in Pins : KeepsBurning(p) =>
                         /\ Remains(p)' <= Remains(p)
                         /\ Shortens(p) => Remains(p)' < Remains(p)]_vars
<1>1. ASSUME TypeOK, Inv PROVE HasItsTimer
  <2> SUFFICES ASSUME AtRest, NEW p \in Pins, out[p] = "timed"
               PROVE  p \in expired \/ timer[p] \in Nat
    BY DEF HasItsTimer
  <2>1. TimerRunning(p) \/ Pending(p)
    BY <1>1 DEF Inv, TimedHasTimer
  <2>2. Pending(p) => p \in expired
    BY DEF Pending, AtRest
  <2>3. TimerRunning(p) => timer[p] \in Nat
    BY <1>1 DEF TimerRunning, TypeOK
  <2> QED BY <2>1, <2>2, <2>3
<1>2. ASSUME TypeOK, Inv, [Next]_vars, AtRest, AtRest', NEW p \in Pins, KeepsBurning(p)
      PROVE  /\ Remains(p)' <= Remains(p)
             /\ Shortens(p) => Remains(p)' < Remains(p)
  <2>1. p \in expired \/ timer[p] \in Nat
    BY <1>1, <1>2 DEF HasItsTimer, KeepsBurning
  <2>2. Remains(p) \in Nat
    BY <2>1 DEF Remains
  <2>3. Settled
    BY <1>2 DEF Inv
  <2>4. ~Expire(p)
    BY <1>2, ExpireShortens
  <2>5. CASE Tick
    <3>1. ~TimerPoll
      BY <2>5 DEF Tick, TimerPoll
    <3> QED BY <1>2, <2>1, <2>4, <2>5, <3>1, TickShortens DEF Shortens
  <2>6. CASE TimerPoll
    <3>1. ~Tick
      BY <2>6 DEF Tick, TimerPoll
    <3> QED BY <1>2, <2>1, <2>3, <2>4, <2>6, <3>1, PollShortens DEF Shortens
  <2>7. CASE ~Tick /\ ~TimerPoll
    <3>1. Remains(p)' = Remains(p)
      <4>1. ASSUME NEW q \in Pins, Expire(q) PROVE Remains(p)' = Remains(p)
        BY <1>2, <4>1, ExpireShortens
      <4>2. ASSUME UNCHANGED <<timer, expired>> PROVE Remains(p)' = Remains(p)
        BY <4>2 DEF Remains
      <4>3. CASE UNCHANGED vars
        BY <4>2, <4>3 DEF vars
      <4>4. CASE Next
        BY <1>2, <2>7, <4>1, <4>2, <4>4, StepsAtRest
      <4> QED BY <1>2, <4>3, <4>4
    <3> QED BY <2>2, <2>4, <2>7, <3>1 DEF Shortens
  <2> QED BY <2>5, <2>6, <2>7
<1>3. TypeOK /\ Inv /\ [Next]_vars =>
        [AtRest /\ AtRest' => \A p \in Pins : KeepsBurning(p) =>
           /\ Remains(p)' <= Remains(p)
           /\ Shortens(p) => Remains(p)' < Remains(p)]_vars
  BY <1>2
<1> QED BY <1>1, <1>3, Invariance, TypeCorrect, PTL DEF Spec

=============================================================================

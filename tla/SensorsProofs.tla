---------------------------- MODULE SensorsProofs ----------------------------
(***************************************************************************)
(* For any channels, devices, data and number of failures: the bus         *)
(* controller's driver knows what it does (type correctness and            *)
(* ControllerIsRight of Sensors), and what a job reads or writes without   *)
(* an error is its own device's (ReadingsAreTrue, CfgArrives).             *)
(***************************************************************************)
EXTENDS Sensors, TLAPS

\* A state of the controller, its bytes aside
Fields == {"ch", "ptr", "err", "out", "asked", "chan", "real", "busy", "data", "coming",
           "sent", "faults"}
Shape(d) == d = [f \in Fields |-> d[f]]

Typed(d) ==
  /\ Shape(d)
  /\ d.ch \in Channels \cup {NoChannel} /\ d.chan \in 0 .. 7
  /\ d.real \in Pointers /\ d.ptr \in Pointers \cup {"unknown"}
  /\ d.err \in BOOLEAN /\ d.busy \in BOOLEAN
  /\ d.faults \in 0 .. MaxFaults

\* The channel selected and the job of the driver are as they were
SameJob(d, e) == e.ch = d.ch /\ e.chan = d.chan /\ e.asked = d.asked

-----------------------------------------------------------------------------
(***************************************************************************)
(* Transfers                                                               *)
(***************************************************************************)
LEMMA FailedTyped ==
  ASSUME NEW d, Typed(d), MayFail(d)
  PROVE  /\ Typed(Failed(d)) /\ Failed(d).err /\ SameJob(d, Failed(d))
         /\ Failed(d).sent = d.sent /\ Failed(d).coming = d.coming
<1>1. d.faults + 1 \in 0 .. MaxFaults
  BY ControllerAssumption DEF Typed, MayFail
<1> QED BY <1>1 DEF Typed, Shape, Fields, Failed, SameJob

\* Without an error a command is done in the chip, and the driver knows
\* where the read pointer is.
LEMMA CommandDoes ==
  ASSUME NEW d, Typed(d),
         NEW cmd \in {"pointer", "channel", "reset", "byte", "slots"}, NEW x,
         cmd = "pointer" => x \in Pointers, cmd = "channel" => x \in 0 .. 7,
         NEW e \in Command(d, cmd, x)
  PROVE  /\ Typed(e) /\ e.ch = d.ch /\ e.asked = d.asked
         /\ cmd # "channel" => e.chan = d.chan
         /\ cmd \in {"pointer", "channel"} => e.sent = d.sent
         /\ ~e.err =>
              /\ e.real = PtrAfter(cmd, x) /\ e.ptr = e.real
              /\ cmd = "channel" => e.chan = x
              /\ cmd = "slots" => e.coming = x
              /\ cmd = "pointer" => e.data = d.data
              /\ cmd \notin {"pointer", "channel"} => e.sent = [kind |-> cmd, byte |-> x]
<1> DEFINE p == [d EXCEPT !.ptr = PtrAfter(cmd, x)]
<1>1. Typed(p) /\ p.ptr = PtrAfter(cmd, x) /\ p.ch = d.ch /\ p.chan = d.chan
      /\ p.asked = d.asked /\ p.sent = d.sent /\ p.data = d.data /\ p.err = d.err
      /\ p.faults = d.faults /\ p.busy = d.busy
  BY DEF Typed, Shape, Fields, PtrAfter, Pointers
<1> HIDE DEF p
<1> DEFINE q == Chip(p, cmd, x)
<1>2. /\ Typed(q) /\ q.ptr = p.ptr /\ q.real = PtrAfter(cmd, x) /\ q.ch = p.ch
      /\ q.asked = p.asked /\ q.err = p.err /\ q.faults = p.faults
      /\ cmd # "channel" => q.chan = p.chan
      /\ cmd = "channel" => q.chan = x
      /\ cmd \in {"pointer", "channel"} => q.sent = p.sent
      /\ cmd = "slots" => q.coming = x
      /\ cmd = "pointer" => q.data = p.data
      /\ cmd \notin {"pointer", "channel"} => q.sent = [kind |-> cmd, byte |-> x]
  <2>1. CASE cmd = "pointer"
    BY <1>1, <2>1 DEF Typed, Shape, Fields, PtrAfter, Pointers, Chip
  <2>2. CASE cmd = "channel"
    BY <1>1, <2>2 DEF Typed, Shape, Fields, PtrAfter, Pointers, Chip
  <2>3. CASE cmd \notin {"pointer", "channel"}
    <3>1. q = [p EXCEPT !.real = "status", !.busy = TRUE,
                        !.coming = IF cmd = "slots" THEN x ELSE @,
                        !.sent = [kind |-> cmd, byte |-> x]]
      BY <2>3 DEF Chip
    <3> QED BY <1>1, <2>3, <3>1 DEF Typed, Shape, Fields, PtrAfter, Pointers
  <2> QED BY <2>1, <2>2, <2>3
<1> HIDE DEF q
<1>3. \/ e = [p EXCEPT !.err = TRUE]
      \/ e = q
      \/ MayFail(p) /\ e \in {Failed(p), Failed(q)}
  BY <1>1 DEF Command, MayFail, p, q
<1>4. CASE e = [p EXCEPT !.err = TRUE]
  BY <1>1, <1>4 DEF Typed, Shape, Fields
<1>5. CASE e = q
  BY <1>1, <1>2, <1>5
<1>6. CASE MayFail(p) /\ e \in {Failed(p), Failed(q)}
  <2>1. MayFail(q)
    BY <1>1, <1>2, <1>6 DEF MayFail
  <2> QED BY <1>1, <1>2, <1>6, <2>1, FailedTyped DEF SameJob
<1> QED BY <1>3, <1>4, <1>5, <1>6

LEMMA ReadByteDoes ==
  ASSUME NEW d, Typed(d), NEW e \in ReadByte(d)
  PROVE  /\ Typed(e) /\ SameJob(d, e) /\ e.sent = d.sent /\ e.real = d.real
         /\ ~e.err => e.out = Register(d)
<1>1. CASE e = [d EXCEPT !.out = Register(d)]
  BY <1>1 DEF Typed, Shape, Fields, SameJob
<1>2. CASE MayFail(d) /\ e = [Failed(d) EXCEPT !.out = NoAnswer]
  <2>1. Typed(Failed(d)) /\ Failed(d).err /\ SameJob(d, Failed(d))
        /\ Failed(d).sent = d.sent /\ Failed(d).real = d.real
    BY <1>2, FailedTyped DEF Failed, Typed, Shape, Fields
  <2> QED BY <1>2, <2>1 DEF Typed, Shape, Fields, SameJob
<1> QED BY <1>1, <1>2 DEF ReadByte

LEMMA PolledDoes ==
  ASSUME NEW d, Typed(d), NEW e \in Polled(d)
  PROVE  /\ Typed(e) /\ SameJob(d, e) /\ e.sent = d.sent /\ e.coming = d.coming
         /\ ~e.err => e.ptr = d.ptr /\ e.real = d.real
         /\ ~e.err /\ d.real = "status" => e.data = d.coming /\ ~e.busy
<1>1. CASE e = Settled(d)
  BY <1>1 DEF Typed, Shape, Fields, SameJob, Settled
<1>2. CASE e = [d EXCEPT !.err = TRUE]
  BY <1>2 DEF Typed, Shape, Fields, SameJob
<1>3. CASE e = d /\ d.real # "status"
  BY <1>3 DEF SameJob
<1>4. CASE MayFail(d) /\ e = Failed(d)
  BY <1>4, FailedTyped
<1> QED BY <1>1, <1>2, <1>3, <1>4 DEF Polled

-----------------------------------------------------------------------------
(***************************************************************************)
(* Operations                                                              *)
(***************************************************************************)
LEMMA SetReadPtrDoes ==
  ASSUME NEW d, Typed(d), NEW p \in Pointers, NEW e \in SetReadPtr(d, p)
  PROVE  /\ Typed(e) /\ SameJob(d, e) /\ e.sent = d.sent
         /\ ~e.err => e.ptr = p
         /\ ~e.err /\ d.ptr = d.real => e.real = p /\ e.data = d.data
<1>1. CASE e = d /\ d.ptr = p
  BY <1>1 DEF SameJob
<1>2. CASE e \in Command(d, "pointer", p)
  BY <1>2, CommandDoes DEF SameJob, PtrAfter
<1> QED BY <1>1, <1>2 DEF SetReadPtr

\* The wait keeps what was asked for and sent.  After a 1-Wire command that
\* did not fail the pointer is known, and it waits for the chip.
LEMMA BusyWaitDoes ==
  ASSUME NEW d, Typed(d), NEW e \in BusyWait(d)
  PROVE  /\ Typed(e) /\ SameJob(d, e) /\ e.sent = d.sent
         /\ ~e.err /\ d.ptr = "status" /\ d.real = "status" =>
              /\ e.ptr = "status" /\ e.real = "status" /\ e.data = d.coming /\ ~e.busy
<1>1. PICK s \in SetReadPtr(d, "status") : IF s.err THEN e = s ELSE e \in Polled(s)
  BY DEF BusyWait, Then
<1>2. Typed(s) /\ SameJob(d, s) /\ s.sent = d.sent
  BY <1>1, SetReadPtrDoes DEF Pointers
<1>3. d.ptr = "status" => s = d
  BY <1>1 DEF SetReadPtr
<1>4. CASE s.err
  BY <1>1, <1>2, <1>4
<1>5. CASE ~s.err
  <2>1. e \in Polled(s)
    BY <1>1, <1>5
  <2> QED BY <1>2, <1>3, <2>1, PolledDoes DEF SameJob
<1> QED BY <1>4, <1>5

LEMMA AskingTyped ==
  ASSUME NEW d, Typed(d), NEW kind, NEW x
  PROVE  /\ Typed(Asking(d, kind, x))
         /\ Asking(d, kind, x).asked = [kind |-> kind, byte |-> x]
         /\ Asking(d, kind, x).ch = d.ch /\ Asking(d, kind, x).chan = d.chan
         /\ Typed(Forget(d)) /\ Forget(d).ch = d.ch /\ Forget(d).chan = d.chan
         /\ Forget(d).sent = Nothing /\ Forget(d).asked = Nothing
<1>1. /\ Typed(Forget(d)) /\ Forget(d).ch = d.ch /\ Forget(d).chan = d.chan
      /\ Forget(d).sent = Nothing /\ Forget(d).asked = Nothing
  BY DEF Typed, Shape, Fields, Forget
<1>2. ASSUME NEW f, Typed(f)
      PROVE  LET a == [f EXCEPT !.asked = [kind |-> kind, byte |-> x]]
             IN  Typed(a) /\ a.asked = [kind |-> kind, byte |-> x] /\ a.ch = f.ch
                 /\ a.chan = f.chan
  BY <1>2 DEF Typed, Shape, Fields
<1> QED BY <1>1, <1>2 DEF Asking

\* What the operations leave behind: the channel is known, and done is done.
Right(d) == Typed(d) /\ ChannelKnown(d) /\ Done(d)

LEMMA ForgetRight ==
  ASSUME NEW d, Right(d)
  PROVE  Right(Forget(d))
  BY AskingTyped DEF Right, ChannelKnown, Done, Nothing

LEMMA SelectChannelRight ==
  ASSUME NEW d, Right(d), NEW n \in Channels, NEW e \in SelectChannel(d, n)
  PROVE  Right(e) /\ (~e.err => e.ch = n /\ e.sent = Nothing)
<1> n \in 0 .. 7
  BY ControllerAssumption
<1>1. CASE e = Forget(d) /\ d.ch = n
  BY <1>1, ForgetRight, AskingTyped DEF Right
<1>2. CASE d.ch # n
  <2> DEFINE f == Forget(d)
  <2>1. Typed(f) /\ f.sent = Nothing /\ f.asked = Nothing
    BY AskingTyped DEF Right
  <2>2. PICK r \in Then(Then(BusyWait(f), LAMBDA h : Command(h, "channel", n)), ReadByte) :
          e = Checked(r, n)
    BY <1>2 DEF SelectChannel
  <2> HIDE DEF f
  <2>3. PICK s \in Then(BusyWait(f), LAMBDA h : Command(h, "channel", n)) :
          IF s.err THEN r = s ELSE r \in ReadByte(s)
    BY <2>2 DEF Then
  <2>4. PICK b \in BusyWait(f) : IF b.err THEN s = b ELSE s \in Command(b, "channel", n)
    BY <2>3 DEF Then
  <2>5. Typed(b) /\ b.sent = Nothing /\ b.asked = Nothing
    BY <2>1, <2>4, BusyWaitDoes DEF SameJob
  <2>6. /\ Typed(s) /\ s.sent = Nothing /\ s.asked = Nothing
        /\ ~s.err => s.chan = n
    <3>1. CASE b.err
      BY <2>4, <2>5, <3>1
    <3>2. CASE ~b.err
      BY <2>4, <2>5, <3>2, CommandDoes
    <3> QED BY <3>1, <3>2
  <2>7. /\ Typed(r) /\ r.sent = Nothing /\ r.asked = Nothing
        /\ ~r.err => r.chan = n
    <3>1. CASE s.err
      BY <2>3, <2>6, <3>1
    <3>2. CASE ~s.err
      BY <2>3, <2>6, <3>2, ReadByteDoes DEF SameJob
    <3> QED BY <3>1, <3>2
  <2>8. CASE r.err \/ r.out # ChannelCode[n]
    <3>1. e = [r EXCEPT !.ch = NoChannel, !.err = TRUE]
      BY <2>2, <2>8 DEF Checked
    <3> QED BY <2>7, <3>1 DEF Right, Typed, Shape, Fields, ChannelKnown, Done
  <2>9. CASE ~(r.err \/ r.out # ChannelCode[n])
    <3>1. e = [r EXCEPT !.ch = n]
      BY <2>2, <2>9 DEF Checked
    <3> QED BY <2>7, <2>9, <3>1 DEF Right, Typed, Shape, Fields, ChannelKnown, Done, Nothing
  <2> QED BY <2>8, <2>9
<1> QED BY <1>1, <1>2 DEF SelectChannel

\* An operation that starts with the wait and ends with a command
LEMMA Starts ==
  ASSUME NEW d, Right(d), NEW cmd \in {"reset", "byte", "slots"}, NEW x,
         NEW e \in Start(d, cmd, x)
  PROVE  /\ Typed(e) /\ ChannelKnown(e) /\ e.ch = d.ch
         /\ e.asked = [kind |-> cmd, byte |-> x]
         /\ ~e.err =>
              /\ e.sent = e.asked /\ e.real = "status" /\ e.ptr = "status"
              /\ cmd = "slots" => e.coming = x
<1> DEFINE f == Asking(d, cmd, x)
<1>1. Typed(f) /\ f.asked = [kind |-> cmd, byte |-> x] /\ f.ch = d.ch /\ f.chan = d.chan
  BY AskingTyped DEF Right
<1> HIDE DEF f
<1>2. PICK b \in BusyWait(f) : IF b.err THEN e = b ELSE e \in Command(b, cmd, x)
  BY DEF Start, Then, f
<1>3. Typed(b) /\ SameJob(f, b)
  BY <1>1, <1>2, BusyWaitDoes
<1>4. CASE b.err
  BY <1>1, <1>2, <1>3, <1>4 DEF SameJob, Right, ChannelKnown
<1>5. CASE ~b.err
  <2>1. /\ Typed(e) /\ e.ch = b.ch /\ e.asked = b.asked /\ e.chan = b.chan
        /\ ~e.err => /\ e.real = PtrAfter(cmd, x) /\ e.ptr = e.real
                     /\ cmd = "slots" => e.coming = x
                     /\ e.sent = [kind |-> cmd, byte |-> x]
    BY <1>2, <1>3, <1>5, CommandDoes
  <2> QED BY <1>1, <1>3, <2>1 DEF SameJob, Right, ChannelKnown, PtrAfter
<1> QED BY <1>4, <1>5

LEMMA ResetRight ==
  ASSUME NEW d, Right(d), NEW e \in Reset(d)
  PROVE  Right(e) /\ e.ch = d.ch /\ (~e.err => e.sent = [kind |-> "reset", byte |-> 0])
<1>1. PICK s \in Start(d, "reset", 0) :
        IF s.err THEN e = s ELSE e \in BusyWait(s)
  BY DEF Reset, Then
<1>2. /\ Typed(s) /\ ChannelKnown(s) /\ s.ch = d.ch
      /\ s.asked = [kind |-> "reset", byte |-> 0]
      /\ ~s.err => s.sent = s.asked
  BY <1>1, Starts
<1>3. CASE s.err
  BY <1>1, <1>2, <1>3 DEF Right, Done
<1>4. CASE ~s.err
  <2>1. Typed(e) /\ SameJob(s, e) /\ e.sent = s.sent
    BY <1>1, <1>2, <1>4, BusyWaitDoes
  <2> QED BY <1>2, <1>4, <2>1 DEF Right, Done, SameJob, ChannelKnown
<1> QED BY <1>3, <1>4

LEMMA WriteRight ==
  ASSUME NEW d, Right(d), NEW x, NEW e \in Write(d, x)
  PROVE  Right(e) /\ e.ch = d.ch /\ (~e.err => e.sent = [kind |-> "byte", byte |-> x])
<1>1. /\ Typed(e) /\ ChannelKnown(e) /\ e.ch = d.ch /\ e.asked = [kind |-> "byte", byte |-> x]
      /\ ~e.err => e.sent = e.asked
  BY Starts DEF Write
<1> QED BY <1>1 DEF Right, Done

LEMMA ReadRight ==
  ASSUME NEW d, Right(d), NEW x, NEW e \in Read(d, x)
  PROVE  /\ Right(e) /\ e.ch = d.ch
         /\ ~e.err => e.sent = [kind |-> "slots", byte |-> x] /\ e.out = x
<1> DEFINE asks == [kind |-> "slots", byte |-> x]
<1>1. PICK t \in Then(Start(d, "slots", x), WaitForData) :
        IF t.err THEN e = [t EXCEPT !.out = NoAnswer]
                 ELSE \E p \in SetReadPtr(t, "data") : e \in ReadByte(p)
  BY DEF Read
<1>2. PICK s \in Start(d, "slots", x) : IF s.err THEN t = s ELSE t \in BusyWait(s)
  BY <1>1 DEF Then, WaitForData
<1>3. /\ Typed(s) /\ ChannelKnown(s) /\ s.ch = d.ch /\ s.asked = asks
      /\ ~s.err => s.sent = s.asked /\ s.real = "status" /\ s.ptr = "status" /\ s.coming = x
  BY <1>2, Starts
<1>4. /\ Typed(t) /\ ChannelKnown(t) /\ t.ch = d.ch /\ t.asked = asks
      /\ ~t.err => t.sent = t.asked /\ t.real = "status" /\ t.ptr = "status" /\ t.data = x
  <2>1. CASE s.err
    BY <1>2, <1>3, <2>1
  <2>2. CASE ~s.err
    <3>1. t \in BusyWait(s)
      BY <1>2, <2>2
    <3> QED BY <1>3, <2>2, <3>1, BusyWaitDoes DEF SameJob, ChannelKnown
  <2> QED BY <2>1, <2>2
<1>5. CASE t.err
  BY <1>1, <1>4, <1>5 DEF Right, Done, Typed, Shape, Fields, ChannelKnown
<1>6. CASE ~t.err
  <2>1. PICK p \in SetReadPtr(t, "data") : e \in ReadByte(p)
    BY <1>1, <1>6
  <2>2. /\ Typed(p) /\ SameJob(t, p) /\ p.sent = t.sent
        /\ ~p.err => p.real = "data" /\ p.data = x
    BY <1>4, <1>6, <2>1, SetReadPtrDoes DEF Pointers
  <2>3. /\ Typed(e) /\ SameJob(p, e) /\ e.sent = p.sent
        /\ ~e.err => ~p.err /\ e.out = Register(p)
    BY <2>1, <2>2, ReadByteDoes DEF ReadByte, Failed, Typed, Shape, Fields
  <2> QED
    BY <1>4, <1>6, <2>2, <2>3 DEF Right, Done, SameJob, ChannelKnown, Register
<1> QED BY <1>5, <1>6

-----------------------------------------------------------------------------
(***************************************************************************)
(* The controller in a run                                                 *)
(***************************************************************************)
\* What the driver knows of it holds between any two operations.
Inv == Right(c) /\ cur \in Devs \cup {Nobody}

LEMMA InitInv == Init => Inv
  BY ControllerAssumption
     DEF Init, Inv, Right, Typed, Shape, Fields, ChannelKnown, Done, NewController, Nothing, Pointers

\* Any operation of any program: without an error it is done, and only that
\* on the channel changes the channel.
LEMMA OperationDoes ==
  ASSUME Right(c), cur \in Devs, NEW x \in Operations
  PROVE  /\ Right(x)
         /\ Op.do # "channel" => x.ch = c.ch
         /\ ~x.err =>
              /\ Op.do = "channel" => x.ch = ChannelOf[cur] /\ x.sent = Nothing
              /\ Op.do \in {"reset", "end"} => x.sent = [kind |-> "reset", byte |-> 0]
              /\ Op.do = "match" => x.sent = [kind |-> "byte", byte |-> Match]
              /\ Op.do = "rom" => x.sent = [kind |-> "byte", byte |-> RomOf(cur)]
              /\ Op.do = "write" => x.sent = [kind |-> "byte", byte |-> Op.byte]
              /\ Op.do = "read" =>
                   \E b \in Answers : x.sent = [kind |-> "slots", byte |-> b] /\ x.out = b
<1>1. ChannelOf[cur] \in Channels
  BY SensorsAssumption
<1>2. CASE Op.do = "channel"
  <2>1. x \in SelectChannel(c, ChannelOf[cur])
    BY <1>2 DEF Operations
  <2> QED BY <1>1, <1>2, <2>1, SelectChannelRight
<1>3. CASE Op.do \in {"reset", "end"}
  <2>1. x \in Reset(c)
    BY <1>3 DEF Operations
  <2> QED BY <1>3, <2>1, ResetRight
<1>4. CASE Op.do = "match"
  <2>1. x \in Write(c, Match)
    BY <1>4 DEF Operations
  <2> QED BY <1>4, <2>1, WriteRight
<1>5. CASE Op.do = "rom"
  <2>1. CASE c.err
    <3>1. x = [c EXCEPT !.sent = Nothing]
      BY <1>5, <2>1 DEF Operations
    <3> QED BY <1>5, <2>1, <3>1 DEF Right, Typed, Shape, Fields, ChannelKnown, Done
  <2>2. CASE ~c.err
    <3>1. x \in Write(c, RomOf(cur))
      BY <1>5, <2>2 DEF Operations
    <3> QED BY <1>5, <3>1, WriteRight
  <2> QED BY <2>1, <2>2
<1>6. CASE Op.do = "write"
  <2>1. x \in Write(c, Op.byte)
    BY <1>6 DEF Operations
  <2> QED BY <1>6, <2>1, WriteRight
<1>7. CASE Op.do \notin {"channel", "reset", "end", "match", "rom", "write"}
  <2>1. PICK b \in Answers : x \in Read(c, b)
    BY <1>7 DEF Operations
  <2>2. /\ Right(x) /\ x.ch = c.ch
        /\ ~x.err => x.sent = [kind |-> "slots", byte |-> b] /\ x.out = b
    BY <2>1, ReadRight
  <2> QED BY <1>7, <2>2
<1> QED BY <1>2, <1>3, <1>4, <1>5, <1>6, <1>7

LEMMA NextInv == Inv /\ [Next]_vars => Inv'
<1> SUFFICES ASSUME Inv, [Next]_vars PROVE Inv'
  OBVIOUS
<1>1. CASE ReadTemp \/ ReadVolt \/ ReadConfig \/ WriteConfig
  BY <1>1 DEF Inv, ReadTemp, ReadVolt, ReadConfig, WriteConfig, Begin
<1>2. ASSUME NEW d \in Devs, TakeBus(d) PROVE Inv'
  BY <1>2 DEF Inv, TakeBus
<1>3. CASE Operate
  <2>1. cur \in Devs
    BY <1>3 DEF Inv, Operate, Running
  <2>2. PICK x \in Operations : c' = x /\ cur' \in {cur, Nobody}
    BY <1>3 DEF Operate, Leave
  <2> QED BY <2>1, <2>2, OperationDoes DEF Inv
<1>4. CASE Finish
  <2>1. c' = Forget(c) /\ cur' = Nobody
    BY <1>4 DEF Finish, Leave
  <2> QED BY <2>1, ForgetRight DEF Inv
<1>5. CASE Converted \/ ComeOrGo
  BY <1>5 DEF Inv, Converted, ComeOrGo
<1>6. CASE UNCHANGED vars
  BY <1>6 DEF Inv, vars
<1> QED BY <1>1, <1>2, <1>3, <1>4, <1>5, <1>6 DEF Next, Bus

-----------------------------------------------------------------------------
(***************************************************************************)
(* The programs                                                            *)
(***************************************************************************)
JobTyped(d) ==
  \/ Idle(d)
  \/ /\ <<d, job[d].kind>> \in Jobs
     /\ job[d] = [kind |-> job[d].kind, part |-> job[d].part, arg |-> job[d].arg]
     /\ job[d].part \in 1 .. 2
     /\ job[d].kind = "volt" => job[d].arg \in Inputs
     /\ job[d].kind = "cfgwrite" => job[d].arg \in CfgData

LEMMA Sizes == CfgSize \in Nat /\ CfgSize >= 2 /\ InputCount \in 1 .. 4
  BY SensorsAssumption

LEMMA CfgDataIs ==
  ASSUME NEW data \in CfgData
  PROVE  data \in Seq(0 .. 254) /\ Len(data) \in 1 .. CfgSize
<1>1. data \in UNION {[1 .. n -> 0 .. 254] : n \in 1 .. CfgSize}
  BY SensorsAssumption
<1>2. PICK n \in 1 .. CfgSize : data \in [1 .. n -> 0 .. 254]
  BY <1>1
<1> QED BY <1>2, Sizes

LEMMA JobKinds ==
  ASSUME NEW d \in Devs, JobTyped(d), ~Idle(d)
  PROVE  /\ job[d].kind \in {"temp", "volt", "cfgread", "cfgwrite"}
         /\ job[d].kind = "temp" => d = T
         /\ job[d].kind = "volt" => d = A
  BY SensorsAssumption DEF JobTyped, Devs

\* the fifth operation of a program sends the command, the others after it
\* read or write
Transaction(p) ==
  /\ Len(p) \in Nat /\ Len(p) >= 5
  /\ p[1].do = "channel" /\ p[2].do = "reset" /\ p[3].do = "match" /\ p[4].do = "rom"
  /\ p[5].do = "write"
  /\ \A n \in 6 .. Len(p) : p[n].do \in {"read", "write", "end"} /\ (n < Len(p) => p[n].do # "end")

LEMMA StartTempIs == Transaction(StartTemp)
  BY DEF Transaction, StartTemp, Selecting, Send, ConvertT
LEMMA FetchTempIs ==
  /\ Transaction(FetchTemp) /\ Len(FetchTemp) = 7 /\ FetchTemp[5].byte = ReadScratch
  /\ \A n \in 6 .. 7 : FetchTemp[n].do = "read"
  BY DEF Transaction, FetchTemp, Selecting, Send, Receive
LEMMA ConvertInputIs == ASSUME NEW i PROVE Transaction(ConvertInput(i))
  BY DEF Transaction, ConvertInput, Selecting, Send, Ending, ConvertV
LEMMA FetchVoltsIs ==
  /\ Transaction(FetchVolts) /\ Len(FetchVolts) = InputCount + 6
  /\ FetchVolts[5].byte = ReadVolts
  /\ \A n \in 6 .. InputCount + 5 : FetchVolts[n].do = "read"
  /\ FetchVolts[InputCount + 6].do = "end"
  BY Sizes DEF Transaction, FetchVolts, Selecting, Send, Receive, Ending
LEMMA CfgReadIs ==
  /\ Transaction(CfgRead) /\ Len(CfgRead) = CfgSize + 4 /\ CfgRead[5].byte = ReadCfg
  /\ \A n \in 6 .. CfgSize + 4 : CfgRead[n].do = "read"
  BY Sizes DEF Transaction, CfgRead, Selecting, Send, Receive
LEMMA CfgWriteIs ==
  ASSUME NEW data \in CfgData
  PROVE  /\ Transaction(CfgWrite(data)) /\ Len(CfgWrite(data)) = Len(data) + 4
         /\ CfgWrite(data)[5].byte = WriteCfg
         /\ \A n \in 6 .. Len(data) + 4 :
              CfgWrite(data)[n].do = "write" /\ CfgWrite(data)[n].byte = data[n - 5]
  BY CfgDataIs, Sizes DEF Transaction, CfgWrite, Selecting, Send

LEMMA ProgramIs ==
  ASSUME NEW d \in Devs, JobTyped(d), ~Idle(d)
  PROVE  LET j == job[d]
             p == Program(j)
         IN  /\ Transaction(p)
             /\ j.kind = "temp" /\ j.part = 2 => p = FetchTemp
             /\ j.kind = "volt" /\ j.part = 2 => p = FetchVolts
             /\ j.kind = "cfgread" => p = CfgRead
             /\ j.kind = "cfgwrite" => p = CfgWrite(j.arg)
<1>1. job[d].kind = "cfgwrite" => Transaction(CfgWrite(job[d].arg))
  BY CfgWriteIs DEF JobTyped
<1>2. job[d].part = 2 => ~(job[d].part = 1)
  OBVIOUS
<1> QED
  BY <1>1, <1>2, JobKinds, StartTempIs, FetchTempIs, ConvertInputIs, FetchVoltsIs, CfgReadIs DEF Program

-----------------------------------------------------------------------------
(***************************************************************************)
(* A transaction without an error, step by step                            *)
(***************************************************************************)

\* Of the others on the channel of d, none is further than s
Others(d, s) ==
  \A e \in Devs \ {d} : Hears(e, ChannelOf[d]) => wire[e].at \in {s, "lost"}

\* m bytes of v are read from d, from the sixth step on
Reads(d, s, v, m) ==
  /\ step <= m + 6 => wire[d] = [at |-> s, n |-> step - 6] /\ Len(got) = step - 6
  /\ step > m + 6 => Len(got) = m
  /\ \A n \in 1 .. Len(got) : got[n] = v[n]

Body(d) ==
  LET j == job[d] IN
  /\ j.kind = "temp" /\ j.part = 2 => Reads(d, "pad", pad, 2)
  /\ j.kind = "volt" /\ j.part = 2 => Reads(d, "volts", volts, InputCount)
  /\ j.kind = "cfgread" => Reads(d, "readcfg", rom[d], CfgSize - 1)
  /\ j.kind = "cfgwrite" => /\ wire[d] = [at |-> "writecfg", n |-> step - 6]
                            /\ \A n \in 1 .. step - 6 : rom[d][n] = j.arg[n]

Following(d) ==
  /\ step <= Len(Program(job[d])) + 1
  /\ step > 1 => c.ch = ChannelOf[d]
  /\ step <= 6 => got = <<>>
  /\ step = 3 => wire[d].at = "rom" /\ Others(d, "rom")
  /\ step = 4 => wire[d].at = "match" /\ Others(d, "match")
  /\ step = 5 => wire[d].at = "function"
  /\ step \in 5 .. Len(Program(job[d])) => Others(d, "lost")
  /\ step > 5 => Body(d)

\* What all jobs keep, and that what one has taken over is its device's
Flow ==
  /\ job = [d \in Devs |-> job[d]] /\ \A d \in Devs : JobTyped(d)
  /\ wire = [d \in Devs |-> wire[d]]
  /\ pad \in Temps
  /\ clean \in [Devs -> BOOLEAN] /\ here \in BOOLEAN
  /\ clean[A] => here
  /\ \E S : got \in Seq(S)
  /\ step \in Nat \ {0}
  /\ cur # Nobody => ~Idle(cur) /\ (clean[cur] => Following(cur))
  /\ ReadingsAreTrue /\ CfgArrives

LEMMA ReactedIs ==
  ASSUME NEW d, NEW s, NEW sent
  PROVE  /\ sent = Nothing => Reacted(d, s, sent) = s
         /\ sent.kind = "reset" => Reacted(d, s, sent) = At("rom")
         /\ sent.kind = "slots" =>
              Reacted(d, s, sent) = IF Speaking(s) THEN [s EXCEPT !.n = @ + 1] ELSE s
         /\ sent.kind = "byte" => Reacted(d, s, sent) = Received(d, s, sent.byte)
  BY DEF Reacted, Nothing

LEMMA ReceivedIs ==
  ASSUME NEW d \in Devs, NEW s, NEW b
  PROVE  /\ s.at = "lost" => Received(d, s, b) = Lost
         /\ s.at = "rom" => Received(d, s, Match) = At("match")
         /\ s.at = "match" => Received(d, s, b) = IF b = RomOf(d) THEN At("function") ELSE Lost
         /\ s.at = "function" =>
              /\ d = T => Received(d, s, ReadScratch) = At("pad")
              /\ d = A => Received(d, s, ReadVolts) = At("volts")
              /\ Received(d, s, ReadCfg) = At("readcfg")
              /\ Received(d, s, WriteCfg) = At("writecfg")
         /\ s.at = "writecfg" => Received(d, s, b) = [s EXCEPT !.n = @ + 1]
  BY SensorsAssumption
     DEF Received, Match, ReadScratch, ReadVolts, ReadCfg, WriteCfg, ConvertV, Devs

LEMMA SentOnChannel ==
  ASSUME NEW d \in Devs, There(d), NEW x, x.chan = ChannelOf[d], OnWire(x), UNCHANGED here
  PROVE  /\ wire'[d] = Reacted(d, wire[d], x.sent)
         /\ \A e \in Devs : Hears(e, ChannelOf[d]) => wire'[e] = Reacted(e, wire[e], x.sent)
         /\ x.sent.kind # "byte" => volts' = volts
         /\ \A n \in 1 .. CfgSize :
              rom'[d][n] = IF x.sent.kind = "byte" /\ wire[d].at = "writecfg" /\ n = wire[d].n + 1
                             THEN x.sent.byte ELSE rom[d][n]
  BY DEF OnWire, Hears

LEMMA Answering ==
  ASSUME NEW d \in Devs, There(d), c.chan = ChannelOf[d], Speaking(wire[d]), Others(d, "lost")
  PROVE  Answers = {Answer(d, wire[d])}
  BY DEF Answers, Others, Hears, Speaking

LEMMA AppendDoes ==
  ASSUME NEW S, NEW s \in Seq(S), NEW v
  PROVE  /\ Append(s, v) \in Seq(S \cup {v}) /\ Len(Append(s, v)) = Len(s) + 1
         /\ \A n \in 1 .. Len(s) : Append(s, v)[n] = s[n]
         /\ Append(s, v)[Len(s) + 1] = v
  OBVIOUS

LEMMA OperateFollows ==
  ASSUME NEW d \in Devs, cur = d, Inv, Flow, Operate, clean'[d]
  PROVE  /\ UNCHANGED <<cur, job, here, pad, clean>> /\ taken' = None
         /\ (\E S : got' \in Seq(S)) /\ step' = step + 1
         /\ Following(d)'
<1>1. /\ cur = d /\ d \in Devs /\ cur # Nobody /\ ~Idle(d) /\ JobTyped(d)
      /\ step \in Nat \ {0} /\ step <= Len(Program(job[d]))
  BY SensorsAssumption DEF Inv, Flow, Operate, Running
<1> DEFINE p == Program(job[d])
<1>2. PICK x \in Operations, presence \in Presence :
        /\ c' = x /\ OnWire(x)
        /\ clean' = [clean EXCEPT ![cur] = @ /\ ~NoChannelFor(x) /\ ~x.err]
        /\ IF GivesUp(x, presence)
             THEN GivenUp /\ Leave
             ELSE /\ step' = step + 1
                  /\ got' = IF Op.do = "read" THEN Append(got, x.out) ELSE got
                  /\ UNCHANGED <<job, cur>> /\ taken' = None
  BY DEF Operate
<1>3. clean[d] /\ ~NoChannelFor(x) /\ ~x.err /\ UNCHANGED <<here, pad, clean>>
  BY <1>1, <1>2 DEF Flow, Operate
<1>4. Following(d) /\ There(d)
  BY <1>1, <1>3 DEF Flow, There, Devs
<1>5. ~GivesUp(x, presence)
  <2>1. job[d].kind = "volt" => presence = TRUE
    BY <1>1, <1>3, JobKinds DEF Flow, Presence
  <2> QED BY <1>3, <2>1 DEF GivesUp
<1>6. /\ step' = step + 1 /\ UNCHANGED <<job, cur>> /\ taken' = None
      /\ got' = IF Op.do = "read" THEN Append(got, x.out) ELSE got
  BY <1>2, <1>5
<1>7. Right(x) /\ x.ch = ChannelOf[d] /\ x.chan = ChannelOf[d]
  <2>1. Right(x) /\ (Op.do # "channel" => x.ch = c.ch)
    BY <1>1, OperationDoes DEF Inv
  <2>2. x.ch = ChannelOf[d]
    <3>1. CASE step = 1
      BY <1>1, <1>3, <3>1, ProgramIs DEF NoChannelFor, Op, Transaction
    <3>2. CASE step # 1
      <4>1. Op.do # "channel"
        <5>1. Transaction(p)
          BY <1>1, ProgramIs
        <5> QED BY <1>1, <3>2, <5>1 DEF Op, Transaction
      <4> QED BY <1>1, <1>4, <2>1, <3>2, <4>1 DEF Following
    <3> QED BY <3>1, <3>2
  <2> QED BY <1>1, <2>1, <2>2, SensorsAssumption, ControllerAssumption DEF Right, ChannelKnown
<1>8. /\ wire'[d] = Reacted(d, wire[d], x.sent)
      /\ \A e \in Devs : Hears(e, ChannelOf[d]) => wire'[e] = Reacted(e, wire[e], x.sent)
      /\ \A e : Hears(e, ChannelOf[d])' <=> Hears(e, ChannelOf[d])
      /\ x.sent.kind # "byte" => volts' = volts
      /\ \A n \in 1 .. CfgSize :
           rom'[d][n] = IF x.sent.kind = "byte" /\ wire[d].at = "writecfg" /\ n = wire[d].n + 1
                          THEN x.sent.byte ELSE rom[d][n]
  <2>1. \A e : Hears(e, ChannelOf[d])' <=> Hears(e, ChannelOf[d])
    BY <1>3, <1>6 DEF Hears, There
  <2> QED BY <1>1, <1>2, <1>3, <1>4, <1>7, <2>1, SentOnChannel
<1>9. /\ Op.do \in {"reset", "end"} => x.sent.kind = "reset"
      /\ Op.do = "channel" => x.sent = Nothing
      /\ Op.do = "match" => x.sent.kind = "byte" /\ x.sent.byte = Match
      /\ Op.do = "rom" => x.sent.kind = "byte" /\ x.sent.byte = RomOf(d)
      /\ Op.do = "write" => x.sent.kind = "byte" /\ x.sent.byte = Op.byte
      /\ Op.do = "read" => x.sent.kind = "slots" /\ x.out \in Answers
  <2>1. ASSUME Op.do = "read" PROVE x.sent.kind = "slots" /\ x.out \in Answers
    <3>1. PICK b \in Answers : x.sent = [kind |-> "slots", byte |-> b] /\ x.out = b
      BY <1>1, <1>3, <2>1, OperationDoes DEF Inv
    <3> QED BY <3>1
  <2> QED BY <1>1, <1>3, <2>1, OperationDoes DEF Inv
<1>10. Transaction(p)
  BY <1>1, ProgramIs
<1>11. (\E S : got' \in Seq(S)) /\ (Op.do # "read" => got' = got)
  <2>1. PICK S : got \in Seq(S)
    BY DEF Flow
  <2>2. Append(got, x.out) \in Seq(S \cup {x.out})
    BY <2>1, AppendDoes
  <2> QED BY <1>6, <2>1, <2>2
<1>12. step > 1 => c.chan = ChannelOf[d]
  BY <1>1, <1>4, SensorsAssumption, ControllerAssumption DEF Following, Inv, Right, ChannelKnown
<1>13. Following(d)'
  <2>0. p' = p /\ c'.ch = ChannelOf[d] /\ step' <= Len(p) + 1
    BY <1>1, <1>2, <1>6, <1>7, <1>10 DEF Transaction
  <2>1. CASE step = 1
    <3>1. Op.do = "channel"
      BY <2>1, <1>10 DEF Op, Transaction
    <3> QED BY <2>0, <2>1, <3>1, <1>4, <1>6, <1>10, <1>11 DEF Following, Transaction
  <2>2. CASE step = 2
    <3>1. Op.do = "reset"
      BY <2>2, <1>10 DEF Op, Transaction
    <3>2. \A e \in Devs : Hears(e, ChannelOf[d]) => wire'[e].at = "rom"
      BY <3>1, <1>8, <1>9, ReactedIs DEF At
    <3>3. wire'[d].at = "rom"
      BY <3>1, <1>8, <1>9, ReactedIs DEF At
    <3> QED BY <2>0, <2>2, <3>1, <3>2, <3>3, <1>4, <1>6, <1>8, <1>10, <1>11
            DEF Following, Transaction, Others
  <2>3. CASE step = 3
    <3>1. Op.do = "match"
      BY <2>3, <1>10 DEF Op, Transaction
    <3>2. \A e \in Devs \ {d} : Hears(e, ChannelOf[d]) => wire'[e].at \in {"match", "lost"}
      BY <3>1, <2>3, <1>4, <1>8, <1>9, ReactedIs, ReceivedIs DEF Following, Others, At, Lost
    <3>3. wire'[d].at = "match"
      BY <3>1, <2>3, <1>1, <1>4, <1>8, <1>9, ReactedIs, ReceivedIs DEF Following, At
    <3> QED BY <2>0, <2>3, <3>1, <3>2, <3>3, <1>4, <1>6, <1>8, <1>10, <1>11
            DEF Following, Transaction, Others
  <2>4. CASE step = 4
    <3>1. Op.do = "rom"
      BY <2>4, <1>10 DEF Op, Transaction
    <3>2. \A e \in Devs \ {d} : RomOf(e) # RomOf(d)
      BY <1>1 DEF RomOf, Devs
    <3>3. \A e \in Devs \ {d} : Hears(e, ChannelOf[d]) => wire'[e].at = "lost"
      BY <3>1, <3>2, <2>4, <1>4, <1>8, <1>9, ReactedIs, ReceivedIs DEF Following, Others, Lost
    <3>4. wire'[d].at = "function"
      BY <3>1, <2>4, <1>1, <1>4, <1>8, <1>9, ReactedIs, ReceivedIs DEF Following, At
    <3> QED BY <2>0, <2>4, <3>1, <3>3, <3>4, <1>4, <1>6, <1>8, <1>10, <1>11
            DEF Following, Transaction, Others
  <2>5. CASE step = 5
    <3>1. Op.do = "write" /\ Others(d, "lost")
      BY <2>5, <1>4, <1>10 DEF Op, Transaction, Following
    <3>2. \A e \in Devs \ {d} : Hears(e, ChannelOf[d]) => wire'[e].at = "lost"
      BY <3>1, <1>8, <1>9, ReactedIs, ReceivedIs DEF Others, Lost
    <3>3. step' = 6 /\ got' = <<>> /\ JobTyped(d)' /\ job' = job
      BY <3>1, <2>5, <1>1, <1>4, <1>6, <1>11 DEF Following, JobTyped, Idle
    <3>4. wire[d].at = "function" /\ wire'[d] = Received(d, wire[d], p[5].byte)
      BY <3>1, <2>5, <1>4, <1>8, <1>9, ReactedIs DEF Following, Op
    <3>5. Body(d)'
      <4>1. CASE job[d].kind = "temp" /\ job[d].part = 2
        <5>1. wire'[d] = At("pad")
          BY <3>4, <4>1, <1>1, ProgramIs, FetchTempIs, JobKinds, ReceivedIs
        <5> QED BY <5>1, <3>3, <4>1 DEF Body, Reads, At
      <4>2. CASE job[d].kind = "volt" /\ job[d].part = 2
        <5>1. wire'[d] = At("volts")
          BY <3>4, <4>2, <1>1, ProgramIs, FetchVoltsIs, JobKinds, ReceivedIs
        <5> QED BY <5>1, <3>3, <4>2, Sizes DEF Body, Reads, At
      <4>3. CASE job[d].kind = "cfgread"
        <5>1. wire'[d] = At("readcfg")
          BY <3>4, <4>3, <1>1, ProgramIs, CfgReadIs, ReceivedIs
        <5> QED BY <5>1, <3>3, <4>3, Sizes DEF Body, Reads, At
      <4>4. CASE job[d].kind = "cfgwrite"
        <5>1. wire'[d] = At("writecfg")
          BY <3>4, <4>4, <1>1, ProgramIs, CfgWriteIs, ReceivedIs DEF JobTyped
        <5> QED BY <5>1, <3>3, <4>4 DEF Body, At
      <4> QED BY <3>3, <4>1, <4>2, <4>3, <4>4 DEF Body
    <3> QED BY <2>0, <2>5, <3>1, <3>2, <3>5, <1>4, <1>6, <1>8, <1>10, <1>11
            DEF Following, Transaction, Others
  <2>6. CASE step > 5
    <3>1. /\ Op.do \in {"write", "read", "end"} /\ Others(d, "lost")
          /\ step < Len(p) => Op.do \in {"write", "read"}
      BY <1>1, <1>4, <1>10, <2>6 DEF Op, Transaction, Following
    <3>2. ASSUME step < Len(p), NEW e \in Devs \ {d}, Hears(e, ChannelOf[d])
          PROVE  wire'[e].at = "lost"
      <4>1. wire[e].at = "lost" /\ wire'[e] = Reacted(e, wire[e], x.sent)
        BY <3>1, <3>2, <1>8 DEF Others
      <4>2. x.sent.kind \in {"byte", "slots"}
        BY <3>1, <3>2, <1>9
      <4>3. CASE x.sent.kind = "byte"
        BY <4>1, <4>3, ReactedIs, ReceivedIs DEF Lost
      <4>4. CASE x.sent.kind = "slots"
        <5>1. ~Speaking(wire[e])
          BY <4>1 DEF Speaking
        <5> QED BY <4>1, <4>4, <5>1, ReactedIs
      <4> QED BY <4>2, <4>3, <4>4
    <3>3. Body(d) /\ job' = job /\ step' = step + 1
      BY <2>6, <1>4, <1>6 DEF Following
    <3>4. ASSUME NEW s \in {"pad", "volts", "readcfg"}, NEW v, NEW m \in Nat,
                 Reads(d, s, v, m), step <= m + 5, Op.do = "read",
                 Answer(d, wire[d]) = v[step - 5]
          PROVE  /\ wire'[d] = [at |-> s, n |-> step' - 6] /\ Len(got') = step' - 6
                 /\ \A n \in 1 .. Len(got') : got'[n] = v[n]
      <4>1. wire[d] = [at |-> s, n |-> step - 6] /\ Len(got) = step - 6
        BY <3>4, <1>1 DEF Reads
      <4>2. Speaking(wire[d])
        BY <4>1 DEF Speaking
      <4>3. x.out = v[step - 5]
        BY <4>2, <3>1, <3>4, <2>6, <1>1, <1>4, <1>9, <1>12, Answering
      <4>4. wire'[d] = [wire[d] EXCEPT !.n = @ + 1]
        BY <4>2, <3>4, <1>8, <1>9, ReactedIs
      <4>5. PICK S : got \in Seq(S)
        BY DEF Flow
      <4>6. got' = Append(got, v[step - 5])
        BY <4>3, <3>4, <1>6
      <4> QED BY <4>1, <4>4, <4>5, <4>6, <3>3, <3>4, <2>6, <1>1, AppendDoes DEF Reads
    <3>5. Body(d)'
      <4>0. step \in Nat /\ step >= 6 /\ step' \in Nat
        BY <1>1, <2>6, <3>3
      <4>1. CASE job[d].kind = "temp" /\ job[d].part = 2
        <5>1. Reads(d, "pad", pad, 2) /\ p = FetchTemp /\ step <= 7 /\ Op.do = "read"
          <6>1. Reads(d, "pad", pad, 2) /\ p = FetchTemp
            BY <4>1, <3>3, <1>1, ProgramIs DEF Body
          <6> QED BY <6>1, <4>0, <1>1, FetchTempIs DEF Op
        <5>2. Answer(d, wire[d]) = pad[step - 5]
          BY <4>0, <5>1 DEF Reads, Answer
        <5>3. /\ wire'[d] = [at |-> "pad", n |-> step' - 6] /\ Len(got') = step' - 6
              /\ \A n \in 1 .. Len(got') : got'[n] = pad[n]
          BY <5>1, <5>2, <3>4
        <5>4. Reads(d, "pad", pad, 2)'
          BY <5>1, <5>3, <4>0, <3>3, <1>3 DEF Reads
        <5> QED BY <5>4, <4>1, <3>3 DEF Body
      <4>2. CASE job[d].kind = "volt" /\ job[d].part = 2
        <5>1. /\ Reads(d, "volts", volts, InputCount) /\ p = FetchVolts
              /\ step <= InputCount + 6
          BY <4>0, <4>2, <3>3, <1>1, ProgramIs, FetchVoltsIs DEF Body
        <5>2. CASE step <= InputCount + 5
          <6>1. Op.do = "read" /\ Answer(d, wire[d]) = volts[step - 5] /\ volts' = volts
            <7>1. Op.do = "read"
              BY <4>0, <5>1, <5>2, <1>1, FetchVoltsIs DEF Op
            <7>2. Answer(d, wire[d]) = volts[step - 5]
              <8>1. wire[d] = [at |-> "volts", n |-> step - 6]
                BY <4>0, <5>1, <5>2, Sizes DEF Reads
              <8>2. step - 6 + 1 = step - 5 /\ step - 5 \in 1 .. InputCount
                BY ONLY <4>0, <5>2, Sizes
              <8> QED BY ONLY <8>1, <8>2 DEF Answer, Inputs
            <7> QED BY <7>1, <7>2, <1>8, <1>9
          <6>2. /\ wire'[d] = [at |-> "volts", n |-> step' - 6] /\ Len(got') = step' - 6
                /\ \A n \in 1 .. Len(got') : got'[n] = volts[n]
            BY <5>1, <5>2, <6>1, <3>4, Sizes
          <6> QED BY <5>2, <6>1, <6>2, <4>0, <4>2, <3>3, Sizes DEF Body, Reads
        <5>3. CASE step = InputCount + 6
          <6>1. Op.do = "end" /\ volts' = volts /\ got' = got
            <7>1. Op.do = "end"
              BY <5>1, <5>3, <1>1, FetchVoltsIs DEF Op
            <7> QED BY <7>1, <1>8, <1>9, <1>11
          <6> QED BY <5>1, <5>3, <6>1, <4>0, <4>2, <3>3, Sizes DEF Body, Reads
        <5> QED BY <5>1, <5>2, <5>3, <4>0, Sizes
      <4>3. CASE job[d].kind = "cfgread"
        <5>1. /\ Reads(d, "readcfg", rom[d], CfgSize - 1) /\ p = CfgRead
              /\ step <= CfgSize + 4 /\ Op.do = "read"
          BY <4>0, <4>3, <3>3, <1>1, ProgramIs, CfgReadIs DEF Body, Op
        <5>2. Answer(d, wire[d]) = rom[d][step - 5]
          BY <4>0, <5>1, Sizes DEF Reads, Answer
        <5>3. /\ wire'[d] = [at |-> "readcfg", n |-> step' - 6] /\ Len(got') = step' - 6
              /\ \A n \in 1 .. Len(got') : got'[n] = rom[d][n]
          <6>1. CfgSize - 1 \in Nat /\ step <= (CfgSize - 1) + 5
            BY <5>1, <4>0, Sizes
          <6> QED BY <5>1, <5>2, <6>1, <3>4
        <5>4. \A n \in 1 .. CfgSize : rom'[d][n] = rom[d][n]
          BY <5>1, <1>8, <1>9
        <5>5. \A n \in 1 .. Len(got') : got'[n] = rom'[d][n]
          <6>1. step' = step + 1 /\ Len(got') = step' - 6 /\ step <= CfgSize + 4
            BY <5>1, <5>3, <3>3
          <6>2. \A n \in 1 .. Len(got') : n \in 1 .. CfgSize
            BY ONLY <6>1, <4>0, Sizes
          <6> QED BY ONLY <5>3, <5>4, <6>2
        <5>6. Reads(d, "readcfg", rom[d], CfgSize - 1)'
          <6>1. ~(step' > (CfgSize - 1) + 6)
            BY <5>1, <4>0, <3>3, Sizes
          <6> QED BY ONLY <5>3, <5>5, <6>1 DEF Reads
        <5> QED BY <5>6, <4>3, <3>3 DEF Body
      <4>4. CASE job[d].kind = "cfgwrite"
        <5> DEFINE data == job[d].arg
        <5>1. /\ wire[d] = [at |-> "writecfg", n |-> step - 6]
              /\ \A n \in 1 .. step - 6 : rom[d][n] = data[n]
              /\ data \in CfgData /\ p = CfgWrite(data)
          BY <4>4, <3>3, <1>1, ProgramIs DEF Body, JobTyped
        <5>2. /\ step <= Len(data) + 4 /\ Len(data) \in 1 .. CfgSize
              /\ Op.do = "write" /\ Op.byte = data[step - 5]
          <6>1. Len(data) \in 1 .. CfgSize /\ step <= Len(data) + 4
            BY <5>1, <1>1, CfgDataIs, CfgWriteIs
          <6>2. step \in 6 .. Len(data) + 4
            BY <6>1, <4>0, Sizes
          <6>3. p[step].do = "write" /\ p[step].byte = data[step - 5]
            BY <5>1, <6>2, CfgWriteIs
          <6> QED BY <6>1, <6>3, <1>1 DEF Op
        <5>3. wire'[d] = [at |-> "writecfg", n |-> step' - 6]
          BY <5>1, <5>2, <3>3, <1>1, <1>8, <1>9, ReactedIs, ReceivedIs
        <5>4. \A n \in 1 .. step' - 6 : rom'[d][n] = data[n]
          BY <5>1, <5>2, <4>0, <3>3, <1>8, <1>9, Sizes
        <5> QED BY <5>3, <5>4, <4>4, <3>3 DEF Body
      <4> QED BY <3>3, <4>1, <4>2, <4>3, <4>4 DEF Body
    <3> QED BY <2>0, <2>6, <3>1, <3>2, <3>5, <1>1, <1>4, <1>6, <1>8, <1>10, <1>11
            DEF Following, Transaction, Others
  <2> QED BY <1>1, <2>1, <2>2, <2>3, <2>4, <2>5, <2>6
<1> QED BY <1>3, <1>6, <1>11, <1>13

LEMMA NoneIsTrue ==
  ASSUME taken' = None
  PROVE  (ReadingsAreTrue /\ CfgArrives)'
  BY DEF ReadingsAreTrue, CfgArrives, None

LEMMA InitFlow == Init => Flow
<1> SUFFICES ASSUME Init PROVE Flow
  OBVIOUS
<1>1. ReadingsAreTrue /\ CfgArrives
  BY DEF Init, ReadingsAreTrue, CfgArrives, None
<1>2. \A d \in Devs : JobTyped(d)
  BY DEF Init, JobTyped, Idle
<1>3. got \in Seq({})
  BY DEF Init
<1>4. A \in Devs
  BY DEF Devs
<1> QED BY <1>1, <1>2, <1>3, <1>4 DEF Init, Flow

LEMMA BeginFlow ==
  ASSUME Flow, NEW d \in Devs, NEW k, NEW x, Begin(d, k, x),
         k = "volt" => x \in Inputs, k = "cfgwrite" => x \in CfgData
  PROVE  Flow'
<1>1. /\ job' = [job EXCEPT ![d] = [kind |-> k, part |-> 1, arg |-> x]]
      /\ clean' = [clean EXCEPT ![d] = There(d)] /\ taken' = None
      /\ UNCHANGED <<c, device, cur, step, got>>
      /\ <<d, k>> \in Jobs /\ cur = Nobody
  BY DEF Begin
<1>2. \A e \in Devs : JobTyped(e)'
  <2> TAKE e \in Devs
  <2>1. CASE e = d
    <3>1. job'[e] = [kind |-> k, part |-> 1, arg |-> x]
      BY <1>1, <2>1 DEF Flow
    <3> QED BY <1>1, <2>1, <3>1 DEF JobTyped
  <2>2. CASE e # d
    BY <1>1, <2>2 DEF Flow, JobTyped, Idle
  <2> QED BY <2>1, <2>2
<1>3. clean' \in [Devs -> BOOLEAN] /\ (clean'[A] => here')
  BY <1>1, SensorsAssumption DEF Flow, There, device, Devs
<1>4. job' = [e \in Devs |-> job'[e]]
  BY <1>1 DEF Flow
<1> QED BY <1>1, <1>2, <1>3, <1>4, NoneIsTrue DEF Flow, device

LEMMA TakeBusFlow ==
  ASSUME Flow, NEW d \in Devs, TakeBus(d)
  PROVE  Flow'
<1>1. /\ cur' = d /\ step' = 1 /\ got' = <<>> /\ taken' = None /\ ~Idle(d)
      /\ UNCHANGED <<c, device, job, clean>>
  BY DEF TakeBus
<1>2. Following(d)'
  <2>1. Transaction(Program(job[d]))
    BY <1>1, ProgramIs DEF Flow
  <2> QED BY <1>1, <2>1 DEF Following, Transaction
<1>3. \A e \in Devs : JobTyped(e)'
  BY <1>1 DEF Flow, JobTyped, Idle
<1>4. got' \in Seq({})
  BY <1>1
<1> QED BY <1>1, <1>2, <1>3, <1>4, NoneIsTrue DEF Flow, device, Idle

\* The job that is given up or ended keeps its type, and so do the others.
LEMMA JobEnds ==
  ASSUME Flow, cur \in Devs, ~Idle(cur), NextPart \/ Over
  PROVE  job' = [d \in Devs |-> job'[d]] /\ \A d \in Devs : JobTyped(d)'
<1>1. PICK j \in {NoJob, [job[cur] EXCEPT !.part = 2]} : job' = [job EXCEPT ![cur] = j]
  BY DEF NextPart, Over
<1>2. ASSUME NEW d \in Devs PROVE JobTyped(d)'
  <2>1. CASE d # cur
    BY <1>1, <2>1 DEF Flow, JobTyped, Idle
  <2>2. CASE d = cur /\ j = NoJob
    BY <1>1, <2>2 DEF Flow, JobTyped, Idle
  <2>3. CASE d = cur /\ j # NoJob
    <3>1. j = [kind |-> job[d].kind, part |-> 2, arg |-> job[d].arg] /\ job'[d] = j
      BY <1>1, <2>3 DEF Flow, JobTyped
    <3> QED BY <2>3, <3>1 DEF Flow, JobTyped
  <2> QED BY <1>1, <2>1, <2>2, <2>3
<1> QED BY <1>1, <1>2 DEF Flow

LEMMA OperateFlow ==
  ASSUME Inv, Flow, Operate
  PROVE  Flow'
<1>1. cur \in Devs /\ cur # Nobody /\ ~Idle(cur)
  BY SensorsAssumption DEF Inv, Flow, Operate, Running
<1>2. PICK x \in Operations :
        /\ OnWire(x)
        /\ clean' = [clean EXCEPT ![cur] = @ /\ ~NoChannelFor(x) /\ ~x.err]
        /\ \/ GivenUp /\ Leave
           \/ /\ step' = step + 1
              /\ got' = IF Op.do = "read" THEN Append(got, x.out) ELSE got
              /\ UNCHANGED <<job, cur>> /\ taken' = None
  BY DEF Operate
<1>3. UNCHANGED <<pad, here>>
  BY DEF Operate
<1>4. wire' = [d \in Devs |-> wire'[d]]
  BY <1>2 DEF OnWire
<1>5. clean' \in [Devs -> BOOLEAN] /\ (clean'[A] => here')
  BY <1>1, <1>2, <1>3 DEF Flow, Devs
<1>6. CASE clean'[cur]
  <2>1. /\ UNCHANGED <<cur, job, here, pad, clean>> /\ taken' = None
        /\ (\E S : got' \in Seq(S)) /\ step' = step + 1
        /\ Following(cur)'
    <3>1. PICK d \in Devs : d = cur
      BY <1>1
    <3>2. /\ UNCHANGED <<cur, job, here, pad, clean>> /\ taken' = None
          /\ (\E S : got' \in Seq(S)) /\ step' = step + 1
          /\ Following(d)'
      BY <1>6, <3>1, OperateFollows
    <3> QED BY <3>1, <3>2
  <2>2. \A d \in Devs : JobTyped(d)'
    BY <2>1 DEF Flow, JobTyped, Idle
  <2> QED BY <1>1, <1>4, <1>5, <2>1, <2>2, NoneIsTrue DEF Flow, Idle
<1>7. CASE ~clean'[cur] /\ GivenUp /\ Leave
  <2>1. /\ cur' = Nobody /\ step' = 1 /\ got' = <<>>
        /\ NextPart \/ Over
        /\ taken' = None \/ taken'.of = cur
    BY <1>7 DEF GivenUp, Leave, NextPart, Take
  <2>2. (ReadingsAreTrue /\ CfgArrives)'
    BY <1>7, <2>1, NoneIsTrue DEF ReadingsAreTrue, CfgArrives
  <2>3. job' = [d \in Devs |-> job'[d]] /\ \A d \in Devs : JobTyped(d)'
    BY <1>1, <2>1, JobEnds
  <2>4. got' \in Seq({})
    BY <2>1
  <2> QED BY <1>3, <1>4, <1>5, <2>1, <2>2, <2>3, <2>4 DEF Flow
<1>8. CASE /\ ~clean'[cur] /\ step' = step + 1
           /\ got' = IF Op.do = "read" THEN Append(got, x.out) ELSE got
           /\ UNCHANGED <<job, cur>> /\ taken' = None
  <2>1. \E S : got' \in Seq(S)
    <3>1. PICK S : got \in Seq(S)
      BY DEF Flow
    <3>2. Append(got, x.out) \in Seq(S \cup {x.out})
      BY <3>1, AppendDoes
    <3> QED BY <1>8, <3>1, <3>2
  <2>2. \A d \in Devs : JobTyped(d)'
    BY <1>8 DEF Flow, JobTyped, Idle
  <2>3. step' \in Nat \ {0}
    BY <1>8 DEF Flow
  <2>4. cur' = cur /\ job' = job /\ ~clean'[cur'] /\ taken' = None
    BY <1>8
  <2> QED BY <1>1, <1>3, <1>4, <1>5, <2>1, <2>2, <2>3, <2>4, NoneIsTrue DEF Flow, Idle
<1> QED BY <1>2, <1>6, <1>7, <1>8

LEMMA FinishFlow ==
  ASSUME Inv, Flow, Finish
  PROVE  Flow'
<1>1. /\ cur \in Devs /\ ~Idle(cur) /\ JobTyped(cur) /\ step \in Nat \ {0}
      /\ step > Len(Program(job[cur])) /\ Transaction(Program(job[cur]))
  <2>1. cur \in Devs /\ ~Idle(cur) /\ JobTyped(cur)
    BY DEF Inv, Flow, Finish
  <2>2. Transaction(Program(job[cur]))
    BY <2>1, ProgramIs
  <2> QED BY <2>1, <2>2 DEF Flow, Finish, Running, Transaction
<1>2. /\ cur' = Nobody /\ step' = 1 /\ got' = <<>> /\ UNCHANGED <<device, clean>>
      /\ NextPart \/ Over
  BY DEF Finish, Leave
<1>3. job' = [d \in Devs |-> job'[d]] /\ \A d \in Devs : JobTyped(d)'
  BY <1>1, <1>2, JobEnds
<1>4. got' \in Seq({})
  BY <1>2
<1>5. \/ taken' = None
      \/ /\ Take(Result(job[cur]))
         /\ job[cur].kind \in {"temp", "volt"} => job[cur].part = 2
  BY <1>1 DEF Finish, NextPart, JobTyped
<1>6. ASSUME Take(Result(job[cur])), job[cur].kind \in {"temp", "volt"} => job[cur].part = 2
      PROVE  (ReadingsAreTrue /\ CfgArrives)'
  <2> DEFINE j == job[cur]
  <2>1. /\ taken'.of = cur /\ taken'.kind = j.kind /\ taken'.arg = j.arg
        /\ taken'.value = Result(j)
    BY <1>6 DEF Take
  <2>2. ASSUME clean[cur]
        PROVE  /\ j.kind = "temp" => got = pad
               /\ j.kind = "volt" => got[j.arg] = volts[j.arg]
               /\ j.kind = "cfgread" => \A n \in 1 .. CfgSize - 1 : got[n] = rom[cur][n]
               /\ j.kind = "cfgwrite" =>
                    \A n \in 1 .. CfgSize - 1 : n < Len(j.arg) => rom[cur][n] = j.arg[n]
    <3>1. /\ step = Len(Program(j)) + 1 /\ Body(cur) /\ step >= 6
          /\ j.kind \in {"temp", "volt"} => j.part = 2
      <4>1. Following(cur)
        BY <2>2 DEF Flow, Finish
      <4> QED BY <4>1, <1>1, <1>6 DEF Following, Transaction
    <3>2. ASSUME j.kind = "temp" PROVE got = pad
      <4>1. Reads(cur, "pad", pad, 2) /\ Program(j) = FetchTemp
        BY <3>1, <3>2, <1>1, ProgramIs DEF Body
      <4>2. Len(got) = 2 /\ got[1] = pad[1] /\ got[2] = pad[2]
        <5>1. step = 8
          BY <3>1, <4>1, FetchTempIs
        <5>2. Len(got) = 2 /\ \A n \in 1 .. Len(got) : got[n] = pad[n]
          BY <4>1, <5>1 DEF Reads
        <5>3. \A n \in 1 .. 2 : got[n] = pad[n]
          BY <5>2
        <5> QED BY <5>2, <5>3
      <4>3. PICK S : got \in Seq(S)
        BY DEF Flow
      <4> QED BY <4>2, <4>3, SensorsAssumption DEF Flow
    <3>3. ASSUME j.kind = "volt" PROVE got[j.arg] = volts[j.arg]
      <4>1. Reads(cur, "volts", volts, InputCount) /\ Program(j) = FetchVolts
        BY <3>1, <3>3, <1>1, ProgramIs DEF Body
      <4>2. Len(got) = InputCount /\ j.arg \in 1 .. InputCount
        BY <3>1, <3>3, <4>1, <1>1, FetchVoltsIs, Sizes DEF Reads, JobTyped, Inputs
      <4> QED BY <4>1, <4>2 DEF Reads
    <3>4. ASSUME j.kind = "cfgread" PROVE \A n \in 1 .. CfgSize - 1 : got[n] = rom[cur][n]
      <4>1. Reads(cur, "readcfg", rom[cur], CfgSize - 1) /\ Program(j) = CfgRead
        BY <3>1, <3>4, <1>1, ProgramIs DEF Body
      <4> QED BY <3>1, <4>1, CfgReadIs, Sizes DEF Reads
    <3>5. ASSUME j.kind = "cfgwrite"
          PROVE  \A n \in 1 .. CfgSize - 1 : n < Len(j.arg) => rom[cur][n] = j.arg[n]
      <4>1. j.arg \in CfgData /\ Program(j) = CfgWrite(j.arg)
        BY <3>5, <1>1, ProgramIs DEF JobTyped
      <4>2. step = Len(j.arg) + 5 /\ Len(j.arg) \in 1 .. CfgSize
        BY <3>1, <4>1, CfgWriteIs, CfgDataIs
      <4>3. \A n \in 1 .. step - 6 : rom[cur][n] = j.arg[n]
        BY <3>1, <3>5 DEF Body
      <4> QED BY <4>2, <4>3, Sizes
    <3> QED BY <3>2, <3>3, <3>4, <3>5
  <2>3. UNCHANGED <<pad, volts, rom, clean>>
    BY <1>2 DEF device
  <2>4. ReadingsAreTrue'
    BY <1>1, <2>1, <2>2, <2>3 DEF ReadingsAreTrue, Result
  <2>5. CfgArrives'
    <3>1. j.kind = "cfgread" => taken'.value = got
      BY <2>1 DEF Result
    <3>2. j.kind = "cfgwrite" => taken'.value = j.arg
      BY <2>1 DEF Result
    <3>3. CASE j.kind = "cfgread"
      BY <3>1, <3>3, <2>1, <2>2, <2>3 DEF CfgArrives
    <3>4. CASE j.kind = "cfgwrite"
      BY <3>2, <3>4, <2>1, <2>2, <2>3 DEF CfgArrives
    <3> QED BY <3>3, <3>4, <2>1 DEF CfgArrives
  <2> QED BY <2>4, <2>5
<1>7. (ReadingsAreTrue /\ CfgArrives)'
  BY <1>5, <1>6, NoneIsTrue
<1> QED BY <1>2, <1>3, <1>4, <1>7 DEF Flow, device

LEMMA ConvertedFlow ==
  ASSUME Inv, Flow, Converted
  PROVE  Flow'
<1>1. /\ cur \in {Nobody, T} /\ pad' \in Temps /\ taken' = None
      /\ clean' = [clean EXCEPT ![T] = @ /\ cur # T]
      /\ UNCHANGED <<c, wire, volts, rom, here, job, cur, step, got>>
  BY DEF Converted
<1>2. clean' \in [Devs -> BOOLEAN] /\ clean'[A] = clean[A] /\ (cur = T => ~clean'[T])
  <2>1. clean \in [Devs -> BOOLEAN]
    BY DEF Flow
  <2>2. A \in Devs /\ T \in Devs /\ A # T
    BY SensorsAssumption DEF Devs
  <2> QED BY ONLY <1>1, <2>1, <2>2
<1>3. \A d \in Devs : JobTyped(d)'
  BY <1>1 DEF Flow, JobTyped, Idle
<1>4. cur # Nobody => ~Idle(cur)' /\ (clean'[cur] => Following(cur)')
  <2> SUFFICES ASSUME cur # Nobody PROVE ~Idle(cur)' /\ (clean'[cur] => Following(cur)')
    OBVIOUS
  <2>1. cur = T /\ ~Idle(T) /\ ~clean'[T]
    BY <1>1, <1>2 DEF Flow
  <2>2. job' = job /\ cur' = cur
    BY <1>1
  <2> QED BY ONLY <2>1, <2>2 DEF Idle
<1> QED BY <1>1, <1>2, <1>3, <1>4, NoneIsTrue DEF Flow, Idle

LEMMA ComeOrGoFlow ==
  ASSUME Inv, Flow, ComeOrGo
  PROVE  Flow'
<1>1. /\ here' = ~here /\ wire' = [wire EXCEPT ![A] = Lost] /\ taken' = None
      /\ clean' = [clean EXCEPT ![A] = FALSE]
      /\ UNCHANGED <<c, pad, converting, volts, rom, job, cur, step, got>>
  BY DEF ComeOrGo
<1>2. clean' \in [Devs -> BOOLEAN] /\ ~clean'[A] /\ here' \in BOOLEAN
      /\ wire' = [d \in Devs |-> wire'[d]]
  BY <1>1 DEF Flow, Devs
<1>3. ASSUME cur = T, clean'[T] PROVE Following(T)'
  <2>1. Following(T)
    BY <1>1, <1>3, SensorsAssumption DEF Flow, Devs
  <2>2. wire'[T] = wire[T] /\ wire'[A].at = "lost"
    BY <1>1, SensorsAssumption DEF Flow, Devs, Lost
  <2>3. \A s : Others(T, s)'
    BY <2>2 DEF Others, Devs
  <2>4. Body(T) => Body(T)'
    BY <1>1, <2>2 DEF Body, Reads
  <2> QED BY <1>1, <2>1, <2>2, <2>3, <2>4 DEF Following
<1>4. \A d \in Devs : JobTyped(d)'
  BY <1>1 DEF Flow, JobTyped, Idle
<1>5. cur \in {T, A, Nobody}
  BY DEF Inv, Devs
<1> QED BY <1>1, <1>2, <1>3, <1>4, <1>5, NoneIsTrue DEF Flow, Idle

LEMMA NextFlow == Inv /\ Flow /\ [Next]_vars => Flow'
<1> SUFFICES ASSUME Inv, Flow, [Next]_vars PROVE Flow'
  OBVIOUS
<1> A \in Devs /\ T \in Devs
  BY DEF Devs
<1>1. CASE ReadTemp
  BY <1>1, BeginFlow DEF ReadTemp
<1>2. CASE ReadVolt
  BY <1>2, BeginFlow DEF ReadVolt
<1>3. CASE ReadConfig
  BY <1>3, BeginFlow DEF ReadConfig
<1>4. CASE WriteConfig
  BY <1>4, BeginFlow DEF WriteConfig
<1>5. ASSUME NEW d \in Devs, TakeBus(d) PROVE Flow'
  BY <1>5, TakeBusFlow
<1>6. CASE Operate
  BY <1>6, OperateFlow
<1>7. CASE Finish
  BY <1>7, FinishFlow
<1>8. CASE Converted
  BY <1>8, ConvertedFlow
<1>9. CASE ComeOrGo
  BY <1>9, ComeOrGoFlow
<1>10. CASE UNCHANGED vars
  <2> USE <1>10 DEF vars, device
  <2>1. \A d \in Devs : JobTyped(d)'
    BY DEF Flow, JobTyped, Idle
  <2>2. cur # Nobody /\ clean[cur] => Following(cur)'
    BY DEF Flow, Following, Others, Hears, There, Body, Reads
  <2>3. (ReadingsAreTrue /\ CfgArrives)'
    BY DEF Flow, ReadingsAreTrue, CfgArrives
  <2> QED BY <2>1, <2>2, <2>3 DEF Flow, Idle
<1> QED BY <1>1, <1>2, <1>3, <1>4, <1>5, <1>6, <1>7, <1>8, <1>9, <1>10 DEF Next, Bus

-----------------------------------------------------------------------------
(***************************************************************************)
(* Theorems                                                                *)
(***************************************************************************)
THEOREM Invariant == Spec => []Inv
  BY InitInv, NextInv, PTL DEF Spec

\* The controller and the bus keep their types, however often transfers fail.
THEOREM TypeCorrect == Spec => []TypeOK
<1>1. Inv => TypeOK
  BY DEF Inv, Right, Typed, TypeOK
<1> QED BY <1>1, Invariant, PTL

\* For any channels, any devices and any number of failures: a channel taken
\* for selected is selected, and an operation without last_err was done.
THEOREM DriverIsRight == Spec => []ControllerIsRight
<1>1. Inv => ControllerIsRight
  BY DEF Inv, Right, ControllerIsRight
<1> QED BY <1>1, Invariant, PTL

\* A transaction without an error is followed by the devices, step by step.
THEOREM FlowInvariant == Spec => []Flow
  BY InitFlow, NextFlow, Invariant, PTL DEF Spec

\* A value taken over without an error is the device's own, on any channels:
\* of all that is sent and lost between, nothing reaches another device.
THEOREM ReadingsRight == Spec => []ReadingsAreTrue
<1>1. Flow => ReadingsAreTrue
  BY DEF Flow
<1> QED BY <1>1, FlowInvariant, PTL

\* Of a configuration of any length all but the last byte arrives.
THEOREM ConfigurationArrives == Spec => []CfgArrives
<1>1. Flow => CfgArrives
  BY DEF Flow
<1> QED BY <1>1, FlowInvariant, PTL
=============================================================================

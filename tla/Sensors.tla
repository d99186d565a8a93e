------------------------------ MODULE Sensors ------------------------------
(***************************************************************************)
(* A temperature sensor (src/ds1820.cpp), the A/D converter that answers   *)
(* beside an owSlave (src/ds2450.cpp) and their configuration bytes, read  *)
(* and written through the bus controller of Ds2482.                       *)
(*                                                                         *)
(* A job is a read or write of a device's file, or its poll, under the     *)
(* device lock; its transactions are under the bus mutex, and the other    *)
(* device may come between two of them.  A step is one operation of the    *)
(* controller, as the job's program has them.                              *)
(***************************************************************************)
EXTENDS Ds2482

CONSTANTS
  T, A,        \* the ds1820 and the ds2450, also the names of their jobs
  Nobody,
  ChannelOf,   \* the channel each is on
  Temps,       \* what T measures: least and most significant byte
  Volts,       \* what A measures
  InputCount,  \* A's inputs: 4, A .. D
  CfgData,     \* what is written to the configuration
  CfgSize,     \* DS1820_CFG_SIZE, DS2408_CFG_SIZE
  Jobs         \* the jobs there are: a device and "temp", "volt", "cfgread", "cfgwrite"

Devs == {T, A}
Inputs == 1 .. InputCount

ASSUME SensorsAssumption ==
  /\ T # A /\ Nobody \notin Devs
  /\ ChannelOf \in [Devs -> Channels]
  /\ Temps \subseteq (0 .. 255) \X (0 .. 255)
  /\ Volts \subseteq 0 .. 254
  /\ CfgData \subseteq UNION {[1 .. n -> 0 .. 254] : n \in 1 .. CfgSize}
  /\ InputCount \in 1 .. 4
  /\ CfgSize \in Nat \ {0, 1}
  /\ Jobs \subseteq {<<T, "temp">>, <<A, "volt">>} \cup (Devs \X {"cfgread", "cfgwrite"})

\* 1-Wire commands
Match == 85
ConvertT == 68
ReadScratch == 190
ReadCfg == 133
WriteCfg == 134
ConvertV == 60
ReadVolts == 170

\* the eight bytes of a rom are one, that of the family
RomOf(d) == IF d = T THEN 40 ELSE 32

VARIABLES
  c,        \* the controller
  wire,     \* what each device expects on its channel: at, and how far, n
  pad,      \* T's scratchpad: the last conversion
  converting, \* T is at it
  volts,    \* A's conversion results
  rom,      \* the configuration each device has
  here,     \* is A there?
  job,      \* each device's job
  cur, step,\* the device whose transaction it is, and how far it is
  got,      \* the bytes read in it
  clean,    \* did no operation of each job report an error, is its device there,
            \* and did no conversion end while it was read?
  taken     \* what the job that has just ended takes over as the device's value

device == <<wire, pad, converting, volts, rom, here>>
vars == <<c, device, job, cur, step, got, clean, taken>>

NoJob == [kind |-> "none", part |-> 0, arg |-> 0]
None == [of |-> Nobody, kind |-> "none", arg |-> 0, value |-> 0]

Init ==
  /\ c = NewController
  /\ wire = [d \in Devs |-> [at |-> "lost", n |-> 0]]
  /\ pad \in Temps /\ converting = FALSE
  /\ volts = [i \in Inputs |-> 0]
  /\ rom = [d \in Devs |-> [n \in 1 .. CfgSize |-> 0]]
  /\ here = TRUE
  /\ job = [d \in Devs |-> NoJob]
  /\ cur = Nobody /\ step = 1 /\ got = <<>>
  /\ clean = [d \in Devs |-> TRUE]
  /\ taken = None

-----------------------------------------------------------------------------
(***************************************************************************)
(* The devices on the wire.  All on a channel hear what is sent there.  A  *)
(* job's start, a device's coming or going and the end of a conversion     *)
(* during a transaction on another channel are left out: between           *)
(* transactions they do the same.                                          *)
(***************************************************************************)

Lost == [at |-> "lost", n |-> 0]
At(s) == [at |-> s, n |-> 0]

\* a byte for a device that expects s
Received(d, s, b) ==
  CASE s.at = "rom" /\ b = Match -> At("match")
    [] s.at = "match" -> IF b = RomOf(d) THEN At("function") ELSE Lost
    [] s.at = "function" /\ d = T /\ b = ReadScratch -> At("pad")
    [] s.at = "function" /\ d = A /\ b = ConvertV -> At("convert")
    [] s.at = "function" /\ d = A /\ b = ReadVolts -> At("volts")
    [] s.at = "function" /\ b = ReadCfg -> At("readcfg")
    [] s.at = "function" /\ b = WriteCfg -> At("writecfg")
    [] s.at = "writecfg" -> [s EXCEPT !.n = @ + 1]
    [] OTHER -> Lost

\* what it answers to a read
Answer(d, s) ==
  CASE s.at = "pad" /\ s.n < 2 -> pad[s.n + 1]
    [] s.at = "volts" /\ s.n + 1 \in Inputs -> volts[s.n + 1]
    [] s.at = "readcfg" /\ s.n < CfgSize -> rom[d][s.n + 1]
    [] OTHER -> NoAnswer

There(d) == d = T \/ here
Hears(d, n) == ChannelOf[d] = n /\ There(d)
Speaking(s) == s.at \in {"pad", "volts", "readcfg"}

\* what a read may find: two speak at once only after an error
Answers == LET ds == {d \in Devs : Hears(d, c.chan) /\ Speaking(wire[d])} IN
  IF ds = {} THEN {NoAnswer} ELSE {Answer(d, wire[d]) : d \in ds}

Reacted(d, s, sent) ==
  CASE sent = Nothing -> s
    [] sent.kind = "reset" -> At("rom")
    [] sent.kind = "slots" -> IF Speaking(s) THEN [s EXCEPT !.n = @ + 1] ELSE s
    [] OTHER -> Received(d, s, sent.byte)

\* what the operation that leaves the controller in x does on the wire
OnWire(x) ==
  LET Takes(d, s) == Hears(d, x.chan) /\ x.sent.kind = "byte" /\ wire[d].at = s
      b == x.sent.byte
  IN
  /\ wire' = [d \in Devs |-> IF Hears(d, x.chan) THEN Reacted(d, wire[d], x.sent) ELSE wire[d]]
  /\ converting' = (converting \/ (Takes(T, "function") /\ b = ConvertT))
  /\ volts' \in IF Takes(A, "convert")
                  THEN {[i \in Inputs |-> IF i = b THEN v ELSE volts[i]] : v \in Volts}
                  ELSE {volts}
  /\ rom' = [d \in Devs |->
       [n \in 1 .. CfgSize |-> IF Takes(d, "writecfg") /\ n = wire[d].n + 1 THEN b ELSE rom[d][n]]]

\* up to 750 ms after it was asked for: no one waits for that, and a reading
\* may mix two conversions (its CRC is not looked at)
Converted ==
  /\ converting /\ cur \in {Nobody, T}
  /\ converting' = FALSE /\ pad' \in Temps
  /\ clean' = [clean EXCEPT ![T] = @ /\ cur # T]
  /\ taken' = None
  /\ UNCHANGED <<c, wire, volts, rom, here, job, cur, step, got>>

\* the owSlave restarts, or is taken off the wire
ComeOrGo ==
  /\ cur \in {Nobody, A} \/ ChannelOf[T] = ChannelOf[A]
  /\ here' = ~here
  /\ wire' = [wire EXCEPT ![A] = Lost]
  /\ clean' = [clean EXCEPT ![A] = FALSE]
  /\ taken' = None
  /\ UNCHANGED <<c, pad, converting, volts, rom, job, cur, step, got>>

-----------------------------------------------------------------------------
(***************************************************************************)
(* The programs                                                            *)
(***************************************************************************)

Send(s) == [n \in DOMAIN s |-> [do |-> "write", byte |-> s[n]]]
Receive(m) == [n \in 1 .. m |-> [do |-> "read", byte |-> 0]]
Selecting == <<[do |-> "channel", byte |-> 0], [do |-> "reset", byte |-> 0],
               [do |-> "match", byte |-> 0], [do |-> "rom", byte |-> 0]>>
\* the A/D converter waits for a reset at the end
Ending == <<[do |-> "end", byte |-> 0]>>

\* temp_read(0), temp_read(1): of the nine bytes, the two of the temperature
StartTemp == Selecting \o Send(<<ConvertT>>)
FetchTemp == Selecting \o Send(<<ReadScratch>>) \o Receive(2)
\* adc_read(i, 0), adc_read(i, 1): the input as a bit of the mask; all
\* inputs are read, here a byte for the two of each
ConvertInput(i) == Selecting \o Send(<<ConvertV, i>>) \o Ending
FetchVolts == Selecting \o Send(<<ReadVolts>>) \o Receive(InputCount) \o Ending
CfgRead == Selecting \o Send(<<ReadCfg>>) \o Receive(CfgSize - 1)
FromSecond(data) == Selecting \o Send(<<WriteCfg>> \o Tail(data))    \* mutant
CfgWrite(data) == Selecting \o Send(<<WriteCfg>> \o SubSeq(data, 1, Len(data) - 1))

Program(j) ==
  CASE j.kind = "temp" -> IF j.part = 1 THEN StartTemp ELSE FetchTemp
    [] j.kind = "volt" -> IF j.part = 1 THEN ConvertInput(j.arg) ELSE FetchVolts
    [] j.kind = "cfgread" -> CfgRead
    [] j.kind = "cfgwrite" -> CfgWrite(j.arg)
    [] OTHER -> <<>>

-----------------------------------------------------------------------------
(***************************************************************************)
(* Jobs                                                                    *)
(***************************************************************************)

Idle(d) == job[d] = NoJob

Begin(d, k, x) ==
  /\ Idle(d) /\ <<d, k>> \in Jobs /\ cur = Nobody
  /\ job' = [job EXCEPT ![d] = [kind |-> k, part |-> 1, arg |-> x]]
  /\ clean' = [clean EXCEPT ![d] = There(d)]
  /\ taken' = None
  /\ UNCHANGED <<c, device, cur, step, got>>

ReadTemp == Begin(T, "temp", 0)
ReadVolt == \E i \in Inputs : Begin(A, "volt", i)
ReadConfig == \E d \in Devs : Begin(d, "cfgread", 0)
WriteConfig == \E d \in Devs, data \in CfgData : Begin(d, "cfgwrite", data)

TakeBus(d) ==
  /\ cur = Nobody /\ ~Idle(d)
  /\ cur' = d /\ step' = 1 /\ got' = <<>>
  /\ taken' = None
  /\ UNCHANGED <<c, device, job, clean>>

Op == Program(job[cur])[step]
Running == cur # Nobody /\ step <= Len(Program(job[cur]))

\* an operation; select() stops at its first error, the rest of a
\* transaction goes on
Operations ==
  CASE Op.do = "channel" -> SelectChannel(c, ChannelOf[cur])
    [] Op.do \in {"reset", "end"} -> Reset(c)
    [] Op.do = "match" -> Write(c, Match)
    [] Op.do = "rom" -> IF c.err THEN {[c EXCEPT !.sent = Nothing]} ELSE Write(c, RomOf(cur))
    [] Op.do = "write" -> Write(c, Op.byte)
    [] OTHER -> UNION {Read(c, b) : b \in Answers}

\* A reset is answered by any device of the channel; there may be others.
Presence == {here, TRUE}

\* the transaction is given up: no channel, and for the A/D converter also
\* a reset without an answer
NoChannelFor(x) == Op.do = "channel" /\ x.ch # ChannelOf[cur]
GivesUp(x, presence) ==
  \/ NoChannelFor(x)
  \/ Op.do = "reset" /\ job[cur].kind = "volt" /\ (x.err \/ ~presence)

Leave == cur' = Nobody /\ step' = 1 /\ got' = <<>>
NextPart == job' = [job EXCEPT ![cur].part = 2] /\ taken' = None
Over == job' = [job EXCEPT ![cur] = NoJob]
Take(v) == taken' = [of |-> cur, kind |-> job[cur].kind, arg |-> job[cur].arg, value |-> v]

\* what is left when it is given up: the temperature is read all the same
\* after a conversion that was not started, a voltage that was not read is
\* taken as 65535
GivenUp ==
  CASE job[cur].kind = "temp" /\ job[cur].part = 1 -> NextPart
    [] job[cur].kind = "volt" /\ job[cur].part = 2 -> Over /\ Take(NoAnswer)
    [] OTHER -> Over /\ taken' = None

Operate ==
  /\ Running
  /\ \E x \in Operations, presence \in Presence :
       /\ c' = x
       /\ OnWire(x)
       /\ clean' = [clean EXCEPT ![cur] = @ /\ ~NoChannelFor(x) /\ ~x.err]
       /\ IF GivesUp(x, presence)
            THEN GivenUp /\ Leave
            ELSE /\ step' = step + 1
                 /\ got' = IF Op.do = "read" THEN Append(got, x.out) ELSE got
                 /\ UNCHANGED <<job, cur>> /\ taken' = None
  /\ UNCHANGED <<pad, here>>

\* the most significant byte of no answer is that of -16 .. 0 degrees, too
HasAnswer(bytes) == bytes[2] # NoAnswer

\* a read voltage is the input's of the job, the last byte of the
\* configuration is neither read nor sent
Result(j) ==
  CASE j.kind = "volt" -> got[j.arg] [] j.kind = "cfgwrite" -> j.arg [] OTHER -> got

Finish ==
  /\ cur # Nobody /\ ~Running
  /\ LET j == job[cur] IN
     IF j.kind \in {"temp", "volt"} /\ j.part = 1 THEN NextPart
     ELSE Over /\ IF j.kind = "temp" /\ ~HasAnswer(got) THEN taken' = None ELSE Take(Result(j))
  /\ Leave
  /\ c' = Forget(c)
  /\ UNCHANGED <<device, clean>>

-----------------------------------------------------------------------------

Bus == (\E d \in Devs : TakeBus(d)) \/ Operate \/ Finish
Next ==
  \/ ReadTemp \/ ReadVolt \/ ReadConfig \/ WriteConfig
  \/ Bus
  \/ Converted \/ ComeOrGo

Spec == Init /\ [][Next]_vars

\* a poll is due again and again, and the threads go on
FairSpec == Spec /\ WF_vars(ReadTemp) /\ WF_vars(Bus)

-----------------------------------------------------------------------------
(***************************************************************************)
(* Properties                                                              *)
(***************************************************************************)

TypeOK ==
  /\ c.ch \in Channels \cup {NoChannel} /\ c.chan \in 0 .. 7
  /\ c.real \in Pointers /\ c.ptr \in Pointers \cup {"unknown"}
  /\ c.err \in BOOLEAN /\ c.busy \in BOOLEAN
  /\ c.faults \in 0 .. MaxFaults
  /\ cur \in Devs \cup {Nobody}

(***************************************************************************)
(* Whatever transfer fails, and whether or not it reached the chip: when   *)
(* the driver takes a channel for selected, and skips selecting it, it is  *)
(* selected (DS2482::selectChannel()).  An operation without last_err is   *)
(* one the chip has done on the wire, and a byte read is the one that was  *)
(* there - also after the pointer the driver remembers went wrong, and     *)
(* with the chip still busy.                                               *)
(***************************************************************************)
ControllerIsRight == ChannelKnown(c) /\ Done(c)

(***************************************************************************)
(* The devices' values are the devices': a temperature taken over in a job *)
(* in which no operation reported an error is the sensor's last            *)
(* conversion, unless that ended while it was read, and a voltage the      *)
(* input's - whatever failed before, wherever it left the devices and the  *)
(* controller, and whatever the other device's jobs do between the         *)
(* transactions, on the same channel or on another one.                    *)
(***************************************************************************)
ReadingsAreTrue ==
  taken # None /\ clean[taken.of] =>
    /\ taken.kind = "temp" => taken.value = pad
    /\ taken.kind = "volt" => taken.value = volts[taken.arg]

(***************************************************************************)
(* "the cached copy always matches the device" (cfg_write() of both device *)
(* types), where no operation reported an error: of a write of n bytes the *)
(* first n - 1 do, the last is never sent.                                 *)
(***************************************************************************)
CfgArrives ==
  taken.kind \in {"cfgread", "cfgwrite"} /\ clean[taken.of] =>
    \A n \in 1 .. CfgSize - 1 :
      n < Len(taken.value) \/ (n = Len(taken.value) /\ taken.kind = "cfgread")
        => taken.value[n] = rom[taken.of][n]

(***************************************************************************)
(* "No retry handling because the data might not so important as next      *)
(* cycle will come" (temp_read()): once the transfers work again, a later  *)
(* cycle reads the sensor without an error.                                *)
(***************************************************************************)
NextCycleReads ==
  []<>(cur = T /\ job[T].part = 2 /\ ~Running /\ ~c.err)
=============================================================================

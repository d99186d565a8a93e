------------------------------- MODULE Ds2482 -------------------------------
(***************************************************************************)
(* The driver of the 1-Wire bus controller (src/ds2482.cpp) and the chip   *)
(* as the driver uses it: the channel and the read pointer the driver      *)
(* remembers against those the chip has, and the transfers between them,   *)
(* each of which may fail.                                                 *)
(*                                                                         *)
(* The bus mutex makes an operation atomic, so each is an operator: the    *)
(* set of states it may leave the controller in.                           *)
(***************************************************************************)
EXTENDS Naturals, Sequences

CONSTANTS
  Channels,    \* the channels in use, 0 .. 7
  NoChannel,   \* ch = 0xff: none is known to be selected
  MaxFaults    \* bound on the failures of a run

ASSUME ControllerAssumption ==
  Channels \subseteq 0 .. 7 /\ NoChannel \notin Channels /\ MaxFaults \in Nat

\* chan_r: what the channel register reads for a channel
ChannelCode == [n \in 0 .. 7 |-> <<184, 177, 170, 163, 156, 149, 142, 135>>[n + 1]]
StatusByte == 24   \* status while idle, the presence bit aside
NoAnswer == 255    \* a read nobody answers, and one that failed

Nothing == [kind |-> "nothing", byte |-> 0]
Pointers == {"status", "data", "channel"}

(***************************************************************************)
(* Of the driver: ch, ptr (_read_ptr), err (last_err is not ERR_NONE), out *)
(* (the byte last read) and asked, the last 1-Wire operation.  Of the      *)
(* chip: chan, real (its read pointer), busy, data (its data register),    *)
(* coming (what that will hold) and sent, what it put on the wire for it.  *)
(***************************************************************************)
NewController ==
  [ch |-> NoChannel, ptr |-> "unknown", err |-> FALSE, out |-> 0, asked |-> Nothing,
   chan |-> 0, real |-> "status", busy |-> FALSE, data |-> 0, coming |-> 0,
   sent |-> Nothing, faults |-> 0]

-----------------------------------------------------------------------------
(***************************************************************************)
(* Transfers                                                               *)
(***************************************************************************)

\* the operations after the first one fail for the whole operation
Then(S, F(_)) == UNION {IF c.err THEN {c} ELSE F(c) : c \in S}

Failed(c) == [c EXCEPT !.err = TRUE, !.faults = @ + 1]
MayFail(c) == c.faults < MaxFaults

\* what a command does in the chip; on the wire it takes a while
Chip(c, cmd, x) ==
  CASE cmd = "pointer" -> [c EXCEPT !.real = x]
    [] cmd = "channel" -> [c EXCEPT !.chan = x, !.real = "channel"]
    [] OTHER -> [c EXCEPT !.real = "status", !.busy = TRUE,
                          !.coming = IF cmd = "slots" THEN x ELSE @,
                          !.sent = [kind |-> cmd, byte |-> x]]

\* _write(), _write_cmd(): where the pointer is supposed to be then.  It is
\* set also for a command that failed, over the 0 set for the error
PtrAfter(cmd, x) ==
  CASE cmd = "pointer" -> x [] cmd = "channel" -> "channel" [] OTHER -> "status"

\* a busy chip takes no command but the pointer's; one that fails may have
\* reached the chip all the same
Command(c, cmd, x) ==
  LET d == [c EXCEPT !.ptr = PtrAfter(cmd, x)]
  IN  IF c.busy /\ cmd # "pointer" THEN {[d EXCEPT !.err = TRUE]}
      ELSE {Chip(d, cmd, x)} \cup
           (IF MayFail(c) THEN {Failed(d), Failed(Chip(d, cmd, x))} ELSE {})

SetReadPtr(c, p) == IF c.ptr = p THEN {c} ELSE Command(c, "pointer", p)

Register(c) ==
  CASE c.real = "status" -> StatusByte [] c.real = "data" -> c.data
    [] c.real = "channel" -> ChannelCode[c.chan]

\* _read()
ReadByte(c) ==
  {[c EXCEPT !.out = Register(c)]} \cup
  (IF MayFail(c) THEN {[Failed(c) EXCEPT !.out = NoAnswer]} ELSE {})

-----------------------------------------------------------------------------
(***************************************************************************)
(* Operations.  busyWait() reads the status until its busy bit, bit 0, is  *)
(* clear, 500 times at most; what it reads is the register the pointer is  *)
(* really at.                                                              *)
(***************************************************************************)

Settled(c) == [c EXCEPT !.busy = FALSE, !.data = c.coming]

Polled(c) ==
  (IF c.real = "status" THEN {Settled(c)}
   ELSE IF Register(c) % 2 = 1 THEN {[c EXCEPT !.err = TRUE]}
   ELSE {c})
  \cup (IF MayFail(c) THEN {Failed(c)} ELSE {})

BusyWait(c) == Then(SetReadPtr(c, "status"), Polled)

\* what nobody looks at any more
Forget(c) == [c EXCEPT !.err = FALSE, !.out = 0, !.sent = Nothing, !.asked = Nothing]
Asking(c, kind, x) == [Forget(c) EXCEPT !.asked = [kind |-> kind, byte |-> x]]

KeepsChannel(c, n) == IF c.err THEN c ELSE [c EXCEPT !.ch = n]      \* mutant
Checked(c, n) ==
  IF c.err \/ c.out # ChannelCode[n] THEN [c EXCEPT !.ch = NoChannel, !.err = TRUE]
  ELSE [c EXCEPT !.ch = n]

SelectChannel(c, n) ==
  IF c.ch = n THEN {Forget(c)}
  ELSE LET ready == BusyWait(Forget(c))
           selected == Then(ready, LAMBDA d : Command(d, "channel", n))
       IN  {Checked(d, n) : d \in Then(selected, ReadByte)}

\* a 1-Wire operation: the wait for the last one, then the command
Start(c, cmd, x) == Then(BusyWait(Asking(c, cmd, x)), LAMBDA d : Command(d, cmd, x))

\* reset(): without an error the status has the presence bit
Reset(c) == Then(Start(c, "reset", 0), BusyWait)

Write(c, b) == Start(c, "byte", b)

\* read(), with b what the devices on the wire answer: the data register is
\* read also when the pointer could not be set
TooEarly(c) == {c}                                                  \* mutant
WaitForData(c) == BusyWait(c)

Read(c, b) ==
  UNION {IF d.err THEN {[d EXCEPT !.out = NoAnswer]}
         ELSE UNION {ReadByte(e) : e \in SetReadPtr(d, "data")} :
           d \in Then(Start(c, "slots", b), WaitForData)}

-----------------------------------------------------------------------------
(***************************************************************************)
(* What the users of the controller count on, of its state c               *)
(***************************************************************************)

ChannelKnown(c) == c.ch # NoChannel => c.chan = c.ch

Done(c) ==
  ~c.err => /\ c.sent = c.asked
            /\ c.asked.kind = "slots" => c.out = c.asked.byte
=============================================================================

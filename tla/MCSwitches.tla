----------------------------- MODULE MCSwitches -----------------------------
(***************************************************************************)
(* Small instances of Switches: a light and a socket on two devices, the   *)
(* socket in a room, two buttons with short and long presses.               *)
(***************************************************************************)
EXTENDS Switches, TLC

CONSTANTS light, socket, devA, devB, hall

MCDevOf == (light :> devA) @@ (socket :> devB)
\* The two on one device, which is always written as a whole
OneDevOf == (light :> devA) @@ (socket :> devA)

MCRoomOf == (light :> NoRoom) @@ (socket :> hall)

Switch(latch, kind, dst, secs, off, dark) ==
  [src |-> <<latch, kind>>, dst |-> dst, secs |-> secs, offOnPress |-> off,
   dark |-> dark, disabled |-> FALSE]

LightForAWhile  == Switch(1, 0, light, 1, FALSE, FALSE)
LightDarkOrOff  == Switch(1, 1, light, 2, TRUE, TRUE)
LightForGood    == Switch(2, 0, light, 0, FALSE, FALSE)
SocketInTheDark == Switch(2, 0, socket, 0, FALSE, TRUE)
SocketForAWhile == Switch(1, 0, socket, 1, TRUE, TRUE)
LightInTheDark  == Switch(2, 0, light, 0, FALSE, TRUE)
EverythingOff   == Switch(2, 1, AllOff, 0, FALSE, FALSE)

\* Every kind of switch on the one light, short and long presses
LightTable == <<LightForAWhile, LightForGood, LightDarkOrOff, EverythingOff>>

\* Two outputs: one press drives both, a light that is off in the daytime
DarkTable == <<SocketForAWhile, LightInTheDark, SocketInTheDark>>

MCTables == {LightTable, DarkTable}

\* What is written to the table: a switch that sets one of DarkTable anew, is
\* masked, erased and added again.
MCEntries == {[SocketForAWhile EXCEPT !.secs = 0]}

\* Two switches, for an edit that moves one into the other's slot
PairTables == {<<LightForAWhile, SocketInTheDark>>}
PairEntries == {LightForAWhile}

=============================================================================

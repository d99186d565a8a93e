----------------------------- MODULE MCOneWire -----------------------------
(***************************************************************************)
(* Two devices on one bus, a third on another.                             *)
(***************************************************************************)
EXTENDS OneWire, TLC

CONSTANTS button, light, socket, busA, busB

MCBusOf == (button :> busA) @@ (light :> busA) @@ (socket :> busB)

=============================================================================

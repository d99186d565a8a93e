----------------------------- MODULE MCRegistry -----------------------------
(***************************************************************************)
(* Two devices on two busses, one of them with a code whose CRC is wrong,  *)
(* one of a strange family and the Arduino, for a list of two; the         *)
(* configuration is empty, has a device, or has it twice.                  *)
(***************************************************************************)
EXTENDS Registry

CONSTANTS main, s1, s2, u1, u2, nobody

MCCodes == {1, 20, 3, 4}
MCCanon == (1 :> 1) @@ (20 :> 2) @@ (3 :> 3) @@ (4 :> 4)
MCBusOf == (1 :> 1) @@ (20 :> 2) @@ (3 :> 2) @@ (4 :> 1)
MCConfigs == {<<>>, <<2>>, <<3, 1>>, <<2, 2>>}
=============================================================================

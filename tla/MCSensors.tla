----------------------------- MODULE MCSensors -----------------------------
(***************************************************************************)
(* A sensor on channel 0, a converter on channel 1.  Of the temperatures   *)
(* one is between -16 and 0 degrees.                                       *)
(***************************************************************************)
EXTENDS Sensors

CONSTANTS t, a, nobody

MCChannelOf == [d \in {t, a} |-> IF d = t THEN 0 ELSE 1]
MCJobs == {<<t, "temp">>, <<a, "volt">>, <<a, "cfgread">>, <<a, "cfgwrite">>}
MCCfgData == {<<1, 2>>, <<2>>}
MCTempOnly == {<<t, "temp">>}
MCTemps == {<<4, 1>>, <<6, 255>>}
=============================================================================

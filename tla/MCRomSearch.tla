---------------------------- MODULE MCRomSearch ----------------------------
(***************************************************************************)
(* Addresses of four bits: one of family, two of number and one that is    *)
(* their parity, as the CRC of a real address.                             *)
(***************************************************************************)
EXTENDS RomSearch, FiniteSets

Ones(d) == Cardinality({k \in 1..(Bits - 1) : d[k] = 1})
MCDevices == {d \in Address : d[Bits] = Ones(d) % 2}
MCTargets == {[k \in 1..FamBits |-> k % 2]}

=============================================================================

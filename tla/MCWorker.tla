------------------------------ MODULE MCWorker ------------------------------
(***************************************************************************)
(* Two busses.                                                             *)
(***************************************************************************)
EXTENDS Worker

CONSTANTS busA, busB

=============================================================================

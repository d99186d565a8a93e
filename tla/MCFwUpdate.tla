----------------------------- MODULE MCFwUpdate -----------------------------
(***************************************************************************)
(* A device of three pages, an image of three and one of two.              *)
(***************************************************************************)
EXTENDS FwUpdate, TLC

CONSTANTS imgA, imgB

MCPageCount == (imgA :> 3) @@ (imgB :> 2)

=============================================================================

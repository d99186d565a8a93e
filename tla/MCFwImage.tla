----------------------------- MODULE MCFwImage -----------------------------
(***************************************************************************)
(* Records of none to three bytes.  With a base of 3 * Linear and three    *)
(* bytes at address 3 the end of a record is beyond Word.                  *)
(***************************************************************************)
EXTENDS FwImage

MCContents == {<<>>, <<1>>, <<2, 1>>, <<1, 2, 3>>}
=============================================================================

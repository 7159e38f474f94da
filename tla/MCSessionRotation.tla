---------------------------- MODULE MCSessionRotation --------------------------
(***************************************************************************)
(* SessionRotation for TLC.  The slots of concurrent requests are          *)
(* interchangeable.                                                        *)
(***************************************************************************)
EXTENDS SessionRotation, TLC

CONSTANTS r1, r2

OneRequest == {r1}
TwoRequests == {r1, r2}
RequestSymmetry == Permutations(Requests)
===============================================================================

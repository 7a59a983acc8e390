---------------------------- MODULE MCAdminToken ----------------------------
(***************************************************************************)
(* Calls, and tokens that live for longer than the margin or not even for  *)
(* that.                                                                   *)
(***************************************************************************)
EXTENDS AdminToken, TLC

CONSTANTS c1, c2, c3

ThreeCallers == {c1, c2, c3}
AnyOrder == Permutations(Callers)
=============================================================================

-------------------------- MODULE MCMessageSession --------------------------
(***************************************************************************)
(* Callers for the session's runs: a poll, and handle_one calls beside it. *)
(***************************************************************************)
EXTENDS MessageSession, TLC

CONSTANTS c1, c2, c3

ThreeCallers == {c1, c2, c3}
AnyOrder == Permutations(ThreeCallers)
=============================================================================

------------------------------- MODULE MCStack -------------------------------
(***************************************************************************)
(* A poll, a call of acquire_jobs and a direct API call.                   *)
(***************************************************************************)
EXTENDS Stack

CONSTANTS poll, acquire, api

SessionCallers == {poll, acquire}
AcquireOnly == {acquire}
ApiCalls == {api}
=============================================================================

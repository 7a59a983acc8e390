----------------------------- MODULE MCTransport -----------------------------
(***************************************************************************)
(* A u32 of three bits: retry_max at zero, in between, and at its limit,   *)
(* where the exponential backoff saturates.                                *)
(***************************************************************************)
EXTENDS Transport

U32 == 7
SomeRetryMaxes == {0, 2, 6, 7}
SomeWaitCaps == {0, 3, 9}
SomeRetryAfters == {0, 20}
=============================================================================

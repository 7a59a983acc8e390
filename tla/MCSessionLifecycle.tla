--------------------------- MODULE MCSessionLifecycle ---------------------------
(***************************************************************************)
(* Two clients of one scale set: one that replaces the other, or two that  *)
(* meet by mistake.                                                        *)
(***************************************************************************)
EXTENDS SessionLifecycle

CONSTANTS k1, k2

TwoClients == {k1, k2}
=============================================================================

------------------------------- MODULE MCApiCall -------------------------------
(***************************************************************************)
(* ApiCall with the statuses the code tells apart, two it does not (403    *)
(* and 500), and batches of up to three jobs.                              *)
(***************************************************************************)
EXTENDS ApiCall

MCStatuses == {200, 202, 204, 400, 401, 403, 404, 409, 500}
=============================================================================

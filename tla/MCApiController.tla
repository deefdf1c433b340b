--------------------------- MODULE MCApiController ---------------------------
(* Model values for the runs of ApiController. *)
EXTENDS ApiController
=============================================================================

---------------------------- MODULE MCSimpleRFID ----------------------------
(* Model values for the run of SimpleRFID. *)
EXTENDS SimpleRFID
=============================================================================

----------------------------- MODULE MCMobileApp -----------------------------
(* Model values for the runs of MobileApp. *)
EXTENDS MobileApp
=============================================================================

---------------------------- MODULE MCLedDriver ----------------------------
(* Model values and symmetry for the run of LedDriver. *)
EXTENDS LedDriver, TLC

Symmetry == Permutations(Writers)
=============================================================================

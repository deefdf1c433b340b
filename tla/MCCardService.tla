--------------------------- MODULE MCCardService ---------------------------
(* Model values and symmetry for the runs of CardService. *)
EXTENDS CardService, TLC

Symmetry == Permutations(Cards) \cup Permutations(Lines)
            \cup Permutations(Phones) \cup Permutations(Handlers)
=============================================================================

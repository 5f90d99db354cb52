---------------------------- MODULE MCEditForms -----------------------------
(* A small instance of EditForms for TLC. *)
EXTENDS EditForms, TLC

Symmetry == Permutations(Forms) \cup Permutations(Secrets) \cup Permutations(Keys)
                \cup Permutations(Images)
=============================================================================

----------------------------- MODULE MCConsole ------------------------------
(* A small instance of Console for TLC. *)
EXTENDS Console, TLC

Symmetry == Permutations(Configs)
=============================================================================

----------------------------- MODULE MCOciSlots -----------------------------
(* Small instances of OciSlots for TLC. *)
EXTENDS OciSlots, TLC

CONSTANTS other    \* the config with an account of its own

OneApart == [c \in Configs |-> IF c = other THEN "second" ELSE "first"]
=============================================================================

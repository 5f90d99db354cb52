------------------------------ MODULE MCPoller ------------------------------
(* Small instances of Poller for TLC. *)
EXTENDS Poller, TLC

CONSTANT capped    \* the config with a cap

\* Every config polls through one account: all of them compete for its slot.
OneAccount == [c \in Configs |-> "account"]

NoCaps      == [c \in Configs |-> NoCap]
FirstCapped == [c \in Configs |-> IF c = capped THEN 1 ELSE NoCap]

TaskSymmetry == Permutations(Tasks)
=============================================================================

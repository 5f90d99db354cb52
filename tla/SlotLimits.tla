----------------------------- MODULE SlotLimits -----------------------------
(***************************************************************************)
(* What workers/concurrency.py promises, with nothing said of how: the     *)
(* poll of a config takes a global slot, then a slot of its account, and   *)
(* only then launches; it holds both until it leaves.  At most GlobalMax   *)
(* polls hold a global slot, at most CredMax a slot of one account, and    *)
(* whoever waits for a slot is served or gives up.                         *)
(***************************************************************************)
EXTENDS Naturals, FiniteSets

CONSTANTS Configs,
          CredOf,               \* CredOf[c]: the account c is launched with
          GlobalMax, CredMax    \* OCI_MAX_CONCURRENT, OCI_PER_CREDENTIAL_MAX

SlotAssumption == IsFiniteSet(Configs) /\ {GlobalMax, CredMax} \subseteq Nat

VARIABLE phase    \* "out", waiting for the "global" or the "cred" slot, or "in"

HasGlobal  == {c \in Configs : phase[c] \in {"cred", "in"}}
HasCred(k) == {c \in Configs : phase[c] = "in" /\ CredOf[c] = k}

GlobalFree  == Cardinality(HasGlobal) < GlobalMax
CredFree(k) == Cardinality(HasCred(k)) < CredMax

Moves(c, from, to) == phase[c] \in from /\ phase' = [phase EXCEPT ![c] = to]

\* The global slot: it has to be waited for, or it is taken and the account's
\* slot has to be waited for, or that is taken too.
Wait(c)       == Moves(c, {"out"}, "global")
TakeGlobal(c) == GlobalFree /\ Moves(c, {"out", "global"}, "cred")
TakeBoth(c)   == GlobalFree /\ CredFree(CredOf[c]) /\ Moves(c, {"out", "global"}, "in")
TakeCred(c)   == CredFree(CredOf[c]) /\ Moves(c, {"cred"}, "in")

\* The launch is over, or the task is cancelled wherever it is.
Leave(c) == Moves(c, {"global", "cred", "in"}, "out")

\* The process crashes and all slots with it.
Reset == phase' = [c \in Configs |-> "out"]

Serve(c) == TakeGlobal(c) \/ TakeBoth(c) \/ TakeCred(c)

Init == phase = [c \in Configs |-> "out"]
Next == Reset \/ \E c \in Configs : Wait(c) \/ Serve(c) \/ Leave(c)

Spec == Init /\ [][Next]_phase

TypeOK == phase \in [Configs -> {"out", "global", "cred", "in"}]

\* The two caps of concurrency.py, on the polls that are between acquiring
\* their slots and giving them back.
WithinLimits == /\ Cardinality(HasGlobal) <= GlobalMax
                /\ \A c \in Configs : Cardinality(HasCred(CredOf[c])) <= CredMax

\* Who waits for a slot does not wait for ever.
EveryWaiterServed ==
    \A c \in Configs : phase[c] \in {"global", "cred"} ~> phase[c] \in {"in", "out"}
=============================================================================

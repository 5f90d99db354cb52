-------------------------- MODULE SlotLimitsProofs --------------------------
(* The caps of SlotLimits hold for any number of polls and accounts. *)
EXTENDS SlotLimits, FiniteSetTheorems, TLAPS

\* Who holds slots is a finite set, so the counts are numbers.
LEMMA HoldersFinite ==
    ASSUME SlotAssumption
    PROVE  /\ IsFiniteSet(HasGlobal) /\ Cardinality(HasGlobal) \in Nat
           /\ \A k : IsFiniteSet(HasCred(k)) /\ Cardinality(HasCred(k)) \in Nat
<1>1. HasGlobal \subseteq Configs /\ \A k : HasCred(k) \subseteq Configs
      BY DEF HasGlobal, HasCred
<1> QED BY <1>1, FS_Subset, FS_CardinalityType DEF SlotAssumption

\* A set that gains at most one member where there was room stays within the
\* limit, and so does one that gains none.
LEMMA OneMore ==
    ASSUME NEW S, NEW T, NEW x, NEW n \in Nat, IsFiniteSet(S), T \subseteq S \cup {x},
           Cardinality(S) < n \/ (T \subseteq S /\ Cardinality(S) <= n)
    PROVE  Cardinality(T) <= n
<1>1. IsFiniteSet(S \cup {x}) /\ Cardinality(S \cup {x}) <= Cardinality(S) + 1
      BY FS_AddElement, FS_CardinalityType
<1>2. Cardinality(S) \in Nat /\ Cardinality(S \cup {x}) \in Nat
      BY <1>1, FS_CardinalityType
<1>3. Cardinality(T) <= Cardinality(S \cup {x}) /\ Cardinality(T) \in Nat
      BY <1>1, FS_Subset, FS_CardinalityType
<1>4. CASE T \subseteq S
      BY <1>2, <1>3, <1>4, FS_Subset
<1>5. CASE Cardinality(S) < n
      BY <1>1, <1>2, <1>3, <1>5
<1> QED BY <1>4, <1>5

\* OCI_MAX_CONCURRENT and OCI_PER_CREDENTIAL_MAX bound the polls that hold
\* slots, in any behaviour the promise allows.
THEOREM LimitsHold ==
    ASSUME SlotAssumption PROVE Spec => [](TypeOK /\ WithinLimits)
<1>1. Init => TypeOK /\ WithinLimits
  <2> SUFFICES ASSUME Init PROVE TypeOK /\ WithinLimits
      OBVIOUS
  <2>1. HasGlobal = {} /\ \A k : HasCred(k) = {}
        BY DEF Init, HasGlobal, HasCred
  <2> QED BY <2>1, FS_EmptySet DEF Init, TypeOK, WithinLimits, SlotAssumption
<1>2. ASSUME TypeOK, WithinLimits, [Next]_phase PROVE TypeOK' /\ WithinLimits'
  <2> USE <1>2 DEF TypeOK
  <2>1. TypeOK'
        BY DEF Next, Reset, Wait, Serve, TakeGlobal, TakeBoth, TakeCred, Leave, Moves
  <2>2. ASSUME NEW c \in Configs, Wait(c) \/ Serve(c) \/ Leave(c) PROVE WithinLimits'
    <3>1. /\ HasGlobal' \subseteq HasGlobal \cup {c}
          /\ HasGlobal' \subseteq HasGlobal \/ GlobalFree
          BY <2>2 DEF Wait, Serve, TakeGlobal, TakeBoth, TakeCred, Leave, Moves, HasGlobal
    <3>2. Cardinality(HasGlobal') <= GlobalMax
          BY <3>1, OneMore, HoldersFinite DEF WithinLimits, GlobalFree, SlotAssumption
    <3>3. ASSUME NEW d \in Configs
          PROVE  Cardinality(HasCred(CredOf[d])') <= CredMax
      <4>1. /\ HasCred(CredOf[d])' \subseteq HasCred(CredOf[d]) \cup {c}
            /\ HasCred(CredOf[d])' \subseteq HasCred(CredOf[d]) \/ CredFree(CredOf[d])
            BY <2>2 DEF Wait, Serve, TakeGlobal, TakeBoth, TakeCred, Leave, Moves, HasCred
      <4> QED BY <4>1, OneMore, HoldersFinite DEF WithinLimits, CredFree, SlotAssumption
    <3> QED BY <3>2, <3>3 DEF WithinLimits
  <2>3. CASE Reset \/ UNCHANGED phase
    <3>1. HasGlobal' \subseteq HasGlobal /\ \A d \in Configs : HasCred(CredOf[d])' \subseteq HasCred(CredOf[d])
          BY <2>3 DEF Reset, HasGlobal, HasCred
    <3>2. Cardinality(HasGlobal') <= GlobalMax
          BY <3>1, OneMore, HoldersFinite DEF WithinLimits, SlotAssumption
    <3>3. ASSUME NEW d \in Configs PROVE Cardinality(HasCred(CredOf[d])') <= CredMax
          BY <3>1, OneMore, HoldersFinite DEF WithinLimits, SlotAssumption
    <3> QED BY <2>1, <3>2, <3>3 DEF WithinLimits
  <2> QED BY <2>1, <2>2, <2>3 DEF Next
<1> QED BY <1>1, <1>2, PTL DEF Spec
=============================================================================

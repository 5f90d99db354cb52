----------------------------- MODULE SeqLemmas ------------------------------
(* What the queues of the models are built from: least numbers, and         *)
(* sequences without repetition that are appended to and removed from.      *)
EXTENDS Naturals, Sequences, SequencesExt, SequenceTheorems,
        WellFoundedInduction, TLAPS

\* In sequence s, x stands before y.
Before(s, x, y) == \E i, j \in DOMAIN s : s[i] = x /\ s[j] = y /\ i < j

\* A set of numbers that is not empty has a least member.
LEMMA LeastNumber ==
    ASSUME NEW T, T \subseteq Nat, T # {}
    PROVE  Min(T) \in T /\ \A y \in T : Min(T) <= y
<1> DEFINE R == OpToRel(<, Nat)
<1>1. IsWellFoundedOn(R, Nat)
      BY NatLessThanWellFounded
<1>2. ASSUME NEW x \in Nat, NEW y \in Nat, x < y PROVE <<x, y>> \in R
      BY <1>2 DEF OpToRel
<1> HIDE DEF R
<1>3. PICK x \in T : \A y \in T : ~ (<<y, x>> \in R)
      BY <1>1, WFMin
<1>4. ASSUME NEW y \in T PROVE x <= y
  <2>1. ~(y < x)
        BY <1>2, <1>3
  <2> QED BY <2>1
<1> QED BY <1>4 DEF Min

\* Appending e puts it behind everybody else, who keep their order.
LEMMA AppendBehind ==
    ASSUME NEW S, NEW s \in Seq(S), NEW e \in S, IsInjective(s), e \notin ToSet(s)
    PROVE  /\ Append(s, e) \in Seq(S) /\ IsInjective(Append(s, e))
           /\ ToSet(Append(s, e)) = ToSet(s) \cup {e}
           /\ \A x, y : Before(s, x, y) => Before(Append(s, e), x, y)
           /\ \A x \in ToSet(s) : Before(Append(s, e), x, e)
<1> DEFINE t == Append(s, e)
<1>1. /\ t \in Seq(S) /\ Len(t) = Len(s) + 1 /\ t[Len(s) + 1] = e
      /\ \A i \in 1..Len(s) : t[i] = s[i]
      BY AppendProperties
<1>2. Len(s) \in Nat /\ DOMAIN s = 1..Len(s) /\ DOMAIN t = 1..Len(s) + 1
      BY <1>1, LenProperties
<1> HIDE DEF t
<1>3. ToSet(t) = ToSet(s) \cup {e}
      BY <1>1, <1>2 DEF ToSet
<1>4. IsInjective(t)
      BY <1>1, <1>2 DEF ToSet, IsInjective
<1>5. \A x, y : Before(s, x, y) => Before(t, x, y)
      BY <1>1, <1>2 DEF Before
<1>6. \A x \in ToSet(s) : Before(t, x, e)
      BY <1>1, <1>2 DEF Before, ToSet
<1> QED BY <1>1, <1>3, <1>4, <1>5, <1>6 DEF t

\* Removing what is not there changes nothing.
LEMMA RemoveNothing ==
    ASSUME NEW S, NEW s \in Seq(S), NEW e, e \notin ToSet(s)
    PROVE  RemoveFirst(s, e) = s
BY LenProperties DEF RemoveFirst, ToSet

\* Where e stood the rest moves up by one.
LEMMA RemoveAtPlace ==
    ASSUME NEW S, NEW s \in Seq(S), NEW p \in 1..Len(s), IsInjective(s)
    PROVE  LET t == RemoveFirst(s, s[p])
           IN  /\ t \in Seq(S) /\ Len(t) = Len(s) - 1
               /\ \A i \in 1..Len(s) - 1 : t[i] = IF i < p THEN s[i] ELSE s[i + 1]
<1> DEFINE a == SubSeq(s, 1, p - 1)  b == SubSeq(s, p + 1, Len(s))
<1>1. Len(s) \in Nat /\ DOMAIN s = 1..Len(s) /\ p \in Nat /\ \A i \in 1..Len(s) : s[i] \in S
      BY LenProperties
<1>2. {i \in 1..Len(s) : s[i] = s[p]} = {p}
      BY <1>1 DEF IsInjective
<1>3. Min({p}) = p
      BY <1>1 DEF Min
<1>4. SelectInSeq(s, LAMBDA v : v = s[p]) = p
      BY <1>2, <1>3 DEF SelectInSeq
<1>5. RemoveFirst(s, s[p]) = a \o b
      BY <1>1, <1>4 DEF RemoveFirst, RemoveAt
<1>6. /\ a \in Seq(S) /\ Len(a) = p - 1 /\ \A i \in 1..p - 1 : a[i] = s[i]
      BY <1>1, SubSeqProperties, Z3
<1>7. /\ b \in Seq(S) /\ Len(b) = Len(s) - p
      /\ \A i \in 1..Len(s) - p : b[i] = s[p + i]
  <2>1. /\ b \in Seq(S)
        /\ Len(b) = IF p + 1 <= Len(s) THEN Len(s) - (p + 1) + 1 ELSE 0
        /\ \A i \in 1..Len(s) - (p + 1) + 1 : b[i] = s[p + 1 + i - 1]
        BY <1>1, SubSeqProperties, Z3
  <2> HIDE DEF a, b
  <2>2. ASSUME NEW i \in 1..Len(s) - p PROVE b[i] = s[p + i]
    <3>1. i \in 1..Len(s) - (p + 1) + 1 /\ p + 1 + i - 1 = p + i
          BY <1>1
    <3> QED BY <2>1, <3>1
  <2>3. Len(b) = Len(s) - p
    <3>1. Len(b) = IF p + 1 <= Len(s) THEN Len(s) - (p + 1) + 1 ELSE 0
          BY <2>1
    <3>2. ASSUME NEW n \in Nat, p <= n
          PROVE  (IF p + 1 <= n THEN n - (p + 1) + 1 ELSE 0) = n - p
          BY <3>2
    <3>3. Len(s) \in Nat /\ p <= Len(s)
          BY <1>1
    <3> QED BY <3>1, <3>2, <3>3
  <2> QED BY <2>1, <2>2, <2>3
<1> HIDE DEF a, b
<1>8. /\ a \o b \in Seq(S) /\ Len(a \o b) = Len(s) - 1
      /\ \A i \in 1..Len(a) + Len(b) :
            (a \o b)[i] = IF i <= Len(a) THEN a[i] ELSE b[i - Len(a)]
  <2>1. Len(a) + Len(b) = Len(s) - 1
        BY <1>1, <1>6, <1>7
  <2> QED BY <1>6, <1>7, <2>1, ConcatProperties
<1>9. ASSUME NEW i \in 1..Len(s) - 1
      PROVE  (a \o b)[i] = IF i < p THEN s[i] ELSE s[i + 1]
  <2>1. CASE i < p
        BY <1>1, <1>6, <1>7, <1>8, <2>1
  <2>2. CASE ~(i < p)
    <3>1. /\ i \in 1..Len(a) + Len(b) /\ ~(i <= Len(a))
          /\ i - Len(a) \in 1..Len(s) - p /\ p + (i - Len(a)) = i + 1
          BY <1>1, <1>6, <1>7, <2>2
    <3>2. (a \o b)[i] = b[i - Len(a)]
          BY <1>8, <3>1
    <3> QED BY <1>7, <2>2, <3>1, <3>2
  <2> QED BY <2>1, <2>2
<1> QED BY <1>5, <1>8, <1>9

\* Removing e leaves the others in their order.
LEMMA RemoveOne ==
    ASSUME NEW S, NEW s \in Seq(S), NEW e, IsInjective(s)
    PROVE  /\ RemoveFirst(s, e) \in Seq(S) /\ IsInjective(RemoveFirst(s, e))
           /\ ToSet(RemoveFirst(s, e)) = ToSet(s) \ {e}
           /\ \A x, y : x # e /\ y # e /\ Before(s, x, y) => Before(RemoveFirst(s, e), x, y)
<1> DEFINE t == RemoveFirst(s, e)
<1>1. CASE e \notin ToSet(s)
      BY <1>1, RemoveNothing
<1>2. CASE e \in ToSet(s)
  <2>1. Len(s) \in Nat /\ DOMAIN s = 1..Len(s)
        BY LenProperties
  <2>2. PICK p \in 1..Len(s) : s[p] = e
        BY <1>2, <2>1 DEF ToSet
  <2>3. /\ t \in Seq(S) /\ Len(t) = Len(s) - 1 /\ DOMAIN t = 1..Len(s) - 1
        /\ \A i \in 1..Len(s) - 1 : t[i] = IF i < p THEN s[i] ELSE s[i + 1]
    <3>1. /\ t \in Seq(S) /\ Len(t) = Len(s) - 1
          /\ \A i \in 1..Len(s) - 1 : t[i] = IF i < p THEN s[i] ELSE s[i + 1]
          BY <2>2, RemoveAtPlace
    <3>2. DOMAIN t = 1..Len(t)
          BY <3>1, LenProperties
    <3> QED BY <3>1, <3>2
  <2> HIDE DEF t
  <2>4. \A i \in 1..Len(s) : s[i] # e =>
           \E j \in DOMAIN t : t[j] = s[i] /\ j = IF i < p THEN i ELSE i - 1
        BY <2>1, <2>2, <2>3
  <2>5. \A i \in DOMAIN t : \E j \in DOMAIN s : t[i] = s[j] /\ j # p /\ j = IF i < p THEN i ELSE i + 1
        BY <2>1, <2>2, <2>3
  <2>6. ToSet(t) = ToSet(s) \ {e}
    <3>1. ASSUME NEW x \in ToSet(t) PROVE x \in ToSet(s) \ {e}
          BY <2>1, <2>2, <2>5 DEF ToSet, IsInjective
    <3>2. ASSUME NEW x \in ToSet(s) \ {e} PROVE x \in ToSet(t)
          BY <2>1, <2>4 DEF ToSet
    <3> QED BY <3>1, <3>2
  <2>7. IsInjective(t)
        BY <2>1, <2>2, <2>3, <2>5 DEF IsInjective
  <2>8. ASSUME NEW x, NEW y, x # e, y # e, Before(s, x, y) PROVE Before(t, x, y)
    <3>1. PICK i, j \in 1..Len(s) : s[i] = x /\ s[j] = y /\ i < j
          BY <2>1, <2>8 DEF Before
    <3>2. i # p /\ j # p
          BY <2>2, <2>8, <3>1
    <3> DEFINE k == IF i < p THEN i ELSE i - 1
               l == IF j < p THEN j ELSE j - 1
    <3>3. k \in DOMAIN t /\ l \in DOMAIN t /\ k < l
          BY <2>1, <2>3, <3>1, <3>2
    <3>4. t[k] = s[i] /\ t[l] = s[j]
      <4>1. ASSUME NEW m \in 1..Len(s), m # p
            PROVE  t[IF m < p THEN m ELSE m - 1] = s[m]
        <5>1. CASE m < p
              BY <2>1, <2>3, <5>1
        <5>2. CASE m > p
          <6>1. m - 1 \in 1..Len(s) - 1 /\ ~(m - 1 < p) /\ (m - 1) + 1 = m
                BY <2>1, <5>2
          <6> QED BY <2>3, <5>2, <6>1
        <5> QED BY <2>1, <4>1, <5>1, <5>2
      <4> QED BY <3>2, <4>1
    <3> QED BY <3>1, <3>3, <3>4 DEF Before
  <2> QED BY <2>3, <2>6, <2>7, <2>8 DEF t
<1> QED BY <1>1, <1>2
=============================================================================

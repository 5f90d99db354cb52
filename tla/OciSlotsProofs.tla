--------------------------- MODULE OciSlotsProofs ---------------------------
(* Theorems of OciSlots, for any finite set of polls, any accounts and any *)
(* limits.                                                                 *)
EXTENDS OciSlots, SeqLemmas, FiniteSetTheorems, TLAPS

USE OciSlotsAssumption

-----------------------------------------------------------------------------
(* The inductive invariant                                                 *)

\* The semaphore a waiting poll waits for.
Awaited(c) == IF pc[c] = "global" THEN Global ELSE CredOf[c]

\* Who waits is in the queue of its semaphore, once, and in no other queue.
QueuesOK ==
    /\ \A s \in Sems :
          /\ IsInjective(queue[s])
          /\ \A c \in ToSet(queue[s]) : pc[c] \in {"global", "cred"} /\ s = Awaited(c)
    /\ \A c \in Configs : pc[c] \in {"global", "cred"} => c \in ToSet(queue[Awaited(c)])

\* A slot is handed to those who wait, and nobody is cancelled who is outside.
TasksOK ==
    /\ \A c \in woken : pc[c] \in {"global", "cred"}
    /\ \A c \in cancelled : pc[c] # "out"

\* The polls a slot of s is counted for, held or handed over.
Charged(s) == Holders(s) \cup Handed(s)

Balanced == \A s \in Sems : value[s] + Cardinality(Charged(s)) = Limit(s)

\* Slots are handed over from the front of the queue.
HandedFirst ==
    \A s \in Sems : \A c \in Handed(s), d \in Pending(s) : Before(queue[s], c, d)

\* What holds after every segment between two awaits of the semaphores' coroutines.
Consistent == TypeOK /\ QueuesOK /\ TasksOK /\ Balanced /\ NoLostWakeup /\ HandedFirst

-----------------------------------------------------------------------------
(* Facts about one state                                                   *)

LEMMA SemsFacts ==
    /\ Global \in Sems /\ Creds \subseteq Sems
    /\ \A c \in Configs : CredOf[c] \in Sems /\ CredOf[c] \in Creds /\ CredOf[c] # Global
    /\ \A s \in Sems : Limit(s) \in Nat
BY DEF Sems, Creds, Limit

\* The first pending waiter is pending, and before all the others.
LEMMA FirstIsFirst ==
    ASSUME TypeOK, NEW s \in Sems, Pending(s) # {}
    PROVE  /\ FirstPending(s) \in Pending(s)
           /\ \A d \in Pending(s) : d # FirstPending(s) => Before(queue[s], FirstPending(s), d)
<1>1. queue[s] \in Seq(Configs)
      BY DEF TypeOK
<1>2. PendingAt(s) \subseteq Nat /\ PendingAt(s) # {}
      BY <1>1, LenProperties DEF PendingAt, Pending, ToSet
<1>3. Min(PendingAt(s)) \in PendingAt(s) /\ \A i \in PendingAt(s) : Min(PendingAt(s)) <= i
      BY <1>2, LeastNumber
<1>4. FirstPending(s) \in Pending(s)
      BY <1>3 DEF FirstPending, PendingAt
<1>5. ASSUME NEW d \in Pending(s), d # FirstPending(s)
      PROVE  Before(queue[s], FirstPending(s), d)
  <2>1. PICK j \in DOMAIN queue[s] : queue[s][j] = d
        BY DEF Pending, ToSet
  <2>2. j \in PendingAt(s) /\ j # Min(PendingAt(s))
        BY <1>5, <2>1 DEF PendingAt, FirstPending
  <2>3. Min(PendingAt(s)) < j
        BY <1>2, <1>3, <2>2
  <2> QED BY <1>3, <2>1, <2>3 DEF Before, FirstPending, PendingAt
<1> QED BY <1>4, <1>5

\* A pending waiter is not charged: it holds no slot of what it waits for.
LEMMA WaitersUncharged ==
    ASSUME TypeOK, QueuesOK, NEW s \in Sems, NEW d \in ToSet(queue[s])
    PROVE  /\ d \in Configs /\ d \notin Holders(s)
           /\ \A r \in Sems : d \in ToSet(queue[r]) => r = s
<1>1. d \in Configs
      BY LenProperties DEF TypeOK, ToSet
<1>2. pc[d] \in {"global", "cred"} /\ s = Awaited(d)
      BY DEF QueuesOK
<1>3. d \notin Holders(s)
      BY <1>1, <1>2, SemsFacts DEF Holders, Awaited
<1> QED BY <1>1, <1>3, <1>2 DEF QueuesOK

LEMMA ChargedFinite ==
    ASSUME NEW s, woken \subseteq Configs
    PROVE  /\ Charged(s) \subseteq Configs
           /\ IsFiniteSet(Charged(s)) /\ Cardinality(Charged(s)) \in Nat
<1>1. Charged(s) \subseteq Configs
      BY DEF Charged, Holders, Handed
<1> QED BY <1>1, FS_Subset, FS_CardinalityType

-----------------------------------------------------------------------------
(* One segment of the event loop                                           *)

\* Where c stands after a segment that queues it for the semaphores in J (one
\* or none), and what it takes and gives back.  Every segment is of this kind.
Requeued(c, J) ==
    \A s \in Sems :
        /\ ToSet(queue'[s]) = (ToSet(queue[s]) \ {c}) \cup (IF s \in J THEN {c} ELSE {})
        /\ \A x, y : x # c /\ y # c /\ Before(queue[s], x, y) => Before(queue'[s], x, y)
        /\ s \in J => /\ c \notin ToSet(queue[s]) /\ Locked(s)
                      /\ \A x \in ToSet(queue[s]) : Before(queue'[s], x, c)

Charges(c, J, take, back, wake) ==
    /\ \A d \in Configs \ {c} : pc'[d] = pc[d]
    /\ \A s \in Sems :
          /\ c \notin Pending(s)
          /\ s \in take => /\ c \notin Charged(s) /\ c \in Holders(s)' /\ s \notin back
                           /\ value[s] > 0 /\ Pending(s) = {}
          /\ s \in back => c \in Charged(s) /\ c \notin Holders(s)' /\ s \in wake
          /\ s \notin take \cup back => (c \in Charged(s) <=> c \in Holders(s)')
          /\ c \in Handed(s) => s \in wake
          /\ s \in J => s \notin take \cup back

\* The semaphores that hand a slot over in the segment, and what they have left.
Left(s, take, back) == value[s] - (IF s \in take THEN 1 ELSE 0) + (IF s \in back THEN 1 ELSE 0)
Hands(take, back, wake) == {s \in wake : Left(s, take, back) > 0 /\ Pending(s) # {}}

\* A segment keeps the books, hands slots over in order and leaves none lying.
LEMMA Segment ==
    ASSUME Consistent, NEW c \in Configs, NEW J, NEW take, NEW back, NEW wake,
           wake \subseteq Sems, Count(c, take, back, wake), Requeued(c, J),
           Charges(c, J, take, back, wake),
           \A d \in Configs \ {c} : d \in cancelled' <=> d \in cancelled
    PROVE  /\ value' \in [Sems -> Nat] /\ woken' \subseteq Configs
           /\ \A d \in woken' : d # c /\ pc'[d] \in {"global", "cred"}
           /\ Balanced' /\ NoLostWakeup' /\ HandedFirst'
<1> DEFINE H == Hands(take, back, wake)
           L(s) == Left(s, take, back)
<1> USE DEF Consistent
<1>1. /\ value' = [s \in Sems |-> L(s) - (IF s \in H THEN 1 ELSE 0)]
      /\ woken' = (woken \ {c}) \cup {FirstPending(s) : s \in H}
      BY DEF Count, Left, Hands
<1>2. H \subseteq Sems /\ \A s \in H : L(s) > 0 /\ Pending(s) # {}
      BY DEF Hands
<1>3. \A s \in Sems : L(s) \in Nat
      BY DEF Left, Charges, TypeOK
<1> HIDE DEF H, L
<1>4. ASSUME NEW s \in H
      PROVE  /\ FirstPending(s) \in Pending(s) /\ FirstPending(s) \in ToSet(queue[s])
             /\ FirstPending(s) \in Configs /\ FirstPending(s) # c
             /\ FirstPending(s) \notin Charged(s)
             /\ \A r \in Sems : FirstPending(s) \in ToSet(queue[r]) => r = s
  <2>1. FirstPending(s) \in Pending(s)
        BY <1>2, FirstIsFirst
  <2>2. FirstPending(s) \in ToSet(queue[s]) /\ FirstPending(s) \notin Handed(s)
        BY <2>1 DEF Pending, Handed
  <2>3. FirstPending(s) # c
        BY <1>2, <2>1 DEF Charges
  <2> QED BY <1>2, <2>1, <2>2, <2>3, WaitersUncharged DEF Charged
<1>5. value' \in [Sems -> Nat] /\ woken' \subseteq Configs
  <2>1. \A s \in Sems : L(s) - (IF s \in H THEN 1 ELSE 0) \in Nat
        BY <1>2, <1>3
  <2> QED BY <1>1, <1>4, <2>1 DEF TypeOK
<1>6. ASSUME NEW d \in woken' PROVE d # c /\ pc'[d] \in {"global", "cred"}
  <2>1. CASE d \in woken \ {c}
        BY <2>1 DEF TasksOK, Charges, TypeOK
  <2>2. CASE \E s \in H : d = FirstPending(s)
    <3>1. PICK s \in H : d = FirstPending(s)
          BY <2>2
    <3>2. d \in ToSet(queue[s]) /\ d \in Configs \ {c}
          BY <1>4, <3>1
    <3> QED BY <1>2, <3>2 DEF QueuesOK, Charges
  <2> QED BY <1>1, <1>6, <2>1, <2>2
<1>7. ASSUME NEW s \in Sems
      PROVE  Handed(s)' = (Handed(s) \ {c}) \cup (IF s \in H THEN {FirstPending(s)} ELSE {})
  <2>1. Handed(s)' = {d \in woken' : d \in ToSet(queue'[s])}
        BY DEF Handed
  <2>2. \A d \in woken' : d # c /\ (d \in ToSet(queue'[s]) <=> d \in ToSet(queue[s]))
        BY <1>6 DEF Requeued
  <2> QED BY <1>1, <1>4, <2>1, <2>2 DEF Handed
<1>8. ASSUME NEW s \in Sems, NEW d \in Pending(s)'
      PROVE  /\ d \in Pending(s) \/ (d = c /\ s \in J)
             /\ s \in H => d # FirstPending(s)
  <2>1. d \in ToSet(queue'[s]) /\ d \notin woken' /\ d \notin cancelled'
        BY DEF Pending
  <2>2. CASE d = c
        BY <1>4, <2>1, <2>2 DEF Requeued
  <2>3. CASE d # c
    <3>1. d \in ToSet(queue[s]) /\ d \notin woken
          BY <1>1, <2>1, <2>3 DEF Requeued
    <3>2. d \notin cancelled
          BY <2>1, <2>3, <3>1, WaitersUncharged
    <3> QED BY <1>1, <2>1, <3>1, <3>2 DEF Pending
  <2> QED BY <2>2, <2>3
<1>9. HandedFirst'
  <2> SUFFICES ASSUME NEW s \in Sems, NEW h \in Handed(s)', NEW d \in Pending(s)'
               PROVE  Before(queue'[s], h, d)
      BY DEF HandedFirst
  <2>1. h # c /\ h \in ToSet(queue[s])
        BY <1>4, <1>7 DEF Handed
  <2>2. CASE d = c /\ d \notin Pending(s)
        BY <1>8, <2>1, <2>2 DEF Requeued
  <2>3. CASE d \in Pending(s)
    <3>1. d # c
          BY <2>3 DEF Charges
    <3>2. Before(queue[s], h, d)
      <4>1. CASE h \in Handed(s)
            BY <2>3, <4>1 DEF HandedFirst
      <4>2. CASE s \in H /\ h = FirstPending(s)
            BY <1>2, <1>8, <2>3, <4>2, FirstIsFirst
      <4> QED BY <1>7, <4>1, <4>2
    <3> QED BY <2>1, <3>1, <3>2 DEF Requeued
  <2> QED BY <1>8, <2>2, <2>3
<1>10. NoLostWakeup'
  <2> SUFFICES ASSUME NEW s \in Sems, value'[s] > 0, Pending(s)' # {}
               PROVE  Handed(s)' # {}
      BY DEF NoLostWakeup
  <2>1. CASE s \in H
        BY <1>7, <2>1
  <2>2. CASE s \notin H
    <3>1. value'[s] = L(s)
          BY <1>1, <1>3, <2>2
    <3>2. CASE Pending(s) # {}
      <4>1. s \notin wake /\ s \notin take /\ s \notin back
            BY <2>2, <3>1, <3>2 DEF Hands, Charges, H, L
      <4>2. value[s] > 0
            BY <3>1, <4>1 DEF L, Left, TypeOK
      <4>3. Handed(s) # {} /\ c \notin Handed(s)
            BY <3>2, <4>1, <4>2 DEF NoLostWakeup, Charges
      <4> QED BY <1>7, <4>3
    <3>3. CASE Pending(s) = {}
      <4>1. s \in J
            BY <1>8, <3>3
      <4>2. value[s] > 0
            BY <3>1, <4>1 DEF L, Left, TypeOK, Charges
      <4>3. PICK d \in ToSet(queue[s]) : ~Withdrawn(d)
        <5>1. Locked(s)
              BY <4>1 DEF Requeued
        <5>2. value[s] # 0
              BY <4>2
        <5> QED BY <5>1, <5>2 DEF Locked
      <4>4. d \in Handed(s)
            BY <3>3, <4>3 DEF Withdrawn, Pending, Handed
      <4>5. d # c
            BY <4>1, <4>3 DEF Requeued
      <4> QED BY <1>7, <4>4, <4>5
    <3> QED BY <3>2, <3>3
  <2> QED BY <2>1, <2>2
<1>11. Balanced'
  <2> SUFFICES ASSUME NEW s \in Sems
               PROVE  value'[s] + Cardinality(Charged(s)') = Limit(s)
      BY DEF Balanced, Limit
  <2> DEFINE C == Charged(s)
             D == IF s \in take THEN C \cup {c} ELSE IF s \in back THEN C \ {c} ELSE C
  <2>1. Holders(s)' \ {c} = Holders(s) \ {c}
        BY DEF Holders, Charges
  <2>2. Charged(s)' = D \cup (IF s \in H THEN {FirstPending(s)} ELSE {})
    <3>1. c \in Charged(s)' <=> c \in Holders(s)'
          BY <1>4, <1>7 DEF Charged
    <3>2. c \in Holders(s)' <=> c \in D
          BY DEF Charges
    <3>3. \A d : d # c =>
             (d \in Charged(s)' <=> d \in D \/ (s \in H /\ d = FirstPending(s)))
          BY <1>7, <2>1 DEF Charged
    <3>4. s \in H => FirstPending(s) # c
          BY <1>4
    <3> QED BY <3>1, <3>2, <3>3, <3>4
  <2>3. IsFiniteSet(C) /\ Cardinality(C) \in Nat
        BY ChargedFinite DEF TypeOK
  <2>4. /\ IsFiniteSet(D) /\ Cardinality(D) \in Nat
        /\ L(s) + Cardinality(D) = Limit(s)
    <3>1. value[s] + Cardinality(C) = Limit(s) /\ value[s] \in Nat /\ Limit(s) \in Nat
          BY SemsFacts DEF Balanced, TypeOK
    <3>2. CASE s \in take
      <4>1. c \notin C /\ s \notin back
            BY <3>2 DEF Charges
      <4>2. IsFiniteSet(D) /\ Cardinality(D) = Cardinality(C) + 1
            BY <2>3, <3>2, <4>1, FS_AddElement
      <4> QED BY <2>3, <3>1, <3>2, <4>1, <4>2 DEF L, Left
    <3>3. CASE s \in back
      <4>1. c \in C /\ s \notin take
            BY <3>3 DEF Charges
      <4>2. IsFiniteSet(D) /\ Cardinality(D) = Cardinality(C) - 1 /\ Cardinality(D) \in Nat
            BY <2>3, <3>3, <4>1, FS_RemoveElement, FS_CardinalityType
      <4> QED BY <2>3, <3>1, <3>3, <4>1, <4>2 DEF L, Left
    <3>4. CASE s \notin take /\ s \notin back
          BY <2>3, <3>1, <3>4 DEF L, Left
    <3> QED BY <3>2, <3>3, <3>4
  <2>5. CASE s \notin H
        BY <1>1, <1>3, <2>2, <2>4, <2>5
  <2>6. CASE s \in H
    <3>1. FirstPending(s) \notin D
          BY <1>4, <2>6
    <3>2. Cardinality(Charged(s)') = Cardinality(D) + 1
          BY <2>2, <2>4, <2>6, <3>1, FS_AddElement
    <3>3. value'[s] = L(s) - 1 /\ L(s) \in Nat /\ Limit(s) \in Nat
          BY <1>1, <1>3, <2>6, SemsFacts
    <3> QED BY <2>4, <3>2, <3>3
  <2> QED BY <2>5, <2>6
<1> QED BY <1>5, <1>6, <1>9, <1>10, <1>11

-----------------------------------------------------------------------------
(* The queues of a segment                                                 *)

QueuesTyped == /\ queue \in [Sems -> Seq(Configs)]
               /\ \A s \in Sems : IsInjective(queue[s])

LEMMA QueuesForRequeues ==
    ASSUME Consistent, NEW c \in Configs, NEW s \in Sems, QueuesFor(c, s),
           c \notin ToSet(queue[s]), Locked(s)
    PROVE  Requeued(c, {s}) /\ QueuesTyped'
<1> USE DEF Consistent
<1>1. \A r \in Sems : queue[r] \in Seq(Configs) /\ IsInjective(queue[r])
      BY DEF TypeOK, QueuesOK
<1>2. queue' = [r \in Sems |-> IF r = s THEN Append(queue[r], c) ELSE RemoveFirst(queue[r], c)]
      BY DEF QueuesFor
<1>3. queue'[s] = Append(queue[s], c)
      BY <1>2
<1>4. /\ queue'[s] \in Seq(Configs) /\ IsInjective(queue'[s])
      /\ ToSet(queue'[s]) = ToSet(queue[s]) \cup {c}
      /\ \A x, y : Before(queue[s], x, y) => Before(queue'[s], x, y)
      /\ \A x \in ToSet(queue[s]) : Before(queue'[s], x, c)
      BY <1>1, <1>3, AppendBehind
<1>5. ASSUME NEW r \in Sems, r # s
      PROVE  /\ queue'[r] \in Seq(Configs) /\ IsInjective(queue'[r])
             /\ ToSet(queue'[r]) = ToSet(queue[r]) \ {c}
             /\ \A x, y : x # c /\ y # c /\ Before(queue[r], x, y) => Before(queue'[r], x, y)
  <2>1. queue'[r] = RemoveFirst(queue[r], c)
        BY <1>2, <1>5
  <2> QED BY <1>1, <2>1, RemoveOne
<1>6. Requeued(c, {s})
      BY <1>4, <1>5 DEF Requeued
<1>7. queue' \in [Sems -> Seq(Configs)]
      BY <1>2, <1>4, <1>5
<1> QED BY <1>4, <1>5, <1>6, <1>7 DEF QueuesTyped

LEMMA QueuesNowhereRequeues ==
    ASSUME Consistent, NEW c \in Configs, QueuesNowhere(c)
    PROVE  Requeued(c, {}) /\ QueuesTyped'
<1> USE DEF Consistent
<1>1. \A r \in Sems : queue[r] \in Seq(Configs) /\ IsInjective(queue[r])
      BY DEF TypeOK, QueuesOK
<1>2. queue' = [r \in Sems |-> RemoveFirst(queue[r], c)]
      BY DEF QueuesNowhere
<1>3. ASSUME NEW r \in Sems
      PROVE  /\ queue'[r] \in Seq(Configs) /\ IsInjective(queue'[r])
             /\ ToSet(queue'[r]) = ToSet(queue[r]) \ {c}
             /\ \A x, y : x # c /\ y # c /\ Before(queue[r], x, y) => Before(queue'[r], x, y)
  <2>1. queue'[r] = RemoveFirst(queue[r], c)
        BY <1>2
  <2> QED BY <1>1, <2>1, RemoveOne
<1>4. queue' \in [Sems -> Seq(Configs)]
      BY <1>2, <1>3
<1> QED BY <1>3, <1>4 DEF Requeued, QueuesTyped

\* Whoever stands outside the queues, or inside the slots, is in no queue.
LEMMA QueuesUnchangedRequeues ==
    ASSUME Consistent, NEW c \in Configs, UNCHANGED queue, pc[c] \notin {"global", "cred"}
    PROVE  Requeued(c, {}) /\ QueuesTyped'
<1>1. \A s \in Sems : c \notin ToSet(queue[s])
      BY DEF Consistent, QueuesOK
<1> QED BY <1>1 DEF Consistent, TypeOK, QueuesOK, Requeued, QueuesTyped

\* c's segment keeps everything consistent if its queue fits its new phase.
LEMMA SegmentConsistent ==
    ASSUME Consistent, NEW c \in Configs, NEW phase \in {"out", "global", "cred", "in"},
           NEW J, NEW take, NEW back, NEW wake,
           wake \subseteq Sems, Count(c, take, back, wake), Goto(c, phase),
           Requeued(c, J), QueuesTyped', Charges(c, J, take, back, wake),
           \/ phase \in {"global", "cred"} /\ J = {Awaited(c)'}
           \/ phase \in {"out", "in"} /\ J = {},
           \A d \in Configs \ {c} : d \in cancelled' <=> d \in cancelled,
           cancelled' \subseteq Configs, c \in cancelled' => phase # "out",
           flying' \subseteq Configs, orphans' \in [Creds -> Nat], cancels' \in 0..MaxCancels
    PROVE  Consistent'
<1> USE DEF Consistent
<1>1. pc' \in [Configs -> {"out", "global", "cred", "in"}] /\ pc'[c] = phase
      BY DEF Goto, TypeOK
<1>2. /\ value' \in [Sems -> Nat] /\ woken' \subseteq Configs
      /\ \A d \in woken' : d # c /\ pc'[d] \in {"global", "cred"}
      /\ Balanced' /\ NoLostWakeup' /\ HandedFirst'
      BY Segment
<1>3. TypeOK'
      BY <1>1, <1>2 DEF TypeOK, QueuesTyped
<1>4. \A d \in Configs \ {c} : pc'[d] = pc[d] /\ Awaited(d)' = Awaited(d)
      BY DEF Charges, Awaited
<1>5. QueuesOK'
  <2>1. ASSUME NEW s \in Sems, NEW d \in ToSet(queue'[s])
        PROVE  pc'[d] \in {"global", "cred"} /\ s = Awaited(d)'
    <3>1. CASE d = c
          BY <1>1, <2>1, <3>1 DEF Requeued
    <3>2. CASE d # c
      <4>1. d \in ToSet(queue[s])
            BY <2>1, <3>2 DEF Requeued
      <4> QED BY <1>4, <3>2, <4>1, WaitersUncharged DEF QueuesOK
    <3> QED BY <3>1, <3>2
  <2>2. ASSUME NEW d \in Configs, pc'[d] \in {"global", "cred"}
        PROVE  d \in ToSet(queue'[Awaited(d)'])
    <3>1. Awaited(d)' \in Sems
          BY SemsFacts DEF Awaited
    <3>2. CASE d = c
          BY <1>1, <2>2, <3>1, <3>2 DEF Requeued
    <3>3. CASE d # c
          BY <1>4, <2>2, <3>1, <3>3 DEF QueuesOK, Requeued
    <3> QED BY <3>2, <3>3
  <2> QED BY <2>1, <2>2 DEF QueuesOK, QueuesTyped
<1>6. TasksOK'
      BY <1>1, <1>2, <1>4 DEF TasksOK
<1> QED BY <1>2, <1>3, <1>5, <1>6

-----------------------------------------------------------------------------
(* The actions                                                             *)

\* Where a task is counted, by its phase.
LEMMA Standing ==
    ASSUME Consistent, NEW c \in Configs, NEW s \in Sems
    PROVE  /\ pc[c] = "out" => c \notin Holders(s)
           /\ pc[c] = "global" => c \notin Holders(s)
           /\ pc[c] = "cred" => (c \in Holders(s) <=> s = Global)
           /\ pc[c] = "in" => (c \in Holders(s) <=> s \in {Global, CredOf[c]})
           /\ pc[c] \in {"out", "in"} =>
                 c \notin ToSet(queue[s]) /\ c \notin Handed(s) /\ c \notin Pending(s)
           /\ pc[c] \in {"global", "cred"} =>
                 /\ c \in ToSet(queue[s]) <=> s = Awaited(c)
                 /\ c \in Handed(s) <=> c \in woken /\ s = Awaited(c)
           /\ c \in woken \cup cancelled => c \notin Pending(s)
<1>1. c \in ToSet(queue[s]) <=> pc[c] \in {"global", "cred"} /\ s = Awaited(c)
      BY DEF Consistent, QueuesOK
<1> QED BY <1>1, SemsFacts DEF Holders, Handed, Pending

\* Where it is counted after it has gone on.
LEMMA StandingNext ==
    ASSUME Consistent, NEW c \in Configs, NEW phase, Goto(c, phase), NEW s \in Sems
    PROVE  /\ phase \in {"out", "global"} => c \notin Holders(s)'
           /\ phase = "cred" => (c \in Holders(s)' <=> s = Global)
           /\ phase = "in" => (c \in Holders(s)' <=> s \in {Global, CredOf[c]})
           /\ phase = "global" => Awaited(c)' = Global
           /\ phase = "cred" => Awaited(c)' = CredOf[c]
<1>1. pc'[c] = phase
      BY DEF Consistent, TypeOK, Goto
<1> QED BY <1>1, SemsFacts DEF Holders, Awaited

LEMMA OthersStay ==
    ASSUME Consistent, NEW c \in Configs, NEW phase, Goto(c, phase)
    PROVE  \A d \in Configs \ {c} : pc'[d] = pc[d]
BY DEF Consistent, TypeOK, Goto

\* A semaphore that is not locked has a slot, and nobody in line for it.
LEMMA Unlocked ==
    ASSUME TypeOK, NEW s \in Sems, ~Locked(s)
    PROVE  value[s] > 0 /\ Pending(s) = {}
BY DEF TypeOK, Locked, Pending, Withdrawn

LEMMA EnterConsistent ==
    ASSUME Consistent, NEW c \in Configs, NEW taken, NEW wake, EnterAccount(c, taken, wake),
           \/ pc[c] = "out" /\ ~Locked(Global) /\ taken = {Global} /\ wake = {}
           \/ pc[c] = "global" /\ c \in woken /\ taken = {} /\ wake = {Global},
           UNCHANGED <<cancelled, orphans, cancels>>
    PROVE  Consistent'
<1> DEFINE k == CredOf[c]
<1>1. /\ cancelled' \subseteq Configs /\ flying \subseteq Configs
      /\ orphans' \in [Creds -> Nat] /\ cancels' \in 0..MaxCancels
      BY DEF Consistent, TypeOK
<1>2. k \in Sems /\ Global \in Sems /\ k # Global /\ wake \subseteq Sems
      BY SemsFacts
<1>3. \A s \in Sems : c \notin Pending(s) /\ c \notin Holders(s)
                      /\ (c \in Handed(s) <=> s \in wake)
      BY Standing DEF Awaited
<1>4. taken = {Global} => value[Global] > 0 /\ Pending(Global) = {}
      BY <1>2, Unlocked DEF Consistent
<1>5. CASE /\ Locked(k) /\ Goto(c, "cred") /\ UNCHANGED flying
           /\ QueuesFor(c, k) /\ Count(c, taken, {}, wake)
  <2>1. c \notin ToSet(queue[k])
        BY <1>2, Standing DEF Awaited
  <2>2. Requeued(c, {k}) /\ QueuesTyped'
        BY <1>2, <1>5, <2>1, QueuesForRequeues
  <2>3. Charges(c, {k}, taken, {}, wake)
        BY <1>2, <1>3, <1>4, <1>5, StandingNext, OthersStay DEF Charges, Charged
  <2>4. {k} = {Awaited(c)'}
        BY <1>2, <1>5, StandingNext
  <2> QED BY <1>1, <1>2, <1>5, <2>2, <2>3, <2>4, SegmentConsistent
<1>6. CASE /\ ~Locked(k) /\ Launch(c)
           /\ QueuesNowhere(c) /\ Count(c, taken \cup {k}, {}, wake)
  <2>1. Goto(c, "in") /\ flying' \subseteq Configs
        BY <1>1, <1>6 DEF Launch
  <2>2. Requeued(c, {}) /\ QueuesTyped'
        BY <1>6, QueuesNowhereRequeues
  <2>3. value[k] > 0 /\ Pending(k) = {}
        BY <1>2, <1>6, Unlocked DEF Consistent
  <2>4. Charges(c, {}, taken \cup {k}, {}, wake)
        BY <1>2, <1>3, <1>4, <2>1, <2>3, StandingNext, OthersStay DEF Charges, Charged
  <2> QED BY <1>1, <1>2, <1>6, <2>1, <2>2, <2>4, SegmentConsistent
<1> QED BY <1>5, <1>6 DEF EnterAccount

LEMMA RequestConsistent ==
    ASSUME Consistent, NEW c \in Configs, Request(c) PROVE Consistent'
<1>1. CASE ~Locked(Global)
      BY <1>1, EnterConsistent DEF Request
<1>2. CASE Locked(Global)
  <2>1. /\ Goto(c, "global") /\ QueuesFor(c, Global) /\ pc[c] = "out"
        /\ UNCHANGED <<value, woken, flying, cancelled, orphans, cancels>>
        BY <1>2 DEF Request
  <2>2. Count(c, {}, {}, {})
    <3> DEFINE left(s) == value[s] - (IF s \in {} THEN 1 ELSE 0) + (IF s \in {} THEN 1 ELSE 0)
               hands == {s \in {} : left(s) > 0 /\ Pending(s) # {}}
    <3>1. hands = {} /\ {FirstPending(s) : s \in hands} = {}
          OBVIOUS
    <3>2. woken' = (woken \ {c}) \cup {FirstPending(s) : s \in hands}
          BY <2>1, <3>1 DEF Consistent, TasksOK
    <3>3. \A s \in Sems : left(s) - (IF s \in hands THEN 1 ELSE 0) = value[s]
          BY <3>1 DEF Consistent, TypeOK
    <3>4. value' = [s \in Sems |-> left(s) - (IF s \in hands THEN 1 ELSE 0)]
          BY <2>1, <3>3 DEF Consistent, TypeOK
    <3> QED BY <3>2, <3>4 DEF Count
  <2>3. Requeued(c, {Global}) /\ QueuesTyped'
        BY <1>2, <2>1, SemsFacts, Standing, QueuesForRequeues
  <2>4. Charges(c, {Global}, {}, {}, {})
    <3>1. \A s \in Sems : /\ c \notin Pending(s) /\ c \notin Handed(s)
                          /\ c \notin Holders(s) /\ c \notin Holders(s)'
          BY <2>1, Standing, StandingNext
    <3> QED BY <2>1, <3>1, OthersStay DEF Charges, Charged
  <2>5. {Global} = {Awaited(c)'}
        BY <2>1, SemsFacts, StandingNext
  <2>6. /\ cancelled' \subseteq Configs /\ flying' \subseteq Configs
        /\ orphans' \in [Creds -> Nat] /\ cancels' \in 0..MaxCancels
        BY <2>1 DEF Consistent, TypeOK
  <2> QED BY <2>1, <2>2, <2>3, <2>4, <2>5, <2>6, SegmentConsistent
<1> QED BY <1>1, <1>2

LEMMA ResumeConsistent ==
    ASSUME Consistent, NEW c \in Configs, Resume(c) PROVE Consistent'
<1>1. CASE pc[c] = "global"
      BY <1>1, EnterConsistent DEF Resume
<1>2. CASE pc[c] = "cred"
  <2> DEFINE k == CredOf[c]
  <2>1. /\ Goto(c, "in") /\ flying' = flying \cup {c} /\ c \in woken /\ c \notin cancelled
        /\ QueuesNowhere(c) /\ Count(c, {}, {}, {k})
        /\ UNCHANGED <<cancelled, orphans, cancels>>
        BY <1>2 DEF Resume, Launch
  <2>2. Requeued(c, {}) /\ QueuesTyped'
        BY <2>1, QueuesNowhereRequeues
  <2>3. Charges(c, {}, {}, {}, {k})
    <3>1. \A s \in Sems : /\ c \notin Pending(s) /\ (c \in Handed(s) <=> s = k)
                          /\ (c \in Holders(s) <=> s = Global)
                          /\ (c \in Holders(s)' <=> s \in {Global, k})
          BY <1>2, <2>1, Standing, StandingNext DEF Awaited
    <3> QED BY <2>1, <3>1, OthersStay DEF Charges, Charged
  <2>4. /\ cancelled' \subseteq Configs /\ flying' \subseteq Configs
        /\ orphans' \in [Creds -> Nat] /\ cancels' \in 0..MaxCancels
        BY <2>1 DEF Consistent, TypeOK
  <2>5. {k} \subseteq Sems
        BY SemsFacts
  <2> QED BY <2>1, <2>2, <2>3, <2>4, <2>5, SegmentConsistent
<1> QED BY <1>1, <1>2 DEF Resume

LEMMA ExitConsistent ==
    ASSUME Consistent, NEW c \in Configs, Exit(c) PROVE Consistent'
<1> DEFINE both == {Global, CredOf[c]}
<1>1. /\ Goto(c, "out") /\ pc[c] = "in" /\ c \notin cancelled /\ Count(c, {}, both, both)
      /\ UNCHANGED <<queue, cancelled, flying, orphans, cancels>>
      BY DEF Exit
<1>2. Requeued(c, {}) /\ QueuesTyped'
      BY <1>1, QueuesUnchangedRequeues
<1>3. Charges(c, {}, {}, both, both)
  <2>1. \A s \in Sems : /\ c \notin Pending(s) /\ c \notin Handed(s)
                        /\ (c \in Holders(s) <=> s \in both) /\ c \notin Holders(s)'
        BY <1>1, Standing, StandingNext
  <2> QED BY <1>1, <2>1, OthersStay DEF Charges, Charged
<1>4. /\ cancelled' \subseteq Configs /\ flying' \subseteq Configs
      /\ orphans' \in [Creds -> Nat] /\ cancels' \in 0..MaxCancels
      BY <1>1 DEF Consistent, TypeOK
<1>5. both \subseteq Sems
      BY SemsFacts
<1> QED BY <1>1, <1>2, <1>3, <1>4, <1>5, SegmentConsistent

LEMMA UnwindConsistent ==
    ASSUME Consistent, NEW c \in Configs, Unwind(c) PROVE Consistent'
<1> DEFINE owed == Owed(c)
<1>1. /\ Goto(c, "out") /\ c \in cancelled /\ QueuesNowhere(c) /\ Count(c, {}, owed, owed)
      /\ cancelled' = cancelled \ {c} /\ flying' = flying \ {c} /\ UNCHANGED cancels
      BY DEF Unwind
<1>2. Requeued(c, {}) /\ QueuesTyped'
      BY <1>1, QueuesNowhereRequeues
<1>3. owed \subseteq Sems /\ \A s \in Sems : s \in owed <=> c \in Charged(s)
  <2>1. \A s \in Sems : c \in Charged(s) => s \in {Global, CredOf[c]}
        BY Standing DEF Charged, Awaited, Consistent, TypeOK, TasksOK
  <2> QED BY <2>1, SemsFacts DEF Owed, Charged
<1>4. Charges(c, {}, {}, owed, owed)
  <2> HIDE DEF owed
  <2>1. \A s \in Sems : c \notin Pending(s) /\ c \notin Holders(s)'
        BY <1>1, Standing, StandingNext
  <2> QED BY <1>1, <1>3, <2>1, OthersStay DEF Charges, Charged
<1>5. orphans' \in [Creds -> Nat]
  <2>1. orphans \in [Creds -> Nat] /\ CredOf[c] \in Creds
        BY SemsFacts DEF Consistent, TypeOK
  <2> QED BY <2>1 DEF Unwind
<1>6. cancelled' \subseteq Configs /\ flying' \subseteq Configs /\ cancels' \in 0..MaxCancels
      BY <1>1 DEF Consistent, TypeOK
<1> HIDE DEF owed
<1> QED BY <1>1, <1>2, <1>3, <1>4, <1>5, <1>6, SegmentConsistent

\* A launch that ends, here or orphaned, and a cancellation move no slot.
LEMMA CancelConsistent ==
    ASSUME Consistent, NEW c \in Configs, Cancel(c) PROVE Consistent'
<1> USE DEF Consistent
<1>1. /\ UNCHANGED <<value, queue, woken, pc, flying, orphans>> /\ pc[c] # "out"
      /\ cancelled' = cancelled \cup {c} /\ cancels' \in 0..MaxCancels
      BY DEF Cancel, TypeOK
<1>2. TypeOK' /\ QueuesOK' /\ TasksOK'
      BY <1>1 DEF TypeOK, QueuesOK, TasksOK, Awaited
<1>3. \A s : Holders(s)' = Holders(s) /\ Handed(s)' = Handed(s) /\ Charged(s)' = Charged(s)
      BY <1>1 DEF Holders, Handed, Charged
<1>4. \A s : Pending(s)' \subseteq Pending(s)
      BY <1>1 DEF Pending
<1>5. Balanced' /\ NoLostWakeup' /\ HandedFirst'
      BY <1>1, <1>3, <1>4 DEF Balanced, NoLostWakeup, HandedFirst, Limit
<1> QED BY <1>2, <1>5

LEMMA QuietConsistent ==
    ASSUME Consistent,
           UNCHANGED <<value, queue, woken, pc, cancelled, cancels>>,
           flying' \subseteq Configs, orphans' \in [Creds -> Nat]
    PROVE  Consistent'
<1> USE DEF Consistent
<1>1. TypeOK' /\ QueuesOK' /\ TasksOK'
      BY DEF TypeOK, QueuesOK, TasksOK, Awaited
<1>2. \A s : Charged(s)' = Charged(s) /\ Handed(s)' = Handed(s) /\ Pending(s)' = Pending(s)
      BY DEF Holders, Handed, Charged, Pending
<1>3. Balanced' /\ NoLostWakeup' /\ HandedFirst'
      BY <1>2 DEF Balanced, NoLostWakeup, HandedFirst, Limit
<1> QED BY <1>1, <1>3

LEMMA InitConsistent == Init => Consistent
<1> SUFFICES ASSUME Init PROVE Consistent
    OBVIOUS
<1>1. \A s : ToSet(<<>>) = {} /\ IsInjective(<<>>)
      BY DEF ToSet, IsInjective
<1>2. TypeOK
      BY SemsFacts DEF Init, TypeOK
<1>3. \A s \in Sems : Holders(s) = {} /\ Handed(s) = {} /\ Pending(s) = {}
      BY <1>1 DEF Init, Holders, Handed, Pending
<1>4. QueuesOK /\ TasksOK
      BY <1>1 DEF Init, QueuesOK, TasksOK
<1>5. Balanced
  <2>1. \A s \in Sems : Charged(s) = {} /\ value[s] = Limit(s) /\ Limit(s) \in Nat
        BY <1>3, SemsFacts DEF Init, Charged
  <2>2. Cardinality({}) = 0
        BY FS_EmptySet
  <2> QED BY <2>1, <2>2 DEF Balanced
<1>6. NoLostWakeup /\ HandedFirst
      BY <1>3 DEF NoLostWakeup, HandedFirst
<1> QED BY <1>2, <1>4, <1>5, <1>6 DEF Consistent

LEMMA NextConsistent == Consistent /\ [Next]_vars => Consistent'
<1> SUFFICES ASSUME Consistent, [Next]_vars PROVE Consistent'
    OBVIOUS
<1>1. ASSUME NEW c \in Configs, CallReturns(c) PROVE Consistent'
      BY <1>1, QuietConsistent DEF CallReturns, Consistent, TypeOK
<1>2. ASSUME NEW k \in Creds, OrphanReturns(k) PROVE Consistent'
      BY <1>2, QuietConsistent DEF OrphanReturns, Consistent, TypeOK
<1>3. CASE UNCHANGED vars
      BY <1>3, QuietConsistent DEF vars, Consistent, TypeOK
<1> QED BY <1>1, <1>2, <1>3, RequestConsistent, ResumeConsistent, ExitConsistent,
           CancelConsistent, UnwindConsistent DEF Next

-----------------------------------------------------------------------------
(* The theorems                                                            *)

\* Queues, futures, free slots and holders of the semaphores agree after every segment,
\* whoever is cancelled wherever it is: the invariant the others rest on.
THEOREM AlwaysConsistent == Spec => []Consistent
BY InitConsistent, NextConsistent, PTL DEF Spec

\* Every variable keeps its type: the _value of a semaphore is never negative and its
\* _waiters hold the polls of configs only.
THEOREM TypeCorrect == Spec => []TypeOK
<1>1. Consistent => TypeOK
      BY DEF Consistent
<1> QED BY AlwaysConsistent, <1>1, PTL

\* No slot is lost or made up: free, handed over and held ones add up to the limit,
\* whichever task is cancelled wherever it is (concurrency.py).
THEOREM NoSlotLost == Spec => []SlotsConserved
<1>1. ASSUME Consistent PROVE SlotsConserved
  <2> SUFFICES ASSUME NEW s \in Sems
               PROVE  value[s] + Cardinality(Holders(s)) + Cardinality(Handed(s)) = Limit(s)
      BY DEF SlotsConserved
  <2>1. /\ Holders(s) \cap Handed(s) = {}
        /\ Holders(s) \subseteq Configs /\ Handed(s) \subseteq Configs
        BY <1>1, WaitersUncharged DEF Handed, Holders, Consistent, TypeOK
  <2>2. /\ IsFiniteSet(Holders(s)) /\ Cardinality(Holders(s)) \in Nat
        /\ IsFiniteSet(Handed(s)) /\ Cardinality(Handed(s)) \in Nat
        BY <2>1, FS_Subset, FS_CardinalityType
  <2>3. Cardinality(Charged(s)) = Cardinality(Holders(s)) + Cardinality(Handed(s))
    <3>1. Cardinality(Holders(s) \cup Handed(s))
              = Cardinality(Holders(s)) + Cardinality(Handed(s))
                - Cardinality(Holders(s) \cap Handed(s))
          BY <2>2, FS_Union
    <3>2. Cardinality(Holders(s) \cap Handed(s)) = 0
          BY <2>1, FS_EmptySet
    <3> QED BY <2>2, <3>1, <3>2 DEF Charged
  <2> QED BY <1>1, <2>2, <2>3 DEF Consistent, Balanced, TypeOK
<1> QED BY AlwaysConsistent, <1>1, PTL

\* No free slot is left lying while a task waits for it: a cancelled waiter that had
\* been woken passes the slot on.
THEOREM WakeupsArrive == Spec => []NoLostWakeup
<1>1. Consistent => NoLostWakeup
      BY DEF Consistent
<1> QED BY AlwaysConsistent, <1>1, PTL

-----------------------------------------------------------------------------
(* Order                                                                   *)

\* Who enters past s is the task that runs, and either finds s unlocked or has
\* had a slot of it handed over.
LEMMA Entering ==
    ASSUME Consistent, NEW e \in Configs, Request(e) \/ Resume(e) \/ Exit(e) \/ Unwind(e),
           NEW s \in Sems, NEW c \in Configs, c \in Holders(s)', c \notin Holders(s)
    PROVE  c = e /\ (Pending(s) = {} \/ c \in Handed(s))
<1>1. CASE Request(e)
  <2>1. pc[e] = "out"
        BY <1>1 DEF Request
  <2>2. CASE Locked(Global)
    <3>1. Goto(e, "global")
          BY <1>1, <2>2 DEF Request
    <3> QED BY <2>1, <3>1, Standing, StandingNext, OthersStay DEF Holders
  <2>3. CASE ~Locked(Global)
    <3>1. Pending(Global) = {}
          BY <2>3, SemsFacts, Unlocked DEF Consistent
    <3>2. \/ Goto(e, "cred")
          \/ Goto(e, "in") /\ ~Locked(CredOf[e])
          BY <1>1, <2>3 DEF Request, EnterAccount, Launch
    <3>3. CASE Goto(e, "cred")
          BY <3>1, <3>3, StandingNext, OthersStay DEF Holders
    <3>4. CASE Goto(e, "in") /\ ~Locked(CredOf[e])
      <4>1. Pending(CredOf[e]) = {}
            BY <3>4, SemsFacts, Unlocked DEF Consistent
      <4> QED BY <3>1, <3>4, <4>1, StandingNext, OthersStay DEF Holders
    <3> QED BY <3>2, <3>3, <3>4
  <2> QED BY <2>2, <2>3
<1>2. CASE Resume(e)
  <2>1. e \in woken
        BY <1>2 DEF Resume
  <2>2. CASE pc[e] = "global"
    <3>1. e \in Handed(Global)
          BY <2>1, <2>2, SemsFacts, Standing DEF Awaited
    <3>2. \/ Goto(e, "cred")
          \/ Goto(e, "in") /\ ~Locked(CredOf[e])
          BY <1>2, <2>2 DEF Resume, EnterAccount, Launch
    <3>3. CASE Goto(e, "cred")
          BY <3>1, <3>3, StandingNext, OthersStay DEF Holders
    <3>4. CASE Goto(e, "in") /\ ~Locked(CredOf[e])
      <4>1. Pending(CredOf[e]) = {}
            BY <3>4, SemsFacts, Unlocked DEF Consistent
      <4> QED BY <3>1, <3>4, <4>1, StandingNext, OthersStay DEF Holders
    <3> QED BY <3>2, <3>3, <3>4
  <2>3. CASE pc[e] = "cred"
    <3>1. e \in Handed(CredOf[e]) /\ e \in Holders(Global)
          BY <2>1, <2>3, SemsFacts, Standing DEF Awaited
    <3>2. Goto(e, "in")
          BY <1>2, <2>3 DEF Resume, Launch
    <3> QED BY <3>1, <3>2, StandingNext, OthersStay DEF Holders
  <2> QED BY <1>2, <2>2, <2>3 DEF Resume
<1>3. CASE Exit(e) \/ Unwind(e)
  <2>1. Goto(e, "out")
        BY <1>3 DEF Exit, Unwind
  <2> QED BY <2>1, StandingNext, OthersStay DEF Holders
<1> QED BY <1>1, <1>2, <1>3

\* A slot of a semaphore is only taken ahead of nobody: whoever enters stands
\* before all those in the queue who have no slot in hand (_wake_up_next).
THEOREM InOrder == Spec => FirstComeFirstServed
<1>1. ASSUME Consistent, [Next]_vars, NEW s \in Sems, NEW c \in Configs,
             c \in Holders(s)', c \notin Holders(s), NEW d \in Pending(s)
      PROVE  Before(queue[s], c, d)
  <2>1. CASE \E e \in Configs : Request(e) \/ Resume(e) \/ Exit(e) \/ Unwind(e)
        BY <1>1, <2>1, Entering DEF Consistent, HandedFirst
  <2>2. CASE UNCHANGED pc
        BY <1>1, <2>2 DEF Holders
  <2> QED BY <1>1, <2>1, <2>2 DEF Next, vars, CallReturns, OrphanReturns, Cancel
<1>2. Consistent /\ [Next]_vars =>
        [\A s \in Sems, c \in Configs :
             c \in Holders(s)' /\ c \notin Holders(s) =>
                 \A d \in Pending(s) :
                     d # c => \E i, j \in DOMAIN queue[s] :
                                 queue[s][i] = c /\ queue[s][j] = d /\ i < j]_vars
      BY <1>1 DEF Before
<1> QED BY AlwaysConsistent, <1>2, PTL DEF Spec, FirstComeFirstServed

-----------------------------------------------------------------------------
(* The promise                                                             *)

\* The instance counts as this module does.
LEMMA SameCount == \A S : Limits!Cardinality(S) = Cardinality(S)
BY DEF Limits!Cardinality, Cardinality

\* In terms of SlotLimits: who holds what, and that a slot is free for whoever
\* takes one.
LEMMA LimitsView ==
    ASSUME Consistent
    PROVE  /\ Limits!HasGlobal = Holders(Global)
           /\ \A c \in Configs : Limits!HasCred(CredOf[c]) = Holders(CredOf[c])
           /\ \A s \in Sems : /\ IsFiniteSet(Holders(s)) /\ Cardinality(Holders(s)) \in Nat
                               /\ Cardinality(Holders(s)) <= Limit(s)
           /\ \A s \in Sems : value[s] > 0 \/ Handed(s) # {} =>
                 Cardinality(Holders(s)) < Limit(s)
<1> USE DEF Consistent
<1>1. Limits!HasGlobal = Holders(Global)
      BY SemsFacts DEF Limits!HasGlobal, Holders
<1>2. \A c \in Configs : Limits!HasCred(CredOf[c]) = Holders(CredOf[c])
      BY SemsFacts DEF Limits!HasCred, Holders
<1>3. ASSUME NEW s \in Sems
      PROVE  /\ IsFiniteSet(Holders(s)) /\ Cardinality(Holders(s)) \in Nat
             /\ Cardinality(Holders(s)) <= Limit(s)
             /\ value[s] > 0 \/ Handed(s) # {} => Cardinality(Holders(s)) < Limit(s)
  <2>1. IsFiniteSet(Charged(s)) /\ Cardinality(Charged(s)) \in Nat
        BY ChargedFinite DEF TypeOK
  <2>2. Holders(s) \subseteq Charged(s)
        BY DEF Charged
  <2>3. /\ IsFiniteSet(Holders(s)) /\ Cardinality(Holders(s)) \in Nat
        /\ Cardinality(Holders(s)) <= Cardinality(Charged(s))
        /\ Cardinality(Holders(s)) = Cardinality(Charged(s)) => Holders(s) = Charged(s)
        BY <2>1, <2>2, FS_Subset, FS_CardinalityType
  <2>4. value[s] + Cardinality(Charged(s)) = Limit(s) /\ value[s] \in Nat /\ Limit(s) \in Nat
        BY SemsFacts DEF Balanced, TypeOK
  <2>5. Handed(s) # {} => Holders(s) # Charged(s)
        BY WaitersUncharged DEF Charged, Handed
  <2> QED BY <2>1, <2>3, <2>4, <2>5
<1> QED BY <1>1, <1>2, <1>3

\* OCI_MAX_CONCURRENT and OCI_PER_CREDENTIAL_MAX bound the polls that hold slots.
THEOREM LimitsKept == Spec => []WithinLimits
<1>1. Consistent => WithinLimits
      BY LimitsView, SameCount, SemsFacts DEF WithinLimits, Limits!WithinLimits, Limit
<1> QED BY AlwaysConsistent, <1>1, PTL

\* Entering the account's semaphore is a step of SlotLimits.
LEMMA EnterImplements ==
    ASSUME Consistent, NEW c \in Configs, NEW taken, NEW wake, EnterAccount(c, taken, wake),
           pc[c] \in {"out", "global"}, value[Global] > 0 \/ Handed(Global) # {}
    PROVE  Limits!Next
<1>1. Limits!GlobalFree
      BY LimitsView, SameCount, SemsFacts DEF Limits!GlobalFree, Limit
<1>2. CASE Goto(c, "cred")
      BY <1>1, <1>2 DEF Goto, Limits!Next, Limits!Serve, Limits!TakeGlobal, Limits!Moves
<1>3. CASE Goto(c, "in") /\ ~Locked(CredOf[c])
  <2>1. Limits!CredFree(CredOf[c])
        BY <1>3, LimitsView, SameCount, SemsFacts, Unlocked DEF Consistent, Limits!CredFree, Limit
  <2> QED BY <1>1, <1>3, <2>1 DEF Goto, Limits!Next, Limits!Serve, Limits!TakeBoth, Limits!Moves
<1> QED BY <1>2, <1>3 DEF EnterAccount, Launch

\* Every step of the semaphores is a step of SlotLimits, or leaves the phases.
LEMMA NextImplements ==
    ASSUME Consistent, [Next]_vars PROVE [Limits!Next]_pc
<1> USE DEF Consistent
<1>1. ASSUME NEW c \in Configs, Request(c) PROVE Limits!Next
  <2>1. CASE Locked(Global)
    <3>1. pc[c] = "out" /\ Goto(c, "global")
          BY <1>1, <2>1 DEF Request
    <3> QED BY <3>1 DEF Goto, Limits!Next, Limits!Wait, Limits!Moves
  <2>2. CASE ~Locked(Global)
    <3>1. value[Global] > 0
          BY <2>2, SemsFacts, Unlocked
    <3> QED BY <1>1, <2>2, <3>1, EnterImplements DEF Request
  <2> QED BY <2>1, <2>2
<1>2. ASSUME NEW c \in Configs, Resume(c) PROVE Limits!Next
  <2>1. c \in woken
        BY <1>2 DEF Resume
  <2>2. CASE pc[c] = "global"
    <3>1. c \in Handed(Global)
          BY <2>1, <2>2, SemsFacts, Standing DEF Awaited
    <3>2. EnterAccount(c, {}, {Global})
          BY <1>2, <2>2 DEF Resume
    <3> QED BY <2>2, <3>1, <3>2, EnterImplements
  <2>3. CASE pc[c] = "cred"
    <3>1. c \in Handed(CredOf[c])
          BY <2>1, <2>3, SemsFacts, Standing DEF Awaited
    <3>2. Limits!CredFree(CredOf[c])
          BY <3>1, LimitsView, SameCount, SemsFacts DEF Limits!CredFree, Limit
    <3>3. Goto(c, "in")
          BY <1>2, <2>3 DEF Resume, Launch
    <3> QED BY <2>3, <3>2, <3>3
            DEF Goto, Limits!Next, Limits!Serve, Limits!TakeCred, Limits!Moves
  <2> QED BY <1>2, <2>2, <2>3 DEF Resume
<1>3. ASSUME NEW c \in Configs, Exit(c) \/ Unwind(c) PROVE Limits!Next
  <2>1. Goto(c, "out") /\ pc[c] \in {"global", "cred", "in"}
        BY <1>3 DEF Exit, Unwind, TasksOK, TypeOK
  <2> QED BY <2>1 DEF Goto, Limits!Next, Limits!Leave, Limits!Moves
<1>4. CASE UNCHANGED pc
      BY <1>4
<1> QED BY <1>1, <1>2, <1>3, <1>4 DEF Next, vars, CallReturns, OrphanReturns, Cancel

\* The FIFO semaphores implement what concurrency.py promises.
THEOREM PromiseKept == Spec => ImplementsSlotLimits
<1>1. Init => Limits!Init
      BY DEF Init, Limits!Init
<1>2. Consistent /\ [Next]_vars => [Limits!Next]_pc
      BY NextImplements
<1> QED BY <1>1, <1>2, AlwaysConsistent, PTL DEF Spec, ImplementsSlotLimits, Limits!Spec
=============================================================================

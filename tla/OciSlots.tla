------------------------------ MODULE OciSlots ------------------------------
(***************************************************************************)
(* oci_slots (workers/concurrency.py): the global semaphore and one        *)
(* semaphore per credential, acquired in this order around every launch    *)
(* and released in the reverse order, under cancellation of the task that  *)
(* holds or awaits them.  The semaphores are asyncio.Semaphore of Python   *)
(* 3.12: FIFO futures, the slot of a releaser handed to the first waiter,  *)
(* which runs in a later iteration of the event loop.  Every action is one *)
(* uninterrupted segment of the loop, or an OS thread's launch ending.     *)
(***************************************************************************)
EXTENDS Naturals, Sequences, FiniteSets, SequencesExt

CONSTANTS Configs, CredOf, GlobalMax, CredMax,
          Global,       \* the global semaphore; the others are the credentials
          MaxCancels    \* bound: tasks the supervisor cancels

Creds == {CredOf[c] : c \in Configs}
Sems  == Creds \cup {Global}

ASSUME OciSlotsAssumption ==
    /\ IsFiniteSet(Configs) /\ Global \notin Creds
    /\ {GlobalMax, CredMax} \subseteq Nat
    /\ MaxCancels \in Nat

VARIABLES
    value,      \* value[s]: Semaphore._value
    queue,      \* queue[s]: Semaphore._waiters, by the config that waits
    woken,      \* waiters whose future has its result: the slot is theirs
    pc,         \* "out", waiting for "global" or "cred", or "in" the slots
    cancelled,  \* tasks with a CancelledError on its way
    flying,     \* tasks in the slots whose launch runs in its OS thread
    orphans,    \* orphans[k]: launches of account k whose task was cancelled
    cancels

vars == <<value, queue, woken, pc, cancelled, flying, orphans, cancels>>

Limit(s) == IF s = Global THEN GlobalMax ELSE CredMax

TypeOK ==
    /\ value \in [Sems -> Nat]
    /\ queue \in [Sems -> Seq(Configs)]
    /\ {woken, cancelled, flying} \subseteq SUBSET Configs
    /\ pc \in [Configs -> {"out", "global", "cred", "in"}]
    /\ orphans \in [Creds -> Nat]
    /\ cancels \in 0..MaxCancels

-----------------------------------------------------------------------------
(* asyncio.Semaphore                                                       *)

\* Cancelling a task cancels the future it awaits, unless that has its result.
Withdrawn(c) == c \in cancelled /\ c \notin woken

\* Mutant: the count is not looked at.
LockedByWaiters(s) == \E c \in ToSet(queue[s]) : ~Withdrawn(c)

Locked(s) == value[s] = 0 \/ \E c \in ToSet(queue[s]) : ~Withdrawn(c)

\* The waiters _wake_up_next looks for: their futures are not done.
Pending(s)   == {c \in ToSet(queue[s]) : c \notin woken /\ c \notin cancelled}
PendingAt(s) == {i \in DOMAIN queue[s] : queue[s][i] \in Pending(s)}

\* Mutant: the last one first.
LastPending(s) == queue[s][Max(PendingAt(s))]

FirstPending(s) == queue[s][Min(PendingAt(s))]

Holders(s) == {c \in Configs : \/ pc[c] = "in" /\ s \in {Global, CredOf[c]}
                               \/ pc[c] = "cred" /\ s = Global}
Handed(s)  == {c \in woken : c \in ToSet(queue[s])}

\* What one segment of c's task does to the counters: it takes a slot of the
\* semaphores in `take`, gives one back to those in `back`, and lets those in
\* `wake` hand a free slot to their first pending waiter.
Count(c, take, back, wake) ==
    LET left(s) == value[s] - (IF s \in take THEN 1 ELSE 0) + (IF s \in back THEN 1 ELSE 0)
        hands   == {s \in wake : left(s) > 0 /\ Pending(s) # {}}
    IN  /\ value' = [s \in Sems |-> left(s) - (IF s \in hands THEN 1 ELSE 0)]
        /\ woken' = (woken \ {c}) \cup {FirstPending(s) : s \in hands}

\* c queues for s, or for nothing any more.
QueuesFor(c, s) == queue' = [r \in Sems |-> IF r = s THEN Append(queue[r], c)
                                                    ELSE RemoveFirst(queue[r], c)]
QueuesNowhere(c) == queue' = [r \in Sems |-> RemoveFirst(queue[r], c)]

-----------------------------------------------------------------------------
(* async with oci_slots(...)                                               *)

Goto(c, phase) == pc' = [pc EXCEPT ![c] = phase]

\* Inside the slots the task hands its launch to a thread.
Launch(c) == Goto(c, "in") /\ flying' = flying \cup {c}

\* With the global slot in hand, on to the credential's semaphore.
EnterAccount(c, taken, wake) ==
    LET k == CredOf[c] IN
    \/ /\ Locked(k) /\ Goto(c, "cred") /\ UNCHANGED flying
       /\ QueuesFor(c, k) /\ Count(c, taken, {}, wake)
    \/ /\ ~Locked(k) /\ Launch(c)
       /\ QueuesNowhere(c) /\ Count(c, taken \cup {k}, {}, wake)

Request(c) ==
    /\ pc[c] = "out"
    /\ \/ /\ Locked(Global) /\ Goto(c, "global")
          /\ QueuesFor(c, Global) /\ UNCHANGED <<value, woken, flying>>
       \/ ~Locked(Global) /\ EnterAccount(c, {Global}, {})
    /\ UNCHANGED <<cancelled, orphans, cancels>>

\* The waiter a slot was handed to runs on; it passes on a slot that is free.
Resume(c) ==
    /\ c \in woken /\ c \notin cancelled
    /\ \/ /\ pc[c] = "global" /\ EnterAccount(c, {}, {Global})
       \/ /\ pc[c] = "cred" /\ Launch(c)
          /\ QueuesNowhere(c) /\ Count(c, {}, {}, {CredOf[c]})
    /\ UNCHANGED <<cancelled, orphans, cancels>>

\* The thread's launch ends.
CallReturns(c) ==
    /\ c \in flying
    /\ flying' = flying \ {c}
    /\ UNCHANGED <<value, queue, woken, pc, cancelled, orphans, cancels>>

OrphanReturns(k) ==
    /\ orphans[k] > 0
    /\ orphans' = [orphans EXCEPT ![k] = @ - 1]
    /\ UNCHANGED <<value, queue, woken, pc, cancelled, flying, cancels>>

\* Mutant: the slots are counted, but nobody is told.
ExitUntold(c) ==
    /\ pc[c] = "in" /\ c \notin flying /\ c \notin cancelled
    /\ Goto(c, "out")
    /\ Count(c, {}, {Global, CredOf[c]}, {})
    /\ UNCHANGED <<queue, cancelled, flying, orphans, cancels>>

\* The end of both `async with` blocks, the outcome recorded.
Exit(c) ==
    /\ pc[c] = "in" /\ c \notin flying /\ c \notin cancelled
    /\ Goto(c, "out")
    /\ Count(c, {}, {Global, CredOf[c]}, {Global, CredOf[c]})
    /\ UNCHANGED <<queue, cancelled, flying, orphans, cancels>>

\* Task.cancel(), by the supervisor.
Cancel(c) ==
    /\ pc[c] # "out" /\ c \notin cancelled /\ cancels < MaxCancels
    /\ cancelled' = cancelled \cup {c} /\ cancels' = cancels + 1
    /\ UNCHANGED <<value, queue, woken, pc, flying, orphans>>

\* Mutant: a slot that was handed over is not given back.
OwedHeldOnly(c) == {s \in {Global, CredOf[c]} : c \in Holders(s)}

\* The slots c holds, and the one it was handed but has not run to take.
Owed(c) == {s \in {Global, CredOf[c]} : c \in Holders(s) \cup Handed(s)}

\* The CancelledError unwinds the task, which gives back what it owes.  Its
\* thread carries on.
Unwind(c) ==
    /\ c \in cancelled
    /\ Goto(c, "out") /\ QueuesNowhere(c) /\ Count(c, {}, Owed(c), Owed(c))
    /\ cancelled' = cancelled \ {c} /\ flying' = flying \ {c}
    /\ orphans' = IF c \in flying THEN [orphans EXCEPT ![CredOf[c]] = @ + 1] ELSE orphans
    /\ UNCHANGED cancels

-----------------------------------------------------------------------------
Init ==
    /\ value = [s \in Sems |-> Limit(s)]
    /\ queue = [s \in Sems |-> <<>>]
    /\ woken = {} /\ cancelled = {} /\ flying = {}
    /\ pc = [c \in Configs |-> "out"]
    /\ orphans = [k \in Creds |-> 0]
    /\ cancels = 0

Next ==
    \/ \E c \in Configs : \/ Request(c) \/ Resume(c) \/ CallReturns(c)
                          \/ Exit(c) \/ Cancel(c) \/ Unwind(c)
    \/ \E k \in Creds : OrphanReturns(k)

\* The event loop runs every coroutine that can run, and launches end.
Fairness == \A c \in Configs :
    WF_vars(Resume(c)) /\ WF_vars(Exit(c)) /\ WF_vars(Unwind(c)) /\ WF_vars(CallReturns(c))

Spec == Init /\ [][Next]_vars /\ Fairness

-----------------------------------------------------------------------------
\* No slot is lost or made up, whatever is cancelled when: the free slots, the
\* ones held and the ones handed to a waiter that has not run are all there is.
SlotsConserved ==
    \A s \in Sems : value[s] + Cardinality(Holders(s)) + Cardinality(Handed(s)) = Limit(s)

\* A free slot is never left lying while somebody waits for it: a waiter that
\* has been handed one is about to run, and passes the free one on.
NoLostWakeup ==
    \A s \in Sems : value[s] > 0 /\ Pending(s) # {} => Handed(s) # {}

\* Slots are taken in the order they were asked for: who gets past a semaphore
\* leaves nobody behind in its queue who came earlier and has no slot in hand.
FirstComeFirstServed ==
    [][\A s \in Sems, c \in Configs :
           c \in Holders(s)' /\ c \notin Holders(s) =>
               \A d \in Pending(s) :
                   d # c => \E i, j \in DOMAIN queue[s] :
                               queue[s][i] = c /\ queue[s][j] = d /\ i < j]_vars

Limits == INSTANCE SlotLimits WITH phase <- pc

\* What the module promises, implemented with FIFO semaphores.
ImplementsSlotLimits == Limits!Spec
WithinLimits         == Limits!WithinLimits

\* Nobody waits for a slot for ever, whoever is cancelled.
EveryWaiterServed == Limits!EveryWaiterServed

\* concurrency.py: the global semaphore caps the number of in-flight calls.
InFlightWithinLimit ==
    Cardinality(flying) + FoldFunction(LAMBDA n, m : n + m, 0, orphans) <= GlobalMax

\* concurrency.py: different accounts still run concurrently.  While a poll
\* waits for the global slot though nobody polls its account, all the global
\* slots are with polls that launch.
AccountsConcurrent ==
    woken = {} /\ (\E c \in Configs : /\ pc[c] = "global"
                                      /\ \A d \in Configs : CredOf[d] = CredOf[c] =>
                                                    pc[d] \notin {"cred", "in"})
        => Cardinality({c \in Configs : pc[c] = "in"}) = GlobalMax
=============================================================================

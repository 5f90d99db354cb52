---------------------------- MODULE PollerProofs ----------------------------
(* Theorems of Poller, for any configs, tasks, caps, limits and bounds. *)
EXTENDS Poller, FiniteSetTheorems, TLAPS

USE PollerAssumption
USE DEF database, tasks, supervisor, process, MaxTries, TriesLeft, TurnOff, Wanted, Edited,
        AwaitEnd

-----------------------------------------------------------------------------
\* A process that has just started, with an empty _running, is consistent.
LEMMA InitConsistent == Init => Consistent
<1> SUFFICES ASSUME Init PROVE Consistent
    OBVIOUS
<1>1. TypeOK
  <2>1. made \in [Configs -> Nat] /\ stamp \in [Configs -> Nat \ {0}]
        BY DEF Init
  <2>2. tries \in [Tasks -> 0..MaxTries] /\ restarts \in 0..MaxRestarts /\ edits \in 0..MaxEdits
        BY DEF Init
  <2>3. pc \in [Tasks -> PCs] /\ call \in [Tasks -> {"none", "flying"} \cup Outcomes]
        BY DEF Init, PCs
  <2>4. cancelled \subseteq Tasks /\ todo \subseteq Configs
        BY DEF Init
  <2>5. since \in [Configs -> SUBSET {"instance", "won", "verdict", "told"}]
        BY DEF Init
  <2> QED BY <2>1, <2>2, <2>3, <2>4, <2>5 DEF Init, TypeOK
<1>2. TaskOK /\ RunningOK /\ WaitingOK
      BY DEF Init, TaskOK, RunningOK, WaitingOK, Stays
<1>3. LoopOK /\ TodoOK /\ ProcOK /\ EveryTaskOwned
      BY DEF Init, LoopOK, TodoOK, ProcOK, EveryTaskOwned, SupBusy, Live
<1> QED BY <1>1, <1>2, <1>3 DEF Consistent

\* The top of a poll moves one live task on, to its slots, to the commit that
\* turns its config off, or to its end.
LEMMA PollConsistent ==
    ASSUME Consistent, NEW t \in Tasks, Poll(t) PROVE Consistent'
<1> USE DEF Consistent, Poll, Runnable, LoopFree, Live, MidSegment, SupBusy, Stays
<1>1. TypeOK'
      BY DEF TypeOK, TaskOK, PCs, Goto, Leave, EnterSlots, StartCall, WaitsFor
<1>2. TaskOK'
      BY DEF TypeOK, TaskOK, Goto, Leave, EnterSlots, StartCall
<1>3. RunningOK' /\ WaitingOK'
      BY DEF TypeOK, RunningOK, WaitingOK, Goto, Leave, EnterSlots, WaitsFor
<1>4. LoopOK'
      BY DEF TypeOK, LoopOK, Goto, Leave, EnterSlots
<1>5. TodoOK' /\ ProcOK'
      BY DEF TodoOK, ProcOK
<1>6. EveryTaskOwned'
      BY DEF TypeOK, EveryTaskOwned, Goto, Leave, EnterSlots
<1> QED BY <1>1, <1>2, <1>3, <1>4, <1>5, <1>6

\* A waiting task that gets its slots only changes its own phase, call and tries.
LEMMA AcquireConsistent ==
    ASSUME Consistent, NEW t \in Tasks, Acquire(t) PROVE Consistent'
<1> USE DEF Consistent, Acquire, Runnable, LoopFree, Live, MidSegment, SupBusy, Stays
<1>1. TypeOK'
      BY DEF TypeOK, TaskOK, PCs, Goto, EnterSlots, StartCall, WaitsFor
<1>2. TaskOK'
      BY DEF TypeOK, TaskOK, Goto, EnterSlots, StartCall
<1>3. RunningOK' /\ WaitingOK'
      BY DEF RunningOK, WaitingOK, Goto, EnterSlots, WaitsFor
<1>4. LoopOK'
      BY DEF LoopOK, Goto, EnterSlots
<1>5. TodoOK' /\ ProcOK'
      BY DEF TodoOK, ProcOK
<1>6. EveryTaskOwned'
      BY DEF EveryTaskOwned, Goto, EnterSlots
<1> QED BY <1>1, <1>2, <1>3, <1>4, <1>5, <1>6

\* The end of a launch gives a task in its call phase an outcome, or none if it
\* is cancelled.
LEMMA CallReturnsConsistent ==
    ASSUME Consistent, NEW t \in Tasks, CallReturns(t) PROVE Consistent'
<1> USE DEF Consistent, CallReturns, Live, MidSegment, SupBusy, Stays
<1>1. TypeOK'
  <2>1. call' \in [Tasks -> {"none", "flying"} \cup Outcomes]
        BY DEF TypeOK
  <2>2. cfg[t] \in Configs
        BY DEF TaskOK
  <2>3. since' \in [Configs -> SUBSET {"instance", "won", "verdict", "told"}]
        BY <2>2 DEF TypeOK, Note
  <2> QED BY <2>1, <2>3 DEF TypeOK
<1>2. TaskOK'
      BY DEF TaskOK
<1>3. RunningOK' /\ WaitingOK'
      BY DEF RunningOK, WaitingOK
<1>4. LoopOK'
      BY DEF LoopOK
<1>5. TodoOK' /\ ProcOK'
      BY DEF TodoOK, ProcOK
<1>6. EveryTaskOwned'
      BY DEF EveryTaskOwned
<1> QED BY <1>1, <1>2, <1>3, <1>4, <1>5, <1>6

\* The end of a launch nobody waits for touches no task.
LEMMA OrphanReturnsConsistent ==
    ASSUME Consistent, NEW c \in Configs, OrphanReturns(c) PROVE Consistent'
<1> USE DEF Consistent, OrphanReturns, Live, MidSegment, SupBusy, Stays
<1>1. TypeOK'
      BY DEF TypeOK, Note
<1>2. TaskOK'
      BY DEF TaskOK
<1>3. RunningOK' /\ WaitingOK'
      BY DEF RunningOK, WaitingOK
<1>4. LoopOK'
      BY DEF LoopOK
<1>5. TodoOK' /\ ProcOK'
      BY DEF TodoOK, ProcOK
<1>6. EveryTaskOwned'
      BY DEF EveryTaskOwned
<1> QED BY <1>1, <1>2, <1>3, <1>4, <1>5, <1>6

\* A 429 with tries left keeps the task alive and its count of tries.
LEMMA BackOffConsistent ==
    ASSUME Consistent, NEW t \in Tasks, BackOff(t) PROVE Consistent'
<1> USE DEF Consistent, BackOff, Runnable, LoopFree, Live, MidSegment, SupBusy, Stays
<1>1. TypeOK'
      BY DEF TypeOK, PCs, Goto
<1>2. TaskOK'
      BY DEF TypeOK, TaskOK, Goto
<1>3. RunningOK' /\ WaitingOK'
      BY DEF RunningOK, WaitingOK, Goto
<1>4. LoopOK'
      BY DEF LoopOK, Goto
<1>5. TodoOK' /\ ProcOK'
      BY DEF TodoOK, ProcOK
<1>6. EveryTaskOwned'
      BY DEF EveryTaskOwned, Goto
<1> QED BY <1>1, <1>2, <1>3, <1>4, <1>5, <1>6

\* A retry after a 429 stays within the three tries: BackOff has left one.
LEMMA RetryConsistent ==
    ASSUME Consistent, NEW t \in Tasks, Retry(t) PROVE Consistent'
<1> USE DEF Consistent, Retry, Runnable, LoopFree, Live, MidSegment, SupBusy, Stays
<1>1. TypeOK'
      BY DEF TypeOK, TaskOK, PCs, Goto, StartCall
<1>2. TaskOK'
      BY DEF TypeOK, TaskOK, Goto, StartCall
<1>3. RunningOK' /\ WaitingOK'
      BY DEF RunningOK, WaitingOK, Goto
<1>4. LoopOK'
      BY DEF LoopOK, Goto
<1>5. TodoOK' /\ ProcOK'
      BY DEF TodoOK, ProcOK
<1>6. EveryTaskOwned'
      BY DEF EveryTaskOwned, Goto
<1> QED BY <1>1, <1>2, <1>3, <1>4, <1>5, <1>6

\* Recording an outcome leaves the task asleep, between its commits, or dead.
LEMMA RecordConsistent ==
    ASSUME Consistent, NEW t \in Tasks, Record(t) PROVE Consistent'
<1> USE DEF Consistent, Record, Runnable, LoopFree, Live, MidSegment, SupBusy, Stays
<1>1. TypeOK'
      BY DEF TypeOK, PCs, Goto, Leave, Note
<1>2. TaskOK'
      BY DEF TypeOK, TaskOK, Goto, Leave
<1>3. RunningOK' /\ WaitingOK'
      BY DEF TypeOK, RunningOK, WaitingOK, Goto, Leave
<1>4. LoopOK'
      BY DEF TypeOK, LoopOK, Goto, Leave
<1>5. TodoOK' /\ ProcOK'
      BY DEF TodoOK, ProcOK
<1>6. EveryTaskOwned'
      BY DEF TypeOK, EveryTaskOwned, Goto, Leave
<1> QED BY <1>1, <1>2, <1>3, <1>4, <1>5, <1>6

\* Turning a config off moves its task on, or ends it when the row is gone.
LEMMA DisableConsistent ==
    ASSUME Consistent, NEW t \in Tasks, Disable(t) PROVE Consistent'
<1> USE DEF Consistent, Disable, Live, MidSegment, SupBusy, Stays
<1>1. TypeOK'
      BY DEF TypeOK, PCs, Goto, Leave, Note
<1>2. TaskOK'
      BY DEF TypeOK, TaskOK, Goto, Leave
<1>3. RunningOK' /\ WaitingOK'
      BY DEF TypeOK, RunningOK, WaitingOK, Goto, Leave
<1>4. LoopOK'
      BY DEF TypeOK, LoopOK, Goto, Leave
<1>5. TodoOK' /\ ProcOK'
      BY DEF TodoOK, ProcOK
<1>6. EveryTaskOwned'
      BY DEF TypeOK, EveryTaskOwned, Goto, Leave
<1> QED BY <1>1, <1>2, <1>3, <1>4, <1>5, <1>6

\* The task goes on to notify, or ends: who is gone is still in _running.
LEMMA AnnounceConsistent ==
    ASSUME Consistent, NEW t \in Tasks, Announce(t) PROVE Consistent'
<1> USE DEF Consistent, Announce, Live, MidSegment, SupBusy, Stays
<1>1. TypeOK'
      BY DEF TypeOK, PCs, Goto, Leave, Note
<1>2. TaskOK'
      BY DEF TypeOK, TaskOK, Goto, Leave
<1>3. RunningOK' /\ WaitingOK'
      BY DEF TypeOK, RunningOK, WaitingOK, Goto, Leave
<1>4. LoopOK'
      BY DEF TypeOK, LoopOK, Goto, Leave
<1>5. TodoOK' /\ ProcOK'
      BY DEF TodoOK, ProcOK
<1>6. EveryTaskOwned'
      BY DEF TypeOK, EveryTaskOwned, Goto, Leave
<1> QED BY <1>1, <1>2, <1>3, <1>4, <1>5, <1>6

\* A task that has notified its channels is over.
LEMMA NotifiedConsistent ==
    ASSUME Consistent, NEW t \in Tasks, Notified(t) PROVE Consistent'
<1> USE DEF Consistent, Notified, Runnable, LoopFree, Live, MidSegment, SupBusy, Stays
<1>1. TypeOK'
      BY DEF TypeOK, TaskOK, PCs, Goto, Leave, Note
<1>2. TaskOK'
      BY DEF TypeOK, TaskOK, Goto, Leave
<1>3. RunningOK' /\ WaitingOK'
      BY DEF RunningOK, WaitingOK, Goto, Leave
<1>4. LoopOK'
      BY DEF LoopOK, Goto, Leave
<1>5. TodoOK' /\ ProcOK'
      BY DEF TodoOK, ProcOK
<1>6. EveryTaskOwned'
      BY DEF EveryTaskOwned, Goto, Leave
<1> QED BY <1>1, <1>2, <1>3, <1>4, <1>5, <1>6

\* A cancelled task ends at the await it is cancelled at; its call, if one flies,
\* is an orphan.
LEMMA CancelledConsistent ==
    ASSUME Consistent, NEW t \in Tasks, Cancelled(t) PROVE Consistent'
<1> USE DEF Consistent, Cancelled, LoopFree, Live, MidSegment, SupBusy, Stays
<1>1. TypeOK'
      BY DEF TypeOK, TaskOK, PCs, Goto, Leave
<1>2. TaskOK'
      BY DEF TypeOK, TaskOK, LoopOK, Goto, Leave
<1>3. RunningOK' /\ WaitingOK'
      BY DEF RunningOK, WaitingOK, Goto, Leave
<1>4. LoopOK'
      BY DEF LoopOK, Goto, Leave
<1>5. TodoOK' /\ ProcOK'
      BY DEF TodoOK, ProcOK
<1>6. EveryTaskOwned'
      BY DEF EveryTaskOwned, Goto, Leave
<1> QED BY <1>1, <1>2, <1>3, <1>4, <1>5, <1>6

\* The top of a pass forgets ended tasks only, so every live one stays in
\* _running, and lists tasks that are there to be cancelled.
LEMMA ReconcileConsistent ==
    ASSUME Consistent, Reconcile PROVE Consistent'
<1> USE DEF Consistent, Reconcile, LoopFree, Live, MidSegment, SupBusy, Stays
<1>1. TypeOK'
      BY DEF TypeOK, PCs, Forget
<1>2. TaskOK'
      BY DEF TaskOK, Forget, Ended
<1>3. RunningOK' /\ WaitingOK'
      BY DEF TypeOK, TaskOK, RunningOK, WaitingOK, Forget
<1>4. LoopOK'
      BY DEF TypeOK, LoopOK, Forget, Ended
<1>5. TodoOK' /\ ProcOK'
      BY DEF TodoOK, ProcOK
<1>6. EveryTaskOwned'
      BY DEF TaskOK, EveryTaskOwned, Forget
<1> QED BY <1>1, <1>2, <1>3, <1>4, <1>5, <1>6

\* A task taken out of _running to be cancelled is the one that is awaited.
LEMMA CancelLoopConsistent ==
    ASSUME Consistent, CancelLoop PROVE Consistent'
<1> USE DEF Consistent, CancelLoop, Live, MidSegment, SupBusy, Stays
<1>1. TypeOK'
      BY DEF TypeOK, TodoOK, PCs, CancelTask, Forget
<1>2. TaskOK'
      BY DEF TaskOK, CancelTask, Forget
<1>3. RunningOK' /\ WaitingOK'
      BY DEF TypeOK, RunningOK, WaitingOK, CancelTask, Forget
<1>4. LoopOK'
      BY DEF TypeOK, LoopOK, TodoOK, CancelTask, Forget
<1>5. TodoOK' /\ ProcOK'
      BY DEF TypeOK, TodoOK, ProcOK, CancelTask
<1>6. EveryTaskOwned'
      BY DEF TypeOK, TaskOK, EveryTaskOwned, CancelTask, Forget
<1> QED BY <1>1, <1>2, <1>3, <1>4, <1>5, <1>6

\* When the awaited task has ended there is no live task to lose.
LEMMA CancelDoneConsistent ==
    ASSUME Consistent, CancelDone PROVE Consistent'
<1> USE DEF Consistent, CancelDone, LoopFree, Live, MidSegment, SupBusy, Stays
<1>1. TypeOK'
      BY DEF TypeOK, PCs, Forget
<1>2. TaskOK'
      BY DEF TaskOK, Forget
<1>3. RunningOK' /\ WaitingOK'
      BY DEF TypeOK, RunningOK, WaitingOK, Forget
<1>4. LoopOK'
      BY DEF TypeOK, LoopOK, Forget
<1>5. TodoOK' /\ ProcOK'
      BY DEF TodoOK, ProcOK
<1>6. EveryTaskOwned'
      BY DEF EveryTaskOwned, Forget
<1> QED BY <1>1, <1>2, <1>3, <1>4, <1>5, <1>6

\* A task is spawned only for a config without one, and a restart takes the old
\* one out first.
LEMMA SpawnLoopConsistent ==
    ASSUME Consistent, SpawnLoop PROVE Consistent'
<1> USE DEF Consistent, SpawnLoop, Live, MidSegment, SupBusy, Stays
<1>1. TypeOK'
      BY DEF TypeOK, PCs, Spawn, CancelTask, Forget, Goto
<1>2. TaskOK'
      BY DEF TypeOK, TaskOK, Spawn, CancelTask, Forget, Goto
<1>3. RunningOK' /\ WaitingOK'
      BY DEF TypeOK, RunningOK, WaitingOK, Spawn, CancelTask, Forget, Goto
<1>4. LoopOK'
      BY DEF TypeOK, LoopOK, Spawn, CancelTask, Forget, Goto
<1>5. TodoOK' /\ ProcOK'
      BY DEF TodoOK, ProcOK, CancelTask
<1>6. EveryTaskOwned'
      BY DEF TypeOK, TaskOK, EveryTaskOwned, Spawn, CancelTask, Forget, Goto
<1> QED BY <1>1, <1>2, <1>3, <1>4, <1>5, <1>6

\* The shutdown cancels live tasks, none of which is between two commits.
LEMMA BeginShutdownConsistent ==
    ASSUME Consistent, BeginShutdown PROVE Consistent'
<1> USE DEF Consistent, BeginShutdown, LoopFree, Live, MidSegment, SupBusy, Stays
<1>1. TypeOK'
      BY DEF TypeOK
<1>2. TaskOK'
      BY DEF TaskOK
<1>3. RunningOK' /\ WaitingOK'
      BY DEF RunningOK, WaitingOK
<1>4. LoopOK'
      BY DEF LoopOK
<1>5. TodoOK' /\ ProcOK'
      BY DEF TodoOK, ProcOK
<1>6. EveryTaskOwned'
      BY DEF EveryTaskOwned
<1> QED BY <1>1, <1>2, <1>3, <1>4, <1>5, <1>6

\* When all children have ended, an empty _running loses none.
LEMMA EndShutdownConsistent ==
    ASSUME Consistent, EndShutdown PROVE Consistent'
<1> USE DEF Consistent, EndShutdown, LoopFree, Live, MidSegment, SupBusy, Stays
<1>1. TypeOK'
      BY DEF TypeOK, PCs, Forget
<1>2. TaskOK'
      BY DEF TaskOK, Forget, Ended
<1>3. RunningOK' /\ WaitingOK'
      BY DEF TypeOK, TaskOK, RunningOK, WaitingOK, Forget
<1>4. LoopOK'
      BY DEF TypeOK, LoopOK, Forget, Ended
<1>5. TodoOK' /\ ProcOK'
      BY DEF TodoOK, ProcOK
<1>6. EveryTaskOwned'
      BY DEF TaskOK, EveryTaskOwned, Forget
<1> QED BY <1>1, <1>2, <1>3, <1>4, <1>5, <1>6

\* The stop of the process changes nothing the tasks or _running hold.
LEMMA StopConsistent ==
    ASSUME Consistent, Stop PROVE Consistent'
<1> USE DEF Consistent, Stop, LoopFree, Live, MidSegment, SupBusy, Stays
<1>1. TypeOK'
      BY DEF TypeOK
<1>2. TaskOK'
      BY DEF TaskOK
<1>3. RunningOK' /\ WaitingOK'
      BY DEF RunningOK, WaitingOK
<1>4. LoopOK'
      BY DEF TypeOK, LoopOK, RunningOK, WaitingOK, TodoOK
<1>5. TodoOK' /\ ProcOK'
      BY DEF TodoOK, ProcOK
<1>6. EveryTaskOwned'
      BY DEF EveryTaskOwned
<1> QED BY <1>1, <1>2, <1>3, <1>4, <1>5, <1>6

\* The end of the process is the end of no task: they have ended before.
LEMMA ExitConsistent ==
    ASSUME Consistent, Exit PROVE Consistent'
<1> USE DEF Consistent, Exit, Live, MidSegment, SupBusy, Stays
<1>1. TypeOK'
      BY DEF TypeOK
<1>2. TaskOK'
      BY DEF TaskOK
<1>3. RunningOK' /\ WaitingOK'
      BY DEF RunningOK, WaitingOK
<1>4. LoopOK'
      BY DEF LoopOK
<1>5. TodoOK' /\ ProcOK'
      BY DEF TodoOK, ProcOK
<1>6. EveryTaskOwned'
      BY DEF EveryTaskOwned
<1> QED BY <1>1, <1>2, <1>3, <1>4, <1>5, <1>6

\* A crash leaves no task, no _running and no one to wait for.
LEMMA CrashConsistent ==
    ASSUME Consistent, Crash PROVE Consistent'
<1> USE DEF Consistent, Crash, Live, MidSegment, SupBusy, Stays
<1>1. TypeOK'
  <2>1. ASSUME NEW c \in Configs
        PROVE  Cardinality({t \in Tasks : cfg[t] = c /\ call[t] = "flying"}) \in Nat
        BY FS_Subset, FS_CardinalityType
  <2>2. orphans' \in [Configs -> Nat]
        BY <2>1 DEF TypeOK
  <2> QED BY <2>2 DEF TypeOK, PCs, Forget
<1>2. TaskOK'
      BY DEF TaskOK, Forget
<1>3. RunningOK' /\ WaitingOK'
      BY DEF RunningOK, WaitingOK
<1>4. LoopOK'
      BY DEF LoopOK
<1>5. TodoOK' /\ ProcOK'
      BY DEF TodoOK, ProcOK
<1>6. EveryTaskOwned'
      BY DEF EveryTaskOwned, Forget
<1> QED BY <1>1, <1>2, <1>3, <1>4, <1>5, <1>6

\* A new process starts from what the last one left.
LEMMA BootConsistent ==
    ASSUME Consistent, Boot PROVE Consistent'
<1> USE DEF Consistent, Boot, Live, MidSegment, SupBusy, Stays
<1>1. TypeOK'
      BY DEF TypeOK, ProcOK
<1>2. TaskOK'
      BY DEF TaskOK
<1>3. RunningOK' /\ WaitingOK'
      BY DEF RunningOK, WaitingOK
<1>4. LoopOK'
      BY DEF LoopOK
<1>5. TodoOK' /\ ProcOK'
      BY DEF TodoOK, ProcOK
<1>6. EveryTaskOwned'
      BY DEF EveryTaskOwned
<1> QED BY <1>1, <1>2, <1>3, <1>4, <1>5, <1>6

\* The API's handlers write rows only.
LEMMA UserConsistent ==
    ASSUME Consistent, User PROVE Consistent'
<1> USE DEF Consistent, User, Live, MidSegment, SupBusy, Stays
<1>1. TypeOK'
      BY DEF TypeOK, CreateConfig, DeleteConfig, UpdateConfig, ToggleConfig, UserOp, Touch
<1>2. TaskOK'
      BY DEF TaskOK, CreateConfig, DeleteConfig, UpdateConfig, ToggleConfig, UserOp
<1>3. RunningOK' /\ WaitingOK'
      BY DEF RunningOK, WaitingOK, CreateConfig, DeleteConfig, UpdateConfig, ToggleConfig, UserOp
<1>4. LoopOK'
      BY DEF LoopOK, CreateConfig, DeleteConfig, UpdateConfig, ToggleConfig, UserOp
<1>5. TodoOK' /\ ProcOK'
      BY DEF TodoOK, ProcOK, CreateConfig, DeleteConfig, UpdateConfig, ToggleConfig, UserOp
<1>6. EveryTaskOwned'
      BY DEF EveryTaskOwned, CreateConfig, DeleteConfig, UpdateConfig, ToggleConfig, UserOp
<1> QED BY <1>1, <1>2, <1>3, <1>4, <1>5, <1>6

-----------------------------------------------------------------------------
\* Tasks, _running, the awaited task, the event loop and the process agree with
\* each other after every step of the poller, whatever is cancelled, crashes or
\* is edited: the invariant all others rest on.
THEOREM AlwaysConsistent == Spec => []Consistent
<1>1. ASSUME Consistent, [Next]_vars PROVE Consistent'
  <2>1. CASE \E t \in Tasks : TaskStep(t) \/ CallReturns(t)
        BY <1>1, <2>1, PollConsistent, AcquireConsistent, CallReturnsConsistent, BackOffConsistent,
           RetryConsistent, RecordConsistent, DisableConsistent, AnnounceConsistent,
           NotifiedConsistent, CancelledConsistent DEF TaskStep
  <2>2. CASE \E c \in Configs : OrphanReturns(c)
        BY <1>1, <2>2, OrphanReturnsConsistent
  <2>3. CASE SupStep
        BY <1>1, <2>3, ReconcileConsistent, CancelLoopConsistent, CancelDoneConsistent,
           SpawnLoopConsistent, BeginShutdownConsistent, EndShutdownConsistent DEF SupStep
  <2>4. CASE Stop \/ Exit \/ Crash \/ Boot
        BY <1>1, <2>4, StopConsistent, ExitConsistent, CrashConsistent, BootConsistent
  <2>5. CASE User
        BY <1>1, <2>5, UserConsistent
  <2>6. CASE UNCHANGED vars
    <3> USE <1>1, <2>6 DEF vars, Consistent
    <3>1. TypeOK' /\ TaskOK'
          BY DEF TypeOK, TaskOK
    <3>2. RunningOK' /\ WaitingOK' /\ EveryTaskOwned'
          BY DEF RunningOK, WaitingOK, EveryTaskOwned, Stays, Live
    <3>3. LoopOK' /\ TodoOK' /\ ProcOK'
          BY DEF LoopOK, TodoOK, ProcOK, SupBusy, MidSegment, Live, Stays
    <3> QED BY <3>1, <3>2, <3>3
  <2> QED BY <1>1, <2>1, <2>2, <2>3, <2>4, <2>5, <2>6 DEF Next
<1> QED BY <1>1, InitConsistent, PTL DEF Spec

\* Every variable keeps its type; in particular no launch is tried more than
\* three times (stop_after_attempt) and restarts and edits keep their bounds.
THEOREM TypeCorrect == Spec => []TypeOK
BY AlwaysConsistent, PTL DEF Consistent

\* No task polls that PollerSupervisor could not cancel: a live one is in _running
\* under its config, or awaited by _cancel.
THEOREM NoTaskLost == Spec => []EveryTaskOwned
BY AlwaysConsistent, PTL DEF Consistent

\* Two live tasks of one config would both be in _running under it, or one of
\* them there and the other awaited; neither can be.
LEMMA ConsistentOneTask == Consistent => OneTaskPerConfig
BY DEF Consistent, TypeOK, TaskOK, RunningOK, WaitingOK, EveryTaskOwned, OneTaskPerConfig,
       Live, Stays

\* At most one live task per config, also while _cancel replaces an old one.
THEOREM OneTask == Spec => []OneTaskPerConfig
BY AlwaysConsistent, ConsistentOneTask, PTL

-----------------------------------------------------------------------------
\* At first no worker has turned a config off.
LEMMA InitStopped == Init => Stopped
BY DEF Init, Stopped

\* A config a worker turned off stays disabled and its task past its launches,
\* until its user enables it: no step of a task, pass or restart changes that.
LEMMA NextStopped == Consistent /\ Stopped /\ [Next]_vars => Stopped'
<1> SUFFICES ASSUME Consistent, Stopped, [Next]_vars PROVE Stopped'
    OBVIOUS
<1>1. OneTaskPerConfig
      BY ConsistentOneTask
<1> USE DEF Consistent, TypeOK, TaskOK, OneTaskPerConfig, Live, Stopped
<1>2. ASSUME NEW t \in Tasks, Poll(t) PROVE Stopped'
      BY <1>1, <1>2 DEF Poll, Goto, Leave, EnterSlots, StartCall, WaitsFor
<1>3. ASSUME NEW t \in Tasks, Acquire(t) PROVE Stopped'
      BY <1>1, <1>3 DEF Acquire, Goto, EnterSlots, StartCall, WaitsFor
<1>4. ASSUME NEW t \in Tasks, CallReturns(t) PROVE Stopped'
      BY <1>1, <1>4 DEF CallReturns, Note
<1>5. ASSUME NEW t \in Tasks, BackOff(t) PROVE Stopped'
      BY <1>1, <1>5 DEF BackOff, Goto
<1>6. ASSUME NEW t \in Tasks, Retry(t) PROVE Stopped'
      BY <1>1, <1>6 DEF Retry, Goto, StartCall
<1>7. ASSUME NEW t \in Tasks, Record(t) PROVE Stopped'
      BY <1>1, <1>7 DEF Record, Goto, Leave, Note, Terminal
<1>8. ASSUME NEW t \in Tasks, Disable(t) PROVE Stopped'
  <2>1. /\ pc[t] = "disable" /\ cfg[t] \in Configs /\ cfg' = cfg
        /\ pc'[t] \in {"failed", "announce"} /\ \A u \in Tasks : u # t => pc'[u] = pc[u]
        BY <1>8 DEF Disable, Goto, Leave
  <2>2. \/ UNCHANGED <<row, since>>
        \/ /\ row'[cfg[t]] = "off"
           /\ \A c \in Configs : c # cfg[t] => row'[c] = row[c] /\ since'[c] = since[c]
        BY <1>8, <2>1 DEF Disable, Note
  <2>3. \A u \in Tasks : u # t /\ cfg[u] = cfg[t] =>
            pc[u] \notin {"global", "cred", "call", "backoff", "disable"}
        BY <1>1, <2>1
  <2>4. CASE UNCHANGED <<row, since>>
        BY <2>1, <2>4
  <2>5. ASSUME row'[cfg[t]] = "off",
               \A c \in Configs : c # cfg[t] => row'[c] = row[c] /\ since'[c] = since[c]
        PROVE  Stopped'
        BY <2>1, <2>3, <2>5
  <2> QED BY <2>2, <2>4, <2>5
<1>9. ASSUME NEW t \in Tasks, Announce(t) PROVE Stopped'
      BY <1>1, <1>9 DEF Announce, Goto, Leave, Note
<1>10. ASSUME NEW t \in Tasks, Notified(t) PROVE Stopped'
      BY <1>1, <1>10 DEF Notified, Goto, Leave, Note
<1>11. ASSUME NEW t \in Tasks, Cancelled(t) PROVE Stopped'
      BY <1>1, <1>11 DEF Cancelled, Goto, Leave
<1>12. ASSUME NEW c \in Configs, OrphanReturns(c) PROVE Stopped'
      BY <1>12 DEF OrphanReturns, Note
<1>13. CASE Reconcile
      BY <1>1, <1>13 DEF Reconcile, Forget, Ended, Stays
<1>14. CASE CancelLoop
      BY <1>1, <1>14 DEF CancelLoop, CancelTask, Forget
<1>15. CASE CancelDone
      BY <1>1, <1>15 DEF CancelDone, Forget
<1>16. CASE SpawnLoop
      BY <1>1, <1>16 DEF SpawnLoop, Spawn, CancelTask, Forget, Goto, Stays
<1>17. CASE BeginShutdown
      BY <1>1, <1>17 DEF BeginShutdown
<1>18. CASE EndShutdown
      BY <1>1, <1>18 DEF EndShutdown, Forget, Ended, Stays
<1>19. CASE Stop
      BY <1>1, <1>19 DEF Stop
<1>20. CASE Exit
      BY <1>1, <1>20 DEF Exit
<1>21. CASE Crash
      BY <1>1, <1>21 DEF Crash, Forget
<1>22. CASE Boot
      BY <1>1, <1>22 DEF Boot
<1>23. CASE User
      BY <1>1, <1>23 DEF User, CreateConfig, DeleteConfig, UpdateConfig, ToggleConfig, UserOp, Touch
<1>24. CASE UNCHANGED vars
      BY <1>24 DEF vars
<1> QED BY <1>2, <1>3, <1>4, <1>5, <1>6, <1>7, <1>8, <1>9, <1>10, <1>11, <1>12, <1>13, <1>14,
       <1>15, <1>16, <1>17, <1>18, <1>19, <1>20, <1>21, <1>22, <1>23, <1>24 DEF Next, TaskStep,
       SupStep

-----------------------------------------------------------------------------
\* At first no success is recorded.
LEMMA InitWon == Init => Won
BY DEF Init, Won

\* From the commit that records a success to the one that disables the config the
\* task keeps the event loop, so without a crash no poll comes between.
LEMMA NextWon == Consistent /\ Won /\ [Next]_vars => Won'
<1> SUFFICES ASSUME Consistent, Won, [Next]_vars PROVE Won'
    OBVIOUS
<1>1. OneTaskPerConfig
      BY ConsistentOneTask
<1> USE DEF Consistent, TypeOK, TaskOK, OneTaskPerConfig, Live, Won, LoopFree, Runnable, MidSegment
<1>2. ASSUME NEW t \in Tasks, Poll(t) PROVE Won'
      BY <1>1, <1>2 DEF Poll, Goto, Leave, EnterSlots, StartCall, WaitsFor
<1>3. ASSUME NEW t \in Tasks, Acquire(t) PROVE Won'
      BY <1>1, <1>3 DEF Acquire, Goto, EnterSlots, StartCall, WaitsFor
<1>4. ASSUME NEW t \in Tasks, CallReturns(t) PROVE Won'
      BY <1>1, <1>4 DEF CallReturns, Note
<1>5. ASSUME NEW t \in Tasks, BackOff(t) PROVE Won'
      BY <1>1, <1>5 DEF BackOff, Goto
<1>6. ASSUME NEW t \in Tasks, Retry(t) PROVE Won'
      BY <1>1, <1>6 DEF Retry, Goto, StartCall
<1>7. ASSUME NEW t \in Tasks, Record(t) PROVE Won'
      BY <1>1, <1>7 DEF Record, Goto, Leave, Note, Terminal
<1>8. ASSUME NEW t \in Tasks, Disable(t) PROVE Won'
      BY <1>1, <1>8 DEF Disable, Goto, Leave, Note
<1>9. ASSUME NEW t \in Tasks, Announce(t) PROVE Won'
      BY <1>1, <1>9 DEF Announce, Goto, Leave, Note
<1>10. ASSUME NEW t \in Tasks, Notified(t) PROVE Won'
      BY <1>1, <1>10 DEF Notified, Goto, Leave, Note
<1>11. ASSUME NEW t \in Tasks, Cancelled(t) PROVE Won'
      BY <1>1, <1>11 DEF Cancelled, Goto, Leave
<1>12. ASSUME NEW c \in Configs, OrphanReturns(c) PROVE Won'
      BY <1>12 DEF OrphanReturns, Note
<1>13. CASE Reconcile
      BY <1>1, <1>13 DEF Reconcile, Forget, Ended, Stays
<1>14. CASE CancelLoop
      BY <1>1, <1>14 DEF CancelLoop, CancelTask, Forget
<1>15. CASE CancelDone
      BY <1>1, <1>15 DEF CancelDone, Forget
<1>16. CASE SpawnLoop
  <2>1. UNCHANGED <<row, since, crashed>>
        BY <1>16 DEF SpawnLoop, CancelTask
  <2>2. \A t \in Tasks : \/ pc'[t] = pc[t] /\ cfg'[t] = cfg[t]
                         \/ ~Live(t) /\ pc'[t] \in {"none", "new"}
        BY <1>16 DEF SpawnLoop, Spawn, CancelTask, Forget, Goto, Stays
  <2> QED BY <2>1, <2>2
<1>17. CASE BeginShutdown
      BY <1>1, <1>17 DEF BeginShutdown
<1>18. CASE EndShutdown
      BY <1>1, <1>18 DEF EndShutdown, Forget, Ended, Stays
<1>19. CASE Stop
      BY <1>1, <1>19 DEF Stop
<1>20. CASE Exit
      BY <1>1, <1>20 DEF Exit
<1>21. CASE Crash
      BY <1>1, <1>21 DEF Crash, Forget
<1>22. CASE Boot
      BY <1>1, <1>22 DEF Boot
<1>23. CASE User
      BY <1>1, <1>23 DEF User, CreateConfig, DeleteConfig, UpdateConfig, ToggleConfig, UserOp, Touch
<1>24. CASE UNCHANGED vars
      BY <1>24 DEF vars
<1> QED BY <1>2, <1>3, <1>4, <1>5, <1>6, <1>7, <1>8, <1>9, <1>10, <1>11, <1>12, <1>13, <1>14,
       <1>15, <1>16, <1>17, <1>18, <1>19, <1>20, <1>21, <1>22, <1>23, <1>24 DEF Next, TaskStep,
       SupStep

-----------------------------------------------------------------------------
\* At first no attempt is recorded.
LEMMA InitCapKept == Init => CapKept
BY DEF Init, CapKept

\* A poll goes on to launch only below the cap and no second task of its config
\* can, so when its attempt is recorded the cap still holds.
LEMMA NextCapKept == Consistent /\ CapKept /\ [Next]_vars => CapKept'
<1> SUFFICES ASSUME Consistent, CapKept, [Next]_vars PROVE CapKept'
    OBVIOUS
<1>1. OneTaskPerConfig
      BY ConsistentOneTask
<1> USE DEF Consistent, TypeOK, TaskOK, OneTaskPerConfig, Live, CapKept
<1>2. ASSUME NEW t \in Tasks, Poll(t) PROVE CapKept'
      BY <1>1, <1>2 DEF Poll, Goto, Leave, EnterSlots, StartCall, WaitsFor, AtCap
<1>3. ASSUME NEW t \in Tasks, Acquire(t) PROVE CapKept'
      BY <1>1, <1>3 DEF Acquire, Goto, EnterSlots, StartCall, WaitsFor
<1>4. ASSUME NEW t \in Tasks, CallReturns(t) PROVE CapKept'
      BY <1>1, <1>4 DEF CallReturns, Note
<1>5. ASSUME NEW t \in Tasks, BackOff(t) PROVE CapKept'
      BY <1>1, <1>5 DEF BackOff, Goto
<1>6. ASSUME NEW t \in Tasks, Retry(t) PROVE CapKept'
      BY <1>1, <1>6 DEF Retry, Goto, StartCall
<1>7. ASSUME NEW t \in Tasks, Record(t) PROVE CapKept'
      BY <1>1, <1>7 DEF Record, Goto, Leave, Note, Terminal
<1>8. ASSUME NEW t \in Tasks, Disable(t) PROVE CapKept'
      BY <1>1, <1>8 DEF Disable, Goto, Leave, Note
<1>9. ASSUME NEW t \in Tasks, Announce(t) PROVE CapKept'
      BY <1>1, <1>9 DEF Announce, Goto, Leave, Note
<1>10. ASSUME NEW t \in Tasks, Notified(t) PROVE CapKept'
      BY <1>1, <1>10 DEF Notified, Goto, Leave, Note
<1>11. ASSUME NEW t \in Tasks, Cancelled(t) PROVE CapKept'
      BY <1>1, <1>11 DEF Cancelled, Goto, Leave
<1>12. ASSUME NEW c \in Configs, OrphanReturns(c) PROVE CapKept'
      BY <1>12 DEF OrphanReturns, Note
<1>13. CASE Reconcile
      BY <1>1, <1>13 DEF Reconcile, Forget, Ended, Stays
<1>14. CASE CancelLoop
      BY <1>1, <1>14 DEF CancelLoop, CancelTask, Forget
<1>15. CASE CancelDone
      BY <1>1, <1>15 DEF CancelDone, Forget
<1>16. CASE SpawnLoop
      BY <1>1, <1>16 DEF SpawnLoop, Spawn, CancelTask, Forget, Goto, Stays
<1>17. CASE BeginShutdown
      BY <1>1, <1>17 DEF BeginShutdown
<1>18. CASE EndShutdown
      BY <1>1, <1>18 DEF EndShutdown, Forget, Ended, Stays
<1>19. CASE Stop
      BY <1>1, <1>19 DEF Stop
<1>20. CASE Exit
      BY <1>1, <1>20 DEF Exit
<1>21. CASE Crash
      BY <1>1, <1>21 DEF Crash, Forget
<1>22. CASE Boot
      BY <1>1, <1>22 DEF Boot
<1>23. CASE User
      BY <1>1, <1>23 DEF User, CreateConfig, DeleteConfig, UpdateConfig, ToggleConfig, UserOp, Touch
<1>24. CASE UNCHANGED vars
      BY <1>24 DEF vars
<1> QED BY <1>2, <1>3, <1>4, <1>5, <1>6, <1>7, <1>8, <1>9, <1>10, <1>11, <1>12, <1>13, <1>14,
       <1>15, <1>16, <1>17, <1>18, <1>19, <1>20, <1>21, <1>22, <1>23, <1>24 DEF Next, TaskStep,
       SupStep

-----------------------------------------------------------------------------
\* Where launches are started: by a task that waits for a slot or has backed
\* off, or by a poll that finds its config enabled while the loop is free.
LEMMA LaunchStart ==
    ASSUME Consistent, Next, NEW t \in Tasks, StartsCall(t)
    PROVE  /\ cfg[t] \in Configs /\ cfg' = cfg /\ since' = since
           /\ \/ pc[t] \in {"global", "cred", "backoff"}
              \/ LoopFree /\ row[cfg[t]] = "on"
<1> USE DEF Consistent, TypeOK, TaskOK, StartsCall
<1>1. ASSUME NEW u \in Tasks, TaskStep(u)
      PROVE  /\ Poll(u) \/ Acquire(u) \/ Retry(u)
             /\ u = t
  <2>1. CASE Poll(u) \/ Acquire(u) \/ Retry(u)
        BY <2>1 DEF Poll, Acquire, Retry, EnterSlots, StartCall
  <2>2. CASE BackOff(u) \/ Record(u) \/ Cancelled(u)
        BY <2>2 DEF BackOff, Record, Cancelled
  <2>3. CASE Disable(u) \/ Announce(u) \/ Notified(u)
        BY <2>3 DEF Disable, Announce, Notified
  <2> QED BY <1>1, <2>1, <2>2, <2>3 DEF TaskStep
<1>2. ASSUME NEW u \in Tasks, CallReturns(u) PROVE FALSE
      BY <1>2, PollerAssumption DEF CallReturns, Outcomes
<1>3. ASSUME NEW c \in Configs, OrphanReturns(c) PROVE FALSE
      BY <1>3 DEF OrphanReturns
<1>4. CASE SupStep
      BY <1>4 DEF SupStep, Reconcile, CancelLoop, CancelTask, CancelDone, SpawnLoop,
                  BeginShutdown, EndShutdown
<1>5. CASE Stop \/ Exit \/ Crash \/ Boot \/ User
      BY <1>5 DEF Stop, Exit, Crash, Boot, User, CreateConfig, DeleteConfig, UpdateConfig,
                  ToggleConfig, UserOp
<1>6. CASE Poll(t) \/ Acquire(t) \/ Retry(t)
      BY <1>6 DEF Poll, Acquire, Retry, Runnable, EnterSlots, StartCall, Leave
<1> QED BY <1>1, <1>2, <1>3, <1>4, <1>5, <1>6 DEF Next

\* A config turned off by _disable_config has no task on its way to a launch.
THEOREM AlwaysStopped == Spec => []Stopped
BY AlwaysConsistent, InitStopped, NextStopped, PTL DEF Spec

\* After _disable_config no launch is started for the config until its user
\* enables it again.
THEOREM WorkerStopIsFinal == Spec => StoppedStaysStopped
<1>1. ASSUME Consistent, Stopped, Next, NEW t \in Tasks, StartsCall(t)
      PROVE  "verdict" \notin since[cfg'[t]]
      BY <1>1, LaunchStart DEF Stopped
<1>2. Consistent /\ Stopped /\ [Next]_vars =>
          [\A t \in Tasks : StartsCall(t) => "verdict" \notin since[cfg'[t]]]_vars
      BY <1>1
<1> QED BY <1>2, AlwaysConsistent, AlwaysStopped, PTL DEF Spec, StoppedStaysStopped

\* After a recorded success no launch is started for the config until its user
\* enables it again, unless the process crashed.
THEOREM SuccessIsFinal == Spec => RecordedSuccessStops
<1>1. Spec => []Won
      BY AlwaysConsistent, InitWon, NextWon, PTL DEF Spec
<1>2. ASSUME Consistent, Won, Next, NEW t \in Tasks, StartsCall(t), ~crashed
      PROVE  "won" \notin since[cfg'[t]]
      BY <1>2, LaunchStart DEF Won, LoopFree, MidSegment
<1>3. Consistent /\ Won /\ [Next]_vars =>
          [\A t \in Tasks : StartsCall(t) /\ ~crashed => "won" \notin since[cfg'[t]]]_vars
      BY <1>2
<1> QED BY <1>1, <1>3, AlwaysConsistent, PTL DEF Spec, RecordedSuccessStops

\* max_attempts is never exceeded by the recorded attempts.
THEOREM CapHolds == Spec => []AttemptsWithinCap
<1>1. Spec => []CapKept
      BY AlwaysConsistent, InitCapKept, NextCapKept, PTL DEF Spec
<1>2. CapKept => AttemptsWithinCap
      BY DEF CapKept, AttemptsWithinCap
<1> QED BY <1>1, <1>2, PTL

-----------------------------------------------------------------------------
\* What a pass knows of _running while it awaits: the tasks still to be cancelled
\* are on its list, and then what it has spawned or left alone is as the snapshot says.
PassOK ==
    /\ sup = "cancel" => \A c \in Configs : Stays(c) /\ desired[c] = 0 => c \in todo
    /\ sup = "spawn" => \A c \in Configs :
           /\ desired[c] = 0 => ~Stays(c) /\ c \notin todo
           /\ desired[c] # 0 /\ c \notin todo => Stays(c) /\ seen[c] = desired[c]

\* At first no pass is under way.
LEMMA InitPassOK == Init => PassOK
BY DEF Init, PassOK

\* Only the supervisor writes _running and its lists, and a task that dies while it
\* is cancelled ends the pass.
LEMMA NextPassOK == Consistent /\ PassOK /\ [Next]_vars => PassOK'
<1> SUFFICES ASSUME Consistent, PassOK, [Next]_vars PROVE PassOK'
    OBVIOUS
<1> USE DEF Consistent, TypeOK, PassOK, Stays
<1>1. CASE UNCHANGED <<running, seen, sup, desired, todo>>
      BY <1>1
<1>2. CASE Reconcile
      BY <1>2 DEF Reconcile, Ended
<1>3. CASE CancelLoop
      BY <1>3 DEF CancelLoop, CancelTask
<1>4. CASE CancelDone
      BY <1>4 DEF CancelDone
<1>5. ASSUME sup' \notin {"cancel", "spawn"} PROVE PassOK'
      BY <1>5
<1>6. CASE SpawnLoop
  <2>1. ASSUME NEW c \in todo, ~Stays(c), Spawn(c), todo' = todo \ {c}, UNCHANGED <<sup, desired>>
        PROVE  PassOK'
        BY <1>6, <2>1 DEF Spawn, SpawnLoop
  <2>2. ASSUME NEW c \in todo, CancelTask(c), todo' = todo
        PROVE  PassOK'
        BY <1>6, <2>2 DEF CancelTask, SpawnLoop
  <2>3. ASSUME NEW c \in todo, Stays(c), ~Edited(c), todo' = todo \ {c},
               UNCHANGED <<running, seen, sup, desired>>
        PROVE  PassOK'
        BY <1>6, <2>3 DEF SpawnLoop
  <2> QED BY <1>5, <1>6, <2>1, <2>2, <2>3 DEF SpawnLoop
<1>7. CASE Stop
      BY <1>7 DEF Stop
<1>8. ASSUME NEW t \in Tasks, TaskStep(t) PROVE PassOK'
  <2>1. UNCHANGED supervisor
        BY <1>8 DEF TaskStep, Poll, Acquire, BackOff, Retry, Record, Disable, Announce, Notified,
                    Cancelled
  <2> QED BY <1>1, <2>1
<1>9. ASSUME \/ \E t \in Tasks : CallReturns(t)
             \/ \E c \in Configs : OrphanReturns(c)
             \/ User \/ UNCHANGED vars
      PROVE  PassOK'
  <2>1. UNCHANGED supervisor
        BY <1>9 DEF CallReturns, OrphanReturns, User, CreateConfig, DeleteConfig, UpdateConfig,
                    ToggleConfig, UserOp, vars
  <2> QED BY <1>1, <2>1
<1>10. CASE BeginShutdown \/ EndShutdown \/ Exit \/ Crash \/ Boot
       BY <1>1, <1>5, <1>10 DEF BeginShutdown, EndShutdown, Exit, Crash, Boot
<1> QED BY <1>2, <1>3, <1>4, <1>6, <1>7, <1>8, <1>9, <1>10 DEF Next, SupStep

\* A pass that comes to its end has a task for every config its snapshot shows as
\* enabled, spawned from the updated_at it shows, and has left no other alive
\* (PollerSupervisor.reconcile).
THEOREM PassesConverge == Spec => []PassConverges
<1>1. Spec => []PassOK
      BY AlwaysConsistent, InitPassOK, NextPassOK, PTL DEF Spec
<1>2. Consistent /\ PassOK => PassConverges
  <2> SUFFICES ASSUME Consistent, PassOK, sup = "spawn", waiting = NoTask, todo = {}
               PROVE  /\ \A c \in Configs : desired[c] # 0 => Stays(c)
                      /\ \A t \in Tasks : Live(t) =>
                            desired[cfg[t]] # 0 /\ seen[cfg[t]] = desired[cfg[t]]
      BY DEF PassConverges
  <2>1. ASSUME NEW t \in Tasks, Live(t) PROVE cfg[t] \in Configs /\ Stays(cfg[t])
        BY <2>1 DEF Consistent, EveryTaskOwned, TaskOK, Live, Stays
  <2> QED BY <2>1 DEF PassOK
<1> QED BY <1>1, <1>2, AlwaysConsistent, PTL

-----------------------------------------------------------------------------
(* The slots                                                               *)

\* Where task t is on its way through the slots.
PhaseOf(t) == IF HoldsCred(t) THEN "in"
              ELSE IF pc[t] \in {"cred", "global"} THEN pc[t] ELSE "out"

\* A task that is in its launch counts its tries.
Counting == \A t \in Tasks : pc[t] \in {"call", "backoff"} => tries[t] # 0

LEMMA InitCounting == Init => Counting
BY DEF Init, Counting

LEMMA NextCounting == Consistent /\ Counting /\ [Next]_vars => Counting'
<1> SUFFICES ASSUME Consistent, Counting, [Next]_vars PROVE Counting'
    OBVIOUS
<1> USE DEF Consistent, TypeOK, TaskOK, Counting, Goto, Leave, EnterSlots, StartCall
<1>1. CASE UNCHANGED <<pc, tries>>
      BY <1>1
<1>2. ASSUME NEW t \in Tasks, TaskStep(t) PROVE Counting'
  <2>1. CASE Poll(t) \/ Acquire(t)
        BY <2>1 DEF Poll, Acquire, WaitsFor
  <2>2. CASE BackOff(t) \/ Retry(t)
        BY <2>2 DEF BackOff, Retry
  <2>3. CASE Record(t) \/ Disable(t) \/ Announce(t)
        BY <2>3 DEF Record, Disable, Announce
  <2>4. CASE Notified(t) \/ Cancelled(t)
        BY <2>4 DEF Notified, Cancelled
  <2> QED BY <1>2, <2>1, <2>2, <2>3, <2>4 DEF TaskStep
<1>3. CASE SupStep
      BY <1>3 DEF SupStep, Reconcile, CancelLoop, CancelTask, CancelDone, SpawnLoop, Spawn,
                  BeginShutdown, EndShutdown, Forget
<1>4. CASE Crash
      BY <1>4 DEF Crash, Forget
<1> QED BY <1>1, <1>2, <1>3, <1>4
        DEF Next, vars, CallReturns, OrphanReturns, Stop, Exit, Boot, User, CreateConfig,
            DeleteConfig, UpdateConfig, ToggleConfig, UserOp

\* A config is where its live task is, and out if it has none.
LEMMA PhaseOfConfig ==
    ASSUME Consistent, NEW c \in Configs
    PROVE  /\ \A t \in Tasks : cfg[t] = c /\ Live(t) => SlotPhase[c] = PhaseOf(t)
           /\ (\A t \in Tasks : cfg[t] = c => ~Live(t)) => SlotPhase[c] = "out"
<1>1. \A t \in Tasks : HoldsCred(t) \/ pc[t] \in {"cred", "global"} => Live(t)
      BY DEF HoldsCred, Live
<1>2. \A t \in Tasks : HoldsCred(t) => pc[t] \notin {"cred", "global"}
      BY DEF HoldsCred
<1>3. ASSUME NEW t \in Tasks, cfg[t] = c, Live(t) PROVE SlotPhase[c] = PhaseOf(t)
  <2>1. \A u \in Tasks : cfg[u] = c /\ Live(u) => u = t
        BY <1>3, ConsistentOneTask DEF OneTaskPerConfig
  <2> QED BY <1>1, <1>2, <1>3, <2>1 DEF SlotPhase, PhaseOf
<1>4. ASSUME \A t \in Tasks : cfg[t] = c => ~Live(t) PROVE SlotPhase[c] = "out"
      BY <1>1, <1>4 DEF SlotPhase
<1> QED BY <1>3, <1>4

\* A step of one live task moves its config alone.
LEMMA OneMoves ==
    ASSUME Consistent, NEW t \in Tasks, Live(t), cfg' = cfg,
           \A u \in Tasks : u # t => pc'[u] = pc[u] /\ tries'[u] = tries[u]
    PROVE  /\ cfg[t] \in Configs /\ SlotPhase[cfg[t]] = PhaseOf(t)
           /\ SlotPhase' = [SlotPhase EXCEPT ![cfg[t]] = PhaseOf(t)']
<1>1. cfg[t] \in Configs /\ SlotPhase[cfg[t]] = PhaseOf(t)
      BY PhaseOfConfig DEF Consistent, TaskOK, Live
<1>2. SlotPhase'[cfg[t]] = PhaseOf(t)'
  <2>1. \A u \in Tasks : u # t /\ cfg[u] = cfg[t] =>
            ~HoldsCred(u)' /\ pc'[u] \notin {"cred", "global"}
        BY ConsistentOneTask DEF OneTaskPerConfig, HoldsCred, Live
  <2>2. HoldsCred(t)' => pc'[t] \notin {"cred", "global"}
        BY DEF HoldsCred
  <2> QED BY <1>1, <2>1, <2>2 DEF SlotPhase, PhaseOf
<1>3. ASSUME NEW c \in Configs, c # cfg[t] PROVE SlotPhase'[c] = SlotPhase[c]
  <2>1. \A u \in Tasks : cfg[u] = c => /\ HoldsCred(u)' <=> HoldsCred(u)
                                       /\ pc'[u] = pc[u] /\ cfg'[u] = c
        BY <1>3 DEF HoldsCred
  <2> QED BY <2>1 DEF SlotPhase
<1>4. SlotPhase = [c \in Configs |-> SlotPhase[c]] /\ SlotPhase' = [c \in Configs |-> SlotPhase'[c]]
      BY DEF SlotPhase
<1> QED BY <1>1, <1>2, <1>3, <1>4

\* Steps after which every task is where it was, or on neither side in its slots.
LEMMA NoneMoves ==
    ASSUME \A t \in Tasks : \/ pc'[t] = pc[t] /\ cfg'[t] = cfg[t] /\ tries'[t] = tries[t]
                            \/ /\ pc[t] \in {"none", "new", "sleep", "done", "failed"}
                               /\ pc'[t] \in {"none", "new", "sleep", "done", "failed"}
    PROVE  SlotPhase' = SlotPhase
<1>1. ASSUME NEW c \in Configs, NEW t \in Tasks
      PROVE  /\ cfg'[t] = c /\ HoldsCred(t)' <=> cfg[t] = c /\ HoldsCred(t)
             /\ cfg'[t] = c /\ pc'[t] = "cred" <=> cfg[t] = c /\ pc[t] = "cred"
             /\ cfg'[t] = c /\ pc'[t] = "global" <=> cfg[t] = c /\ pc[t] = "global"
      BY DEF HoldsCred
<1> QED BY <1>1 DEF SlotPhase

\* The instance counts as this module does.
LEMMA SameCount == \A S : Slots!Cardinality(S) = Cardinality(S)
BY DEF Slots!Cardinality, Cardinality

\* A set of configs each of which has a task in S is not larger than S.
LEMMA ConfigsOfTasks ==
    ASSUME NEW S, S \subseteq Tasks, NEW C, \A c \in C : \E t \in S : cfg[t] = c
    PROVE  Cardinality(C) <= Cardinality(S) /\ Cardinality(C) \in Nat /\ Cardinality(S) \in Nat
<1> DEFINE T == {t \in S : cfg[t] \in C}
           f == [t \in T |-> cfg[t]]
<1>1. IsFiniteSet(S) /\ IsFiniteSet(T) /\ Cardinality(T) <= Cardinality(S)
      BY FS_Subset
<1>2. f \in Surjection(T, C)
      BY DEF Surjection
<1>3. IsFiniteSet(C) /\ Cardinality(C) <= Cardinality(T)
      BY <1>1, <1>2, FS_Surjection
<1>4. Cardinality(C) \in Nat /\ Cardinality(T) \in Nat /\ Cardinality(S) \in Nat
      BY <1>1, <1>3, FS_CardinalityType
<1> QED BY <1>1, <1>3, <1>4

\* A slot that is free for a task is free in SlotLimits.
LEMMA SlotsFree ==
    ASSUME Consistent
    PROVE  /\ ~GlobalFull => Slots!GlobalFree
           /\ \A k : ~CredFull(k) => Slots!CredFree(k)
<1>1. ASSUME NEW c \in Configs, SlotPhase[c] # "out"
      PROVE  \E t \in Tasks : cfg[t] = c /\ SlotPhase[c] = PhaseOf(t)
      BY <1>1, PhaseOfConfig
<1>2. ASSUME ~GlobalFull PROVE Slots!GlobalFree
  <2> DEFINE S == {t \in Tasks : HoldsGlobal(t)}
             C == Slots!HasGlobal
  <2>1. \A c \in C : \E t \in S : cfg[t] = c
        BY <1>1 DEF Slots!HasGlobal, PhaseOf, HoldsGlobal
  <2>2. Cardinality(C) <= Cardinality(S) /\ Cardinality(C) \in Nat /\ Cardinality(S) \in Nat
    <3>1. S \subseteq Tasks
          OBVIOUS
    <3> HIDE DEF S, C
    <3> QED BY <2>1, <3>1, ConfigsOfTasks
  <2>3. ~(Cardinality(S) >= GlobalMax)
        BY <1>2 DEF GlobalFull
  <2>4. Cardinality(C) < GlobalMax
    <3> HIDE DEF S, C
    <3> QED BY <2>2, <2>3
  <2> QED BY <2>4, SameCount DEF Slots!GlobalFree
<1>3. ASSUME NEW k, ~CredFull(k) PROVE Slots!CredFree(k)
  <2> DEFINE S == {t \in Tasks : HoldsCred(t) /\ CredOf[cfg[t]] = k}
             C == Slots!HasCred(k)
  <2>1. \A c \in C : \E t \in S : cfg[t] = c
        BY <1>1 DEF Slots!HasCred, PhaseOf
  <2>2. Cardinality(C) <= Cardinality(S) /\ Cardinality(C) \in Nat /\ Cardinality(S) \in Nat
    <3>1. S \subseteq Tasks
          OBVIOUS
    <3> HIDE DEF S, C
    <3> QED BY <2>1, <3>1, ConfigsOfTasks
  <2>3. ~(Cardinality(S) >= CredMax)
        BY <1>3 DEF CredFull
  <2>4. Cardinality(C) < CredMax
    <3> HIDE DEF S, C
    <3> QED BY <2>2, <2>3
  <2> QED BY <2>4, SameCount DEF Slots!CredFree
<1> QED BY <1>2, <1>3

\* A task that enters its slots, from the top of its poll or from a wait, takes one
\* of the steps of SlotLimits.
LEMMA EnterKeeps ==
    ASSUME Consistent, NEW t \in Tasks, EnterSlots(t), cfg' = cfg, WaitsFor(t) # pc[t],
           pc[t] \in {"new", "sleep", "global", "cred"}
    PROVE  Slots!Next
<1> DEFINE c == cfg[t]
<1>1. /\ pc' = [pc EXCEPT ![t] = WaitsFor(t)] /\ pc \in [Tasks -> PCs] /\ tries[t] = 0
      /\ WaitsFor(t) = "call" => tries' = [tries EXCEPT ![t] = @ + 1]
      /\ WaitsFor(t) # "call" => tries' = tries
      /\ tries \in [Tasks -> 0..MaxTries]
      BY DEF EnterSlots, Goto, StartCall, Consistent, TypeOK, TaskOK
<1>2. \A u \in Tasks : u # t => pc'[u] = pc[u] /\ tries'[u] = tries[u]
      BY <1>1
<1>3. /\ c \in Configs /\ SlotPhase[c] = PhaseOf(t)
      /\ SlotPhase' = [SlotPhase EXCEPT ![c] = PhaseOf(t)']
      BY <1>2, OneMoves DEF Live
<1>4. PhaseOf(t) = IF pc[t] \in {"cred", "global"} THEN pc[t] ELSE "out"
      BY DEF PhaseOf, HoldsCred
<1>5. PhaseOf(t)' = IF WaitsFor(t) = "call" THEN "in" ELSE WaitsFor(t)
      BY <1>1 DEF PhaseOf, HoldsCred, WaitsFor
<1>6. HoldsGlobal(t) <=> pc[t] = "cred"
      BY DEF HoldsGlobal, HoldsCred
<1> HIDE DEF c
<1>7. CASE WaitsFor(t) = "global"
  <2>1. pc[t] \in {"new", "sleep"}
        BY <1>6, <1>7 DEF WaitsFor
  <2> QED BY <1>3, <1>4, <1>5, <1>7, <2>1 DEF Slots!Next, Slots!Wait, Slots!Moves
<1>8. CASE WaitsFor(t) = "cred"
  <2>1. ~GlobalFull /\ pc[t] \in {"new", "sleep", "global"}
        BY <1>6, <1>8 DEF WaitsFor
  <2>2. Slots!GlobalFree
        BY <2>1, SlotsFree
  <2> QED BY <1>3, <1>4, <1>5, <1>8, <2>1, <2>2
          DEF Slots!Next, Slots!Serve, Slots!TakeGlobal, Slots!Moves
<1>9. CASE WaitsFor(t) = "call"
  <2>1. ~CredFull(CredOf[c]) /\ (pc[t] # "cred" => ~GlobalFull)
        BY <1>6, <1>9 DEF WaitsFor, c
  <2>2. Slots!CredFree(CredOf[c]) /\ (pc[t] # "cred" => Slots!GlobalFree)
        BY <2>1, SlotsFree
  <2>3. CASE pc[t] = "cred"
        BY <1>3, <1>4, <1>5, <1>9, <2>2, <2>3
        DEF Slots!Next, Slots!Serve, Slots!TakeCred, Slots!Moves
  <2>4. CASE pc[t] # "cred"
        BY <1>3, <1>4, <1>5, <1>9, <2>2, <2>4
        DEF Slots!Next, Slots!Serve, Slots!TakeBoth, Slots!Moves
  <2> QED BY <2>3, <2>4
<1> QED BY <1>7, <1>8, <1>9 DEF WaitsFor

\* Any other step of a task leaves it where it is, or out of its slots.
LEMMA StepKeeps ==
    ASSUME Consistent, NEW t \in Tasks, Live(t), cfg' = cfg,
           \A u \in Tasks : u # t => pc'[u] = pc[u] /\ tries'[u] = tries[u],
           PhaseOf(t)' = PhaseOf(t) \/ PhaseOf(t)' = "out"
    PROVE  [Slots!Next]_SlotPhase
<1>1. /\ cfg[t] \in Configs /\ SlotPhase[cfg[t]] = PhaseOf(t)
      /\ SlotPhase' = [SlotPhase EXCEPT ![cfg[t]] = PhaseOf(t)']
      BY OneMoves
<1>2. CASE PhaseOf(t)' = PhaseOf(t)
  <2>1. SlotPhase' = SlotPhase
        BY <1>1, <1>2 DEF SlotPhase
  <2> QED BY <2>1
<1>3. CASE PhaseOf(t)' = "out" /\ PhaseOf(t) # "out"
  <2>1. SlotPhase[cfg[t]] \in {"global", "cred", "in"}
        BY <1>1, <1>3 DEF PhaseOf
  <2> QED BY <1>1, <1>3, <2>1 DEF Slots!Next, Slots!Leave, Slots!Moves
<1> QED BY <1>2, <1>3

\* Every step of the poller is a step of SlotLimits, or leaves the phases.
LEMMA NextKeeps ==
    ASSUME Consistent, Counting, [Next]_vars PROVE [Slots!Next]_SlotPhase
<1> USE DEF Consistent, TypeOK, TaskOK
<1>1. ASSUME NEW t \in Tasks, TaskStep(t) PROVE [Slots!Next]_SlotPhase
  <2>1. ASSUME Poll(t) \/ Acquire(t), EnterSlots(t) PROVE Slots!Next
    <3>1. cfg' = cfg /\ WaitsFor(t) # pc[t] /\ pc[t] \in {"new", "sleep", "global", "cred"}
          BY <2>1 DEF Poll, Acquire, WaitsFor
    <3> QED BY <2>1, <3>1, EnterKeeps
  <2>2. ASSUME ~(Poll(t) /\ EnterSlots(t)), ~Acquire(t)
        PROVE  /\ Live(t) /\ cfg' = cfg
               /\ \A u \in Tasks : u # t => pc'[u] = pc[u] /\ tries'[u] = tries[u]
               /\ PhaseOf(t)' = PhaseOf(t) \/ PhaseOf(t)' = "out"
    <3> USE DEF Goto, Leave, StartCall, Live, PhaseOf, HoldsCred, Counting
    <3>1. CASE Poll(t)
          BY <2>2, <3>1 DEF Poll
    <3>2. CASE BackOff(t) \/ Retry(t)
          BY <3>2 DEF BackOff, Retry
    <3>3. CASE Record(t)
          BY <3>3 DEF Record
    <3>4. CASE Disable(t) \/ Announce(t)
          BY <3>4 DEF Disable, Announce
    <3>5. CASE Notified(t) \/ Cancelled(t)
          BY <3>5 DEF Notified, Cancelled, LoopOK
    <3> QED BY <1>1, <2>2, <3>1, <3>2, <3>3, <3>4, <3>5 DEF TaskStep
  <2>3. CASE ~(Poll(t) /\ EnterSlots(t)) /\ ~Acquire(t)
        BY <2>2, <2>3, StepKeeps
  <2>4. Acquire(t) => EnterSlots(t)
        BY DEF Acquire
  <2> QED BY <2>1, <2>3, <2>4
<1>2. CASE Crash
  <2>1. \A t \in Tasks : pc'[t] = "none"
        BY <1>2 DEF Crash, Forget
  <2>2. SlotPhase' = [c \in Configs |-> "out"]
        BY <2>1 DEF SlotPhase, HoldsCred
  <2> QED BY <2>2 DEF Slots!Next, Slots!Reset
<1>3. CASE SupStep
  <2>1. \A t \in Tasks : \/ pc'[t] = pc[t] /\ cfg'[t] = cfg[t] /\ tries'[t] = tries[t]
                         \/ /\ pc[t] \in {"none", "new", "sleep", "done", "failed"}
                            /\ pc'[t] \in {"none", "new", "sleep", "done", "failed"}
    <3> USE DEF Forget, Ended, Live, Stays
    <3>1. CASE Reconcile
          BY <3>1 DEF Reconcile
    <3>2. CASE CancelLoop
          BY <3>2 DEF CancelLoop, CancelTask
    <3>3. CASE CancelDone
          BY <3>3 DEF CancelDone
    <3>4. CASE SpawnLoop
          BY <3>4 DEF SpawnLoop, Spawn, CancelTask, Goto
    <3>5. CASE BeginShutdown \/ EndShutdown
          BY <3>5 DEF BeginShutdown, EndShutdown
    <3> QED BY <1>3, <3>1, <3>2, <3>3, <3>4, <3>5 DEF SupStep
  <2>2. SlotPhase' = SlotPhase
        BY <2>1, NoneMoves
  <2> QED BY <2>2
<1>4. CASE UNCHANGED <<pc, cfg, tries>>
  <2>1. SlotPhase' = SlotPhase
        BY <1>4, NoneMoves
  <2> QED BY <2>1
<1> QED BY <1>1, <1>2, <1>3, <1>4
        DEF Next, vars, CallReturns, OrphanReturns, Stop, Exit, Boot, User, CreateConfig,
            DeleteConfig, UpdateConfig, ToggleConfig, UserOp

\* The polls keep to the slots as SlotLimits promises them, through every
\* cancellation, retry, early end and crash (concurrency.py, config_task.py).
THEOREM PollsKeepToSlots == Spec => KeepsToSlots
<1>1. Init => Slots!Init
      BY DEF Init, Slots!Init, SlotPhase, HoldsCred
<1>2. Spec => []Counting
      BY AlwaysConsistent, InitCounting, NextCounting, PTL DEF Spec
<1>3. Consistent /\ Counting /\ [Next]_vars => [Slots!Next]_SlotPhase
      BY NextKeeps
<1> QED BY <1>1, <1>2, <1>3, AlwaysConsistent, PTL DEF Spec, KeepsToSlots, Slots!Spec
=============================================================================

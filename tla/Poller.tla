------------------------------- MODULE Poller -------------------------------
(***************************************************************************)
(* The polling engine: the supervisor coroutine (workers/poller.py), the   *)
(* per-config polling tasks it spawns, cancels and restarts                *)
(* (workers/config_task.py), the InstanceConfig rows both read, the API    *)
(* handlers that change those rows (api/configs.py), the sync OCI calls    *)
(* that run in OS threads, and stop, crash and restart of the process.     *)
(*                                                                         *)
(* Everything but the API handlers and the OCI calls runs on one asyncio   *)
(* event loop, so a coroutine is interrupted only where it awaits.  A      *)
(* segment between two awaits is one action, unless it commits to the      *)
(* database more than once: then it is one action per commit, other        *)
(* coroutines wait (LoopFree), and only an API thread, an OCI thread or a  *)
(* crash comes between.                                                    *)
(***************************************************************************)
EXTENDS Naturals, FiniteSets

CONSTANTS
    Configs, NoConfig,   \* InstanceConfig ids
    Tasks, NoTask,       \* asyncio.Task objects; one may be reused when it is gone
    CredOf,         \* CredOf[c]: the credential of config c
    Cap, NoCap,     \* Cap[c]: max_attempts of c, or NoCap
    Failing,        \* configs whose poll may die of an exception nothing catches
    WithChannels,   \* configs with a notification channel
    Replies,        \* outcomes OCI gives in this model, a subset of Outcomes
    GlobalMax, CredMax,      \* OCI_MAX_CONCURRENT, OCI_PER_CREDENTIAL_MAX
    UserOps,                 \* user operations of this model
    MaxEdits, MaxRestarts    \* bounds on user operations and on restarts

Outcomes == {"success", "out_of_capacity", "rate_limited",
             "auth_error", "config_error", "other_error"}

\* Mutant: a success does not turn the config off.
TerminalErrors == {"auth_error", "config_error"}

\* Outcomes after which a config is turned off.
Terminal == {"success", "auth_error", "config_error"}

\* stop_after_attempt(3)
MaxTries == 3

ASSUME PollerAssumption ==
    /\ NoTask \notin Tasks /\ NoConfig \notin Configs
    /\ IsFiniteSet(Tasks)
    /\ NoCap \notin Nat
    /\ Cap \in [Configs -> Nat \cup {NoCap}]
    /\ Replies \subseteq Outcomes
    /\ GlobalMax \in Nat /\ CredMax \in Nat
    /\ MaxEdits \in Nat /\ MaxRestarts \in Nat

VARIABLES
    \* the database
    row,        \* row[c]: "absent", or the enabled flag, "on" or "off"
    stamp,      \* stamp[c]: updated_at, a new one at every write of the row
    made,       \* made[c]: Attempt rows of c, counted only under a cap
    \* the polling tasks
    pc, cfg, tries,
    call,       \* call[t]: "none", "flying" in an OS thread, or its outcome
    cancelled,  \* tasks with a CancelledError on its way
    orphans,    \* orphans[c]: calls for c still flying though their task is over
    \* the supervisor's dictionary _running: the task and its updated_at
    running, seen,
    \* the supervisor coroutine
    sup,
    desired,    \* the snapshot of this pass: updated_at, 0 for a config not enabled
    todo,       \* configs the current loop of the pass has still to visit
    waiting,    \* the task `await running.task` waits for, or NoTask
    \* the process
    proc, restarts, edits,
    \* history
    since,      \* since[c]: what happened to c since the user last enabled it
    crashed     \* the process has crashed

database   == <<row, stamp, made>>
tasks      == <<pc, cfg, tries, call, cancelled, orphans>>
supervisor == <<running, seen, sup, desired, todo, waiting>>
process    == <<proc, restarts, edits, crashed>>
vars       == <<database, tasks, supervisor, process, since>>

PCs == {"none", "new", "global", "cred", "call", "backoff", "disable",
        "announce", "notify", "sleep", "done", "failed"}

TypeOK ==
    /\ row \in [Configs -> {"absent", "off", "on"}]
    /\ stamp \in [Configs -> Nat \ {0}]
    /\ made \in [Configs -> Nat]
    /\ pc \in [Tasks -> PCs]
    /\ cfg \in [Tasks -> Configs \cup {NoConfig}]
    /\ tries \in [Tasks -> 0..MaxTries]
    /\ call \in [Tasks -> {"none", "flying"} \cup Outcomes]
    /\ cancelled \subseteq Tasks
    /\ orphans \in [Configs -> Nat]
    /\ running \in [Configs -> Tasks \cup {NoTask}]
    /\ seen \in [Configs -> Nat]
    /\ sup \in {"start", "sleep", "cancel", "spawn", "dying", "drain", "ended"}
    /\ desired \in [Configs -> Nat]
    /\ todo \subseteq Configs
    /\ waiting \in Tasks \cup {NoTask}
    /\ proc \in {"up", "stopping", "down"}
    /\ restarts \in 0..MaxRestarts
    /\ edits \in 0..MaxEdits
    /\ since \in [Configs -> SUBSET {"instance", "won", "verdict", "told"}]
    /\ crashed \in BOOLEAN

-----------------------------------------------------------------------------
(* Tasks, slots and the event loop                                         *)

Live(t) == pc[t] \notin {"none", "done", "failed"}

\* Between two commits of one segment the task keeps the event loop.
MidSegment(t) == pc[t] \in {"disable", "announce"}

\* Between two awaits of a pass the supervisor keeps the event loop.
SupBusy == sup \in {"cancel", "spawn"} /\ waiting = NoTask

LoopFree    == proc # "down" /\ ~SupBusy /\ \A t \in Tasks : ~MidSegment(t)
Runnable(t) == LoopFree /\ t \notin cancelled

\* A task at the attempt cap (tries = 0) holds no slot while it turns c off.
HoldsCred(t)   == /\ pc[t] \in {"call", "backoff", "disable", "announce", "notify"}
                  /\ tries[t] > 0

\* Mutant: the slot is held through the sleep between two polls.
HoldsGlobalAsleep(t) == HoldsCred(t) \/ pc[t] \in {"cred", "sleep"}

HoldsGlobal(t) == HoldsCred(t) \/ pc[t] = "cred"

\* Mutant: one slot too many.
GlobalFullLate == Cardinality({t \in Tasks : HoldsGlobal(t)}) > GlobalMax

GlobalFull  == Cardinality({t \in Tasks : HoldsGlobal(t)}) >= GlobalMax
CredFull(k) == Cardinality({t \in Tasks : HoldsCred(t) /\ CredOf[cfg[t]] = k}) >= CredMax

Note(c, what) == [since EXCEPT ![c] = @ \cup {what}]

Goto(t, phase) == pc' = [pc EXCEPT ![t] = phase]

\* The task leaves its slots, to sleep or because it is over.
Leave(t, phase) == Goto(t, phase) /\ tries' = [tries EXCEPT ![t] = 0]

\* Nothing refers to the tasks in S any more.
Forget(S) == /\ pc' = [t \in Tasks |-> IF t \in S THEN "none" ELSE pc[t]]
             /\ cfg' = [t \in Tasks |-> IF t \in S THEN NoConfig ELSE cfg[t]]

\* _attempt: to_thread submits launch_instance_sync with the details built
\* before the first try.
StartCall(t) == /\ call' = [call EXCEPT ![t] = "flying"]
                /\ tries' = [tries EXCEPT ![t] = @ + 1]

-----------------------------------------------------------------------------
(* One polling task: run_config_task, poll_once                            *)

\* oci_slots, then the call: the task runs on until a slot it needs is taken.
\* The semaphores' FIFO queues are modelled in OciSlots; here any waiter may
\* be next.
WaitsFor(t) == IF ~HoldsGlobal(t) /\ GlobalFull THEN "global"
               ELSE IF CredFull(CredOf[cfg[t]]) THEN "cred" ELSE "call"

EnterSlots(t) ==
    /\ Goto(t, WaitsFor(t))
    /\ IF WaitsFor(t) = "call" THEN StartCall(t) ELSE UNCHANGED <<call, tries>>

\* Mutant: one attempt too many.
AtCapLate(c) == Cap[c] # NoCap /\ made[c] > Cap[c]

AtCap(c) == Cap[c] # NoCap /\ made[c] >= Cap[c]

\* The top of poll_once, up to its first commit or await.  It may die of a
\* passphrase that does not decrypt (_load_passphrase) or of a database error.
Poll(t) ==
    LET c == cfg[t] IN
    /\ pc[t] \in {"new", "sleep"} /\ Runnable(t)
    /\ \/ /\ row[c] # "on"
          /\ Leave(t, "done") /\ UNCHANGED call
       \/ /\ row[c] = "on" /\ c \in Failing
          /\ Leave(t, "failed") /\ UNCHANGED call
       \/ /\ row[c] = "on" /\ AtCap(c)
          /\ Goto(t, "disable") /\ UNCHANGED <<call, tries>>
       \/ /\ row[c] = "on" /\ ~AtCap(c)
          /\ EnterSlots(t)
    /\ UNCHANGED <<database, cfg, cancelled, orphans, supervisor, process, since>>

\* A slot is released to a waiting task, which does not look at the row again.
Acquire(t) ==
    /\ pc[t] \in {"global", "cred"} /\ Runnable(t)
    /\ WaitsFor(t) # pc[t]
    /\ EnterSlots(t)
    /\ UNCHANGED <<database, cfg, cancelled, orphans, supervisor, process, since>>

\* launch_instance_sync ends in its OS thread; the answer is dropped if a
\* cancellation has already taken the place of it.
CallReturns(t) ==
    /\ call[t] = "flying"
    /\ \E r \in Replies :
        /\ call' = [call EXCEPT ![t] =
                                  IF t \in cancelled THEN "none" ELSE r]
        /\ since' = IF r = "success" THEN Note(cfg[t], "instance") ELSE since
    /\ UNCHANGED <<database, pc, cfg, tries, cancelled, orphans, supervisor, process>>

\* The same for a call whose task is over: nobody hears of its outcome.
OrphanReturns(c) ==
    /\ orphans[c] > 0
    /\ orphans' = [orphans EXCEPT ![c] = @ - 1]
    /\ \E r \in Replies : since' = IF r = "success" THEN Note(c, "instance") ELSE since
    /\ UNCHANGED <<database, pc, cfg, tries, call, cancelled, supervisor, process>>

\* Mutant: one try too many.
TriesLeftAfterLast(t) == tries[t] <= MaxTries

TriesLeft(t) == tries[t] < MaxTries

\* tenacity sleeps after a 429 and tries again, the slots still held.
BackOff(t) ==
    /\ pc[t] = "call" /\ Runnable(t)
    /\ call[t] = "rate_limited" /\ TriesLeft(t)
    /\ Goto(t, "backoff") /\ call' = [call EXCEPT ![t] = "none"]
    /\ UNCHANGED <<database, cfg, tries, cancelled, orphans, supervisor, process, since>>

Retry(t) ==
    /\ pc[t] = "backoff" /\ Runnable(t)
    /\ Goto(t, "call") /\ StartCall(t)
    /\ UNCHANGED <<database, cfg, cancelled, orphans, supervisor, process, since>>

\* _record_attempt: the foreign key refuses an Attempt of a deleted config,
\* and the task dies of it.  Outcomes that are retried release the slots.
Record(t) ==
    LET c == cfg[t]
        r == call[t]
    IN
    /\ pc[t] = "call" /\ Runnable(t)
    /\ r \in Outcomes /\ ~(r = "rate_limited" /\ TriesLeft(t))
    /\ call' = [call EXCEPT ![t] = "none"]
    /\ \/ /\ row[c] = "absent"
          /\ Leave(t, "failed") /\ UNCHANGED <<made, since>>
       \/ /\ row[c] # "absent"
          /\ made' = IF Cap[c] = NoCap THEN made ELSE [made EXCEPT ![c] = @ + 1]
          /\ since' = IF r = "success" THEN Note(c, "won") ELSE since
          /\ IF r \in Terminal THEN Goto(t, "disable") /\ UNCHANGED tries
                               ELSE Leave(t, "sleep")
    /\ UNCHANGED <<row, stamp, cfg, cancelled, orphans, supervisor, process>>

\* Mutant: only updated_at is written.
TurnOffStampOnly(c) == stamp' = [stamp EXCEPT ![c] = @ + 1] /\ UNCHANGED row

TurnOff(c) == /\ row' = [row EXCEPT ![c] = "off"]
              /\ stamp' = [stamp EXCEPT ![c] = @ + 1]

\* _disable_config.  After a launch the row is read again and a deleted one
\* skipped; at the cap the UPDATE of the row read before fails if it is gone.
Disable(t) ==
    LET c == cfg[t] IN
    /\ pc[t] = "disable" /\ proc # "down"
    /\ \/ /\ row[c] = "absent"
          /\ IF tries[t] = 0 THEN Leave(t, "failed")
                             ELSE Goto(t, "announce") /\ UNCHANGED tries
          /\ UNCHANGED <<row, stamp, since>>
       \/ /\ row[c] # "absent"
          /\ TurnOff(c)
          /\ since' = Note(c, "verdict")
          /\ Goto(t, "announce") /\ UNCHANGED tries
    /\ UNCHANGED <<made, cfg, call, cancelled, orphans, supervisor, process>>

\* _build_payload and _channels_for read the row once more (it has expired);
\* with no channel linked there is nobody to tell.
Announce(t) ==
    LET c == cfg[t] IN
    /\ pc[t] = "announce" /\ proc # "down"
    /\ \/ /\ row[c] = "absent"
          /\ Leave(t, "failed") /\ UNCHANGED since
       \/ /\ row[c] # "absent" /\ c \in WithChannels
          /\ Goto(t, "notify") /\ UNCHANGED <<tries, since>>
       \/ /\ row[c] # "absent" /\ c \notin WithChannels
          /\ Leave(t, "done") /\ since' = Note(c, "told")
    /\ UNCHANGED <<database, cfg, call, cancelled, orphans, supervisor, process>>

\* fan_out has tried every channel; the slots are released and the task ends.
Notified(t) ==
    /\ pc[t] = "notify" /\ Runnable(t)
    /\ Leave(t, "done")
    /\ since' = Note(cfg[t], "told")
    /\ UNCHANGED <<database, cfg, call, cancelled, orphans, supervisor, process>>

\* CancelledError at whatever the task awaits: the slots are released, an
\* answer not yet looked at is lost, a call still flying is not stopped.
Cancelled(t) ==
    /\ t \in cancelled /\ LoopFree
    /\ Leave(t, "done")
    /\ call' = [call EXCEPT ![t] = "none"]
    /\ orphans' = IF call[t] = "flying" THEN [orphans EXCEPT ![cfg[t]] = @ + 1] ELSE orphans
    /\ cancelled' = cancelled \ {t}
    /\ UNCHANGED <<database, cfg, supervisor, process, since>>

TaskStep(t) ==
    \/ Poll(t) \/ Acquire(t) \/ BackOff(t) \/ Retry(t) \/ Record(t)
    \/ Disable(t) \/ Announce(t) \/ Notified(t) \/ Cancelled(t)

-----------------------------------------------------------------------------
(* The supervisor: poller_supervisor, PollerSupervisor                     *)

Stays(c)  == running[c] # NoTask
Ended(c)  == Stays(c) /\ ~Live(running[c])

\* Mutant: every config is wanted, enabled or not.
WantedIfExists(c) == row[c] # "absent"

\* _enabled_configs
Wanted(c) == row[c] = "on"

\* The top of reconcile: read the enabled configs, drop the tasks that ended,
\* and list the tasks to cancel.
Reconcile ==
    /\ sup \in {"start", "sleep"} /\ LoopFree
    /\ desired' = [c \in Configs |-> IF Wanted(c) THEN stamp[c] ELSE 0]
    /\ running' = [c \in Configs |-> IF Ended(c) THEN NoTask ELSE running[c]]
    /\ Forget({running[c] : c \in {d \in Configs : Ended(d)}})
    /\ todo' = {c \in Configs : Stays(c) /\ ~Ended(c) /\ desired'[c] = 0}
    /\ sup' = "cancel"
    /\ UNCHANGED <<database, tries, call, cancelled, orphans, seen, waiting, process, since>>

\* Mutant: the cancelled task is not awaited.
DontAwait(t) == UNCHANGED waiting

AwaitEnd(t) == waiting' = t

\* _cancel: forget the task, cancel it and await its end.  A task that ended
\* meanwhile is not waited for; one that died passes its exception on, which
\* gives up the rest of the pass.
CancelTask(c) ==
    LET t == running[c] IN
    /\ running' = [running EXCEPT ![c] = NoTask]
    /\ \/ /\ Live(t)
          /\ cancelled' = cancelled \cup {t} /\ AwaitEnd(t)
          /\ UNCHANGED <<pc, cfg, sup>>
       \/ /\ ~Live(t)
          /\ Forget({t})
          /\ sup' = IF pc[t] = "failed" THEN "sleep" ELSE sup
          /\ UNCHANGED <<cancelled, waiting>>
    /\ UNCHANGED <<database, tries, call, orphans, seen, desired, process, since>>

\* The second loop: cancel the tasks of configs no longer enabled.
CancelLoop ==
    /\ sup = "cancel" /\ waiting = NoTask
    /\ \/ \E c \in todo : CancelTask(c) /\ todo' = todo \ {c}
       \/ /\ todo = {}
          /\ todo' = {c \in Configs : desired[c] # 0} /\ sup' = "spawn"
          /\ UNCHANGED <<database, tasks, running, seen, desired, waiting, process, since>>

\* The awaited task has ended: back to the loop that cancelled it.
CancelDone ==
    /\ waiting # NoTask /\ ~Live(waiting) /\ LoopFree
    /\ Forget({waiting})
    /\ waiting' = NoTask
    /\ UNCHANGED <<database, tries, call, cancelled, orphans, running, seen, sup, desired,
                   todo, process, since>>

\* _spawn, with the updated_at of the snapshot.
Spawn(c) ==
    \E t \in Tasks :
        /\ pc[t] = "none"
        /\ Goto(t, "new") /\ cfg' = [cfg EXCEPT ![t] = c]
        /\ running' = [running EXCEPT ![c] = t]
        /\ seen' = [seen EXCEPT ![c] = desired[c]]

\* Mutant: edits are not noticed.
NeverEdited(c) == FALSE

\* The row was written between the snapshot c's task was spawned from and the
\* one of this pass.
Edited(c) == seen[c] # desired[c]

\* The third loop: spawn what is missing, restart what was edited.  After the
\* await of a restart c has no task, and is spawned by the next round.
SpawnLoop ==
    /\ sup = "spawn" /\ waiting = NoTask
    /\ \/ \E c \in todo :
            /\ ~Stays(c) /\ Spawn(c) /\ todo' = todo \ {c}
            /\ UNCHANGED <<database, tries, call, cancelled, orphans, sup, desired,
                           waiting, process, since>>
       \/ \E c \in todo :
            /\ Stays(c) /\ ~Edited(c) /\ todo' = todo \ {c}
            /\ UNCHANGED <<database, tasks, running, seen, sup, desired, waiting,
                           process, since>>
       \/ \E c \in todo :
            /\ Stays(c) /\ Edited(c)
            /\ CancelTask(c) /\ UNCHANGED todo
       \/ /\ todo = {} /\ sup' = "sleep"
          /\ desired' = [c \in Configs |-> 0]
          /\ UNCHANGED <<database, tasks, running, seen, todo, waiting, process, since>>

\* shutdown: cancel every child, wait for all of them.
BeginShutdown ==
    /\ sup = "dying" /\ LoopFree
    /\ cancelled' = cancelled \cup {t \in Tasks : Live(t) /\ \E c \in Configs : running[c] = t}
    /\ sup' = "drain"
    /\ UNCHANGED <<database, pc, cfg, tries, call, orphans, running, seen, desired, todo,
                   waiting, process, since>>

EndShutdown ==
    /\ sup = "drain" /\ LoopFree
    /\ \A c \in Configs : Stays(c) => Ended(c)
    /\ Forget({running[c] : c \in {d \in Configs : Ended(d)}})
    /\ running' = [c \in Configs |-> NoTask]
    /\ sup' = "ended"
    /\ UNCHANGED <<database, tries, call, cancelled, orphans, seen, desired, todo, waiting,
                   process, since>>

SupStep == Reconcile \/ CancelLoop \/ CancelDone \/ SpawnLoop \/ BeginShutdown \/ EndShutdown

-----------------------------------------------------------------------------
(* The process: lifespan, crash and restart                                *)

\* The shutdown half of lifespan: poller_task.cancel(), then await it.  A
\* supervisor that has not started never will; one that awaits a child in
\* _cancel takes the CancelledError for the child's and carries on.
Stop ==
    /\ proc = "up" /\ restarts < MaxRestarts /\ LoopFree
    /\ proc' = "stopping"
    /\ sup' = CASE waiting # NoTask -> sup
                [] sup = "start" -> "ended"
                [] OTHER -> "dying"
    /\ UNCHANGED <<database, tasks, running, seen, desired, todo, waiting, restarts, edits,
                   since, crashed>>

\* The interpreter joins the default executor's threads before it exits.
Exit ==
    /\ proc = "stopping" /\ sup = "ended"
    /\ \A c \in Configs : orphans[c] = 0
    /\ proc' = "down"
    /\ UNCHANGED <<database, tasks, supervisor, restarts, edits, since, crashed>>

\* Everything in memory is lost.  A request OCI has received may still succeed.
Crash ==
    /\ proc # "down" /\ restarts < MaxRestarts
    /\ proc' = "down" /\ crashed' = TRUE
    /\ Forget(Tasks)
    /\ tries' = [t \in Tasks |-> 0] /\ call' = [t \in Tasks |-> "none"]
    /\ cancelled' = {}
    /\ orphans' = [c \in Configs |-> orphans[c] + Cardinality(
                      {t \in Tasks : cfg[t] = c /\ call[t] = "flying"})]
    /\ running' = [c \in Configs |-> NoTask]
    /\ sup' = "ended" /\ todo' = {} /\ waiting' = NoTask
    /\ UNCHANGED <<database, seen, desired, restarts, edits, since>>

\* restart: unless-stopped; lifespan creates the supervisor task.
Boot ==
    /\ proc = "down"
    /\ proc' = "up" /\ sup' = "start" /\ restarts' = restarts + 1
    /\ UNCHANGED <<database, tasks, running, seen, desired, todo, waiting, edits, since,
                   crashed>>

-----------------------------------------------------------------------------
(* The user, through threads of the API's pool (api/configs.py)            *)

UserOp(op) == /\ op \in UserOps /\ edits < MaxEdits /\ proc = "up"
              /\ edits' = edits + 1
              /\ UNCHANGED <<tasks, supervisor, proc, restarts, crashed>>

Touch(c) == stamp' = [stamp EXCEPT ![c] = @ + 1]

\* A new config is enabled.  SQLite gives a new row the id of a deleted one
\* that was the largest.
CreateConfig(c) ==
    /\ row[c] = "absent" /\ UserOp("create")
    /\ row' = [row EXCEPT ![c] = "on"] /\ Touch(c)
    /\ since' = [since EXCEPT ![c] = {}]
    /\ UNCHANGED made

\* The config's attempts and channel links go with it.
DeleteConfig(c) ==
    /\ row[c] # "absent" /\ UserOp("delete")
    /\ row' = [row EXCEPT ![c] = "absent"]
    /\ made' = [made EXCEPT ![c] = 0]
    /\ since' = [since EXCEPT ![c] = {}]
    /\ UNCHANGED stamp

\* Every field but enabled may change; updated_at always does.
UpdateConfig(c) ==
    /\ row[c] # "absent" /\ UserOp("update")
    /\ Touch(c)
    /\ UNCHANGED <<row, made, since>>

ToggleConfig(c) ==
    /\ row[c] # "absent" /\ UserOp("toggle")
    /\ row' = [row EXCEPT ![c] = IF @ = "on" THEN "off" ELSE "on"] /\ Touch(c)
    /\ since' = IF row[c] = "on" THEN since ELSE [since EXCEPT ![c] = {}]
    /\ UNCHANGED made

User == \E c \in Configs :
            CreateConfig(c) \/ DeleteConfig(c) \/ UpdateConfig(c) \/ ToggleConfig(c)

-----------------------------------------------------------------------------
Init ==
    /\ row \in [Configs -> {"absent", "off", "on"}]
    /\ stamp = [c \in Configs |-> 1]
    /\ made = [c \in Configs |-> 0]
    /\ pc = [t \in Tasks |-> "none"]
    /\ cfg = [t \in Tasks |-> NoConfig]
    /\ tries = [t \in Tasks |-> 0]
    /\ call = [t \in Tasks |-> "none"]
    /\ cancelled = {}
    /\ orphans = [c \in Configs |-> 0]
    /\ running = [c \in Configs |-> NoTask]
    /\ seen = [c \in Configs |-> 0]
    /\ sup = "start"
    /\ desired = [c \in Configs |-> 0]
    /\ todo = {}
    /\ waiting = NoTask
    /\ proc = "up" /\ restarts = 0 /\ edits = 0
    /\ since = [c \in Configs |-> {}] /\ crashed = FALSE

Next ==
    \/ \E t \in Tasks : TaskStep(t) \/ CallReturns(t)
    \/ \E c \in Configs : OrphanReturns(c)
    \/ SupStep
    \/ Stop \/ Exit \/ Crash \/ Boot
    \/ User

Spec == Init /\ [][Next]_vars

\* The ready queue of the event loop and the waiters of an asyncio.Semaphore
\* are FIFO, so a coroutine that can run again and again does run.  OCI calls
\* end (the SDK's timeouts), notifications end (httpx timeout, three tries),
\* and the container is restarted.  Users owe nothing, and nothing crashes by
\* obligation.
Fairness ==
    /\ \A t \in Tasks : SF_vars(TaskStep(t)) /\ WF_vars(CallReturns(t))
    /\ \A c \in Configs : WF_vars(OrphanReturns(c))
    /\ SF_vars(SupStep) /\ WF_vars(Exit) /\ WF_vars(Boot)

FairSpec == Spec /\ Fairness

-----------------------------------------------------------------------------
(* Safety                                                                  *)

\* At no time do two tasks poll for one config, not even while an edited
\* config's task is replaced (PollerSupervisor._cancel awaits the old one).
OneTaskPerConfig ==
    \A t, u \in Tasks : Live(t) /\ Live(u) /\ cfg[t] = cfg[u] => t = u

\* Every task that is alive is in _running under its config, or is the one
\* _cancel awaits: nothing polls that the supervisor cannot cancel.
EveryTaskOwned ==
    \A t \in Tasks : Live(t) => running[cfg[t]] = t \/ waiting = t

\* A pass that reaches its end has done what it set out to: a task for every
\* config enabled in its snapshot, and no task alive for another config or
\* from before the edit the snapshot shows, whatever ended during its awaits.
PassConverges ==
    sup = "spawn" /\ waiting = NoTask /\ todo = {} =>
        /\ \A c \in Configs : desired[c] # 0 => Stays(c)
        /\ \A t \in Tasks : Live(t) => desired[cfg[t]] # 0 /\ seen[cfg[t]] = desired[cfg[t]]

\* max_attempts bounds the recorded attempts of a config, across edits,
\* cancellations, deletion and reuse of its id, and restarts.
AttemptsWithinCap ==
    \A c \in Configs : Cap[c] # NoCap => made[c] <= Cap[c]

StartsCall(t) == call[t] # "flying" /\ call'[t] = "flying"

\* Once a worker has turned a config off (success, auth error, config error,
\* attempt cap) no launch is started for it before its user enables it again,
\* whatever edits, passes and restarts come between.
StoppedStaysStopped ==
    [][\A t \in Tasks : StartsCall(t) => "verdict" \notin since[cfg'[t]]]_vars

\* No launch is started for a config with a recorded success: the commit that
\* records it and the one that turns the config off are apart, and only a crash
\* comes between them, neither a cancellation nor an orderly stop.
RecordedSuccessStops ==
    [][\A t \in Tasks : StartsCall(t) /\ ~crashed => "won" \notin since[cfg'[t]]]_vars

\* No launch is started for a config once OCI has made its instance.
InstanceStops ==
    [][\A t \in Tasks : StartsCall(t) => "instance" \notin since[cfg'[t]]]_vars

\* When a worker has turned a config off and its task is over, the channels
\* have been told.
VerdictIsTold ==
    \A c \in Configs :
        /\ row[c] # "absent" /\ "verdict" \in since[c]
        /\ \A t \in Tasks : Live(t) => cfg[t] # c
        => "told" \in since[c]

\* The polls keep to the slots as SlotLimits describes them: a config is where
\* the task that is furthest into its slots is.
SlotPhase == [c \in Configs |->
    CASE \E t \in Tasks : cfg[t] = c /\ HoldsCred(t)       -> "in"
      [] \E t \in Tasks : cfg[t] = c /\ pc[t] = "cred"     -> "cred"
      [] \E t \in Tasks : cfg[t] = c /\ pc[t] = "global"   -> "global"
      [] OTHER                                             -> "out"]

Slots == INSTANCE SlotLimits WITH phase <- SlotPhase

KeepsToSlots == Slots!Spec

-----------------------------------------------------------------------------
(* The inductive invariants behind the theorems of PollerProofs            *)

\* A task that is not forgotten polls for a config; only in the call phase has
\* it a call; it counts its tries only while it has the slots, and backs off
\* only while some are left.
TaskOK == \A t \in Tasks :
    /\ pc[t] # "none" => cfg[t] \in Configs
    /\ call[t] # "none" => pc[t] = "call"
    /\ pc[t] \in {"none", "new", "global", "cred", "sleep", "done", "failed"} => tries[t] = 0
    /\ pc[t] = "backoff" => tries[t] < MaxTries

\* _running holds tasks of the config they are filed under.
RunningOK == \A c \in Configs :
    Stays(c) => pc[running[c]] # "none" /\ cfg[running[c]] = c

\* While _cancel awaits a task, its config has no other.
WaitingOK == waiting # NoTask => pc[waiting] # "none" /\ running[cfg[waiting]] = NoTask

\* The event loop runs one coroutine at a time; CancelledError reaches a task
\* at an await, never between two commits.
LoopOK == /\ SupBusy => \A t \in Tasks : ~MidSegment(t)
          /\ \A t \in cancelled : Live(t) /\ ~MidSegment(t)

TodoOK == sup = "cancel" => \A c \in todo : Stays(c)

ProcOK == proc # "up" => restarts < MaxRestarts

\* Every piece of the polling engine is where it belongs, at every step.
Consistent == /\ TypeOK /\ TaskOK /\ RunningOK /\ WaitingOK /\ LoopOK /\ TodoOK /\ ProcOK
              /\ EveryTaskOwned

\* A config a worker turned off is disabled, and no task of it is on its way
\* to a launch.
Stopped == \A c \in Configs : "verdict" \in since[c] =>
    /\ row[c] # "on"
    /\ \A t \in Tasks : cfg[t] = c =>
           pc[t] \notin {"global", "cred", "call", "backoff", "disable"}

\* Unless the process has crashed: a config with a recorded success is disabled,
\* or about to be, and no task of it is on its way to a launch.
Won == ~crashed => \A c \in Configs : "won" \in since[c] =>
    /\ row[c] = "on" => \E t \in Tasks : cfg[t] = c /\ pc[t] = "disable"
    /\ \A t \in Tasks : cfg[t] = c => pc[t] \notin {"global", "cred", "call", "backoff"}

\* A task on its way to a launch has an attempt left, and so has its config.
CapKept == \A c \in Configs : Cap[c] # NoCap =>
    /\ made[c] <= Cap[c]
    /\ \A t \in Tasks : cfg[t] = c /\ pc[t] \in {"global", "cred", "call", "backoff"} =>
           made[c] < Cap[c]

-----------------------------------------------------------------------------
(* Liveness                                                                *)

\* A config that stays enabled is launched again and again.
EnabledGetsPolled ==
    \A c \in Configs \ Failing :
        <>[](row[c] = "on" /\ proc = "up") =>
            []<>(\E t \in Tasks : cfg[t] = c /\ pc[t] = "call")

\* A config that stays disabled or deleted ends up with no task and no call.
DisabledStops ==
    \A c \in Configs :
        <>[](row[c] # "on") =>
            <>[](orphans[c] = 0 /\ \A t \in Tasks : cfg[t] = c => ~Live(t))

\* A config that stays enabled ends up polled by a task spawned after its last
\* edit.
EditsTakeEffect ==
    \A c \in Configs \ Failing :
        <>[](row[c] = "on" /\ proc = "up") =>
            <>[](Stays(c) /\ Live(running[c]) /\ seen[c] = stamp[c])

\* A process told to stop does.
ShutdownCompletes == proc = "stopping" ~> proc = "down"

=============================================================================

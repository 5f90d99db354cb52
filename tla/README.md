# Verification of the OCI Ampere A1 provisioner

TLA+ models of this repository: the poller that launches OCI instances again and
again until one is made, with what it shares with the API, the OCI threads and
the database; and the web console over the accounts, configs, credentials,
channels and logs it shows and edits, together with the handlers that answer it.
TLC checks small instances; TLAPS proves every safety property that holds, and the
refinements, for every instance. Paths below are relative to `apps/server/src/app/`, those ending in
`.ts` and `.tsx` to `apps/web/src/`, unless they say otherwise.

## 1. The system

| Component | State | Operations | Talks to |
|---|---|---|---|
| Poller supervisor (`workers/poller.py`, `main.py`) | `_running`: config id -> task and the `updated_at` it was spawned from | every 10 s a pass: drop ended tasks, cancel those not enabled, spawn missing ones, restart edited ones; shutdown | reads `InstanceConfig`; creates, cancels and awaits config tasks |
| Config task (`workers/config_task.py`) | where its coroutine awaits; the tries of one launch | poll: read config, check the cap, take the slots, launch in a thread, retry a 429, record an `Attempt`, disable and notify, or sleep | database, slots, OCI threads, notifier |
| OCI slots (`workers/concurrency.py`) | a global semaphore and one per credential | acquire global, then credential; release in reverse | the config tasks |
| Config API (`api/configs.py`) | `InstanceConfig` rows | create, update, delete, toggle, in threads of the pool | the poller, through the rows alone |
| Credential and channel API | rows with encrypted secrets | CRUD with masked echoes, verify, test | config task reads them at every poll |
| Accounts (`api/users.py`, `api/auth.py`, `api/deps.py`) | `User` rows, session cookies | register, approve, reject, disable (with the user's configs), enable, login | configs |
| Login guard (`api/ratelimit.py`) | failures and block time per IP | check, failure, success | login |
| Notifier (`services/notifier/`) | none | fan out to channels, three tries each, failures isolated | awaited by the config task inside its slots |
| Log pipeline (`logging_config.py`, `log_bus.py`, `api/logs.py`, `workers/log_pruner.py`) | `LogEntry` rows, bounded queues of subscribers | write, publish, stream, page, prune | every component logs; publishing marshals onto the loop |
| Database sessions (`db/session.py`) | connection pool | checkout, return | everything |
| Key migration (`alembic/versions/b2c3d4e5f6a7`) | key files, `private_key_enc` | encrypt, update, unlink, commit | run once at deployment |
| Login, signup and user pages (`pages/login`, `pages/users`, `features/auth-*`, `features/user-approve`) | mode of the page, cached list, open dialogs | sign up, log in and out, approve, reject, disable, enable | accounts |
| Log page (`pages/logs`, `widgets/log-stream`, `features/log-filter`) | rows, filter, pause, its stream and history requests | tail, pause, filter, delete | log pipeline |
| Configs page and dashboard (`pages/configs`, `pages/dashboard`, `features/config-toggle`) | the cached list of configs, mutations under way | optimistic toggle, forms, refetches | config API |
| Forms (`features/config-create`, `features/credential-verify`, `features/channel-test`, their pages) | what is typed and what it was prefilled from | create, edit, delete | config, credential and channel API |

**Concurrency.** Supervisor and config tasks are coroutines on one event loop;
they interleave only where they await. Most API handlers run in threads, OCI calls
in other threads that a cancellation does not stop. The only shared state is the
database. The process may be stopped, crash, and is started again by docker. In
the console, requests are answered in any order or not at all, and a list, a form
or a dialog shows what was read some time ago.

**What is hard here**: awaits inside a reconcile pass; rows read before an await
and used after it; cancellation at every await of a task that holds slots or has
a call in flight; two commits that belong together; a shutdown that is itself a
cancellation; what a page shows and sends when the row behind it has changed, or is
another row under the same id (SQLite gives the id of a deleted last row out
again); handlers that read, then commit, in threads. `PROJECT.json` lists each of these under `hazards` with its line
and the properties that would catch it.

**What makes each component correct**: the supervisor has exactly the tasks the
rows ask for, and gets there after every edit; a task stops for good when its
config is turned off or its instance made, and never exceeds its cap; slots are
never lost, doubled or hoarded; accounts keep an administrator and nobody skips
approval; log readers neither block writers nor miss what they were promised;
no secret is lost by an update or a migration.

## 2. The modules

| Module | What it is |
|---|---|
| `Poller` | Supervisor, config tasks, config API, OCI threads, stop, crash and restart, composed as they are in the code: through the event loop and the rows |
| `MCPoller` | its instances for TLC |
| `PollerProofs` | theorems about `Poller` |
| `SlotLimits` | abstract specification: what `concurrency.py` promises |
| `SlotLimitsProofs` | theorem about `SlotLimits` |
| `OciSlots` | detailed specification: FIFO `asyncio.Semaphore`s under cancellation; implements `SlotLimits` |
| `MCOciSlots` | its instances for TLC |
| `OciSlotsProofs` | theorems about `OciSlots` |
| `Accounts`, `MCAccounts` | user rows, cookies, the login, signup and user pages and their handlers |
| `AccountsProofs` | theorems about `Accounts` |
| `LiveLog`, `MCLiveLog` | a log line from the logger through table and bus to the rows of the log page |
| `LiveLogProofs` | theorems about `LiveLog` |
| `Console`, `MCConsole` | the cached list of configs under toggles, writes and refetches |
| `ConsoleProofs` | theorems about `Console` |
| `EditForms`, `MCEditForms` | the create, edit and delete forms over channels, credentials and configs, and their handlers |
| `EditFormsProofs` | theorems about `EditForms` |
| `SeqLemmas` | lemmas about least numbers and queues, used by `OciSlotsProofs` and `LiveLogProofs` |

`Poller` with `SlotLimits`, and each of the four console modules, is checked on its
own: they meet in the rows. `Accounts` keeps of a config whether it is on, `Console`
the list of them, `EditForms` what its form holds, `Poller` what a task needs of it.

### Poller

*Time slices.* A step of the model is what the code does between two awaits. Where
such a segment commits twice (record, then disable, then read the channels) each
commit is a step: `MidSegment` and `SupBusy` keep every other coroutine out
(`LoopFree`), while API threads, OCI threads and a crash may come between.

*Tasks.* `pc[t]` names the await: `new` (not run yet), `global` and `cred` (waiting
for a slot), `call` (in `to_thread`), `backoff` (tenacity's sleep, slots held),
`disable` and `announce` (mid-segment), `notify` (in `fan_out`), `sleep`, `done`,
`failed` (an exception nobody caught). `Poll` is the top of `poll_once`, `Record`
its `except` branches and success path up to the first commit, `Disable` is
`_disable_config`, `Announce` reads the channels, `Cancelled` the
`CancelledError`. A call whose task is gone is in `orphans`.

*Supervisor.* `Reconcile` reads the snapshot (`desired`) and drops ended tasks,
`CancelLoop` and `SpawnLoop` are the two loops, `CancelTask` is `_cancel` up to its
await and `CancelDone` what follows it; `waiting` is the awaited task. `seen[c]` is
the `updated_at` in `_running`. Both loops visit configs in any order.

*Rows.* `row[c]` is absent, off or on; `stamp[c]` stands for `updated_at`, a number
that grows with every write (the code's timestamps have microseconds; two writes
at the same one are not modelled). `made[c]` counts `Attempt` rows, only for
configs with a cap: nothing else reads them.

*History.* `since[c]` collects what happened since the user last enabled c
(`instance`: OCI made one, `won`: a success was recorded, `verdict`: a worker turned
c off, `told`: its channels were tried); `crashed` says a crash has happened. No
action reads them.

*Left to chance*: OCI's reply (`Replies`), the end of calls and notifications, and
which waiter gets a free slot (`OciSlots` has the queues). *Assumed*: a config's
cap and credential do not change in one behaviour; a handler of the API reads and
commits in one step (each handler has one commit, and no handler but toggle uses
what it read of the columns modelled); configs in `Failing` are those whose poll
raises outside its `try` (passphrase, database), the others never do; a call fails
only without having made an instance. A deleted id may be used again, as SQLite does.

### OciSlots and SlotLimits

`SlotLimits` says what a reader of `concurrency.py` may rely on: global slot, then
account slot, both within their limits. `OciSlots` is the implementation:
counters, FIFO queues of futures, a releaser that hands the slot to the first
waiter that is not done, a waiter that runs later, and a cancellation at any point
between. The `asyncio` part is external code, modelled from the semaphore of
Python 3.12. `pc` is the refinement mapping, so `ImplementsSlotLimits` is
`SlotLimits!Spec` with `phase <- pc`; `Poller` uses the same specification with
`phase <- SlotPhase` (`KeepsToSlots`).

### Accounts

`users[i]` is the row with id i, `cfg[i]` the one config such a user may have,
`cookie[b]` the id and, as history, the name that logged in with it, `list[b]` the
user list a browser shows, `dialog[b]` its rejection dialog. The auth handlers are
coroutines without an await: `Register` (with the bootstrap rule and the page's
reaction) and `Login` are one step. The handlers of `api/users.py` and the toggle
run in threads: `Read` is dependencies and checks, `Commit` the write by primary
key with the reply, so that two requests interleave. `Commits` says when SQLite
and SQLAlchemy let it through (an update of a row that is gone fails, a delete of
a row a config refers to fails).

*History*: `lostRace` (a reject deleted an account approved after it had read it),
`revived` (configs turned on while their owner was inactive), `approved` of a row.

*Left out*: passwords, rate limits, the 30 s cache of `/auth/me` (`session.ts`), so
a page notices a lost role at once; that only shortens what an admin can still
click, the server checks every request. One request at a time per browser.

*Met on the way*: the signup form shown for a first account has no `onPending`
(`LoginPage.tsx:49`), so who loses the race for it sees nothing happen; a stale
list approves by id whoever has the id now; and disable then enable of a pending
account, which the endpoints allow, skips the approval, but the buttons never
send the two (`ApprovedBeforeActive`).

### LiveLog

`Emit` is the DB handler, `Deliver` the bus on the event loop; between the two
anything happens. `sub[s]` is a stream of the page with its server queue, `load[k]`
a history request, `del` the deletion. A history that has been read is the `Newest`
matching lines in `Ascending` order: the query orders them the other way and the page
turns them round. `Close`, `Open` and `Reopen` are the effect of
`useLogStream` and its cleanup; `Arrive` is `clear` then `prepend`. `whole` and
`clean` are history: whether anything has happened since the history was read
that may leave a hole, so that `TailIsWhole` says exactly under which condition
page and log agree: history read while the stream was subscribed, nothing
received in between, no interruption, no full queue.

*What that condition excludes, and the code does*: lines that arrive between the
read of the history and its reply are wiped by `clear`; lines logged during a
pause never come back on resume; the replies of two filters may cross, and the
reload after a deletion uses the filter of its confirmation; a line may be on the
page twice, by history and by the stream.

*Two ways to read a filter*: `Admitted` is the query of `list_logs` for levels, config
and logger, `Streamed` is `_record_matches`. Levels (the console sends them in capitals) and config are read alike. The
logger is not: the query is `LIKE 'prefix%'` (`api/logs.py:107`), which in SQLite has no
regard for case and takes `%` and `_` as wildcards, the stream's is `startswith`
(`api/logs.py:45`). A kind of line therefore says which prefixes its logger's name
starts with and which ones LIKE finds it by; the former are among the latter
(`LiveLogAssumption`). And the stream ignores search, since and until (`Listed` adds the
search). `api/logs.py:177` speaks of the same filter semantics, but with
the filter `App` the page lists the lines of `app.*`, and its stream never brings
one. So `TailIsWhole` speaks of the lines both let through (`Followed`); of `Listed`
alone it is false, the lines that only LIKE finds come with a later history or never.
`RowsOfTheFilter` has the wider reading, since the rows come by either way.

*Left out*: the server's side of a stream the page has closed; owners (the page is an
admin's; for others the stream keeps the config ids its user had when it was opened,
`api/logs.py:182`, the history reads them anew); cursors (the page sends none),
scrolling and virtual rows.

### Console

`list` is the cached list with the time it was read, `fetch` its one fetch,
`toggle[k]` a mutation with its snapshot, `write` a form or deletion. The query
library is external: `Invalidated` cancels and starts again, except during the first
load, which it joins; refetches join. `clock` numbers the writes, `due` is the
latest one the tab has had the answer to. `OwnWritesShown` is about rest: no toggle
pending, no fetch under way, the last one not failed.

*Met on the way*: a write answered during the first load is not refetched; a write
whose reply is lost is not either, while a toggle is; the toggle flips what the row
holds, not what its user saw (`api/configs.py:167`); leaving and opening the page
frees the button while its toggle is still pending. That a page comes to rest is not
claimed: the dashboard refetches every five seconds for ever.

### EditForms

`form[f]` is a form or dialog of any tab: the row it was opened on (`was`), what it
holds (`body`), its request, and what its handler has read (`found`). Filling in
fields is local to the browser and folded into `Submit...`, whose choices are what
each field offers. Channels and configs are saved by threads, `Find...` then `Save...`;
the credential update is a coroutine and one step; deletions have one commit and
are one step. A channel's config is a record whose fields are those of one type: `field`
says of which, `secret` is the secret among them, and `type` is the column. `Merged` is
`_merge_kept_secrets`, with its test that the stored config has the field, and `Rewritten`
what the commit leaves: the config whole, in the shape of the form's type, and the
type only if it differs from the one read. `Updated` is SQLAlchemy's unit of work: only
columns and links that differ from what was read are written. The links are read
when the new ones are set (`LoadLinks`), after the autoflush has written the columns
that differ; if there are any, the database is locked from there to the commit,
and reading the links is part of it. A credential's fingerprint stands for the masked
OCIDs too, its key for key and passphrase, `image` for image, subnet and availability
domain. Of the four channel types there are discord, with a required secret, and ntfy,
with an optional one. All rows are of one owner; names are left out.

*Assumed* (`RightPair`): users pair keys and fingerprints rightly, so that a wrong
pair is the software's doing.

*History*: `saved[i]` is what the last save of config i asked for; `mixed` names the
rows something went wrong with, and every property excepts them. It is set only by

- a form saved, with no secret typed, over a channel of another type that was given its
  channel's id: the masked value is stored as the secret (`api/channels.py:148-153`,
  against the comment at lines 54-56);
- a channel save, with no secret typed, that overlaps another write of the row:
  `config_enc` is written whole from what was read;
- a channel save, with or without a secret typed, that has read its row when the
  channel is deleted and its id given to one of another type: the config is of the
  form's type, the column `type` stays as it is (`api/channels.py:154-157`). A discord
  channel is left without its `webhook_url`, and `mask_config`, which goes by the
  type, masks no secret of another type's config;
- a key uploaded for the fingerprint shown, after that was replaced;
- a config save that overlaps another write of the config.

So the properties also say that these are the only ways. *Met on the way*: a
dialog or form acts on whoever has its id now; a config form opened before one of
its channels was deleted keeps the hidden id and cannot be saved; changing the
credential keeps the image of the old one; an emptied token or passphrase is kept,
and a typed secret that starts with `***` is dropped. A request that reaches the
server after its client has given up is not modelled.

## 3. The runs

| Run | Instance | Checks | Result |
|---|---|---|---|
| `poller_safety` | 2 configs of 1 account, c1 capped at 1 attempt, c2 uncapped, its poll may die, with a channel; 3 tasks; 2 global slots, 1 per account; 2 user operations, 1 stop or crash | one task per config, no task lost, passes converge, cap, off stays off, recorded success stops | holds (919 000 states) |
| `poller_live` | 2 configs, 1 slot, 1 user operation, replies success and 429 | types, slot discipline, every enabled config polled for ever, disabled ones stop, edits take effect | holds (85 000 states) |
| `slots` | 3 configs of one account, 1 of another, limits 2 and 1, 2 cancellations | conservation, no lost wakeup, FIFO, refinement of `SlotLimits`, every waiter served | holds (15 000 states) |
| `poller_told` | 1 config, no user, no failure | a stop by a worker is told to its channels | violated |
| `poller_instance` | 1 config, 1 edit | no launch after OCI made the instance | violated |
| `poller_shutdown` | 1 config, 1 toggle, 1 stop, with fairness | a stop ends the process | violated |
| `slots_inflight` | 2 configs, 1 slot, 1 cancellation | calls in flight within the cap | violated |
| `slots_convoy` | 3 configs, 2 accounts, no cancellation | other accounts still run | violated |
| `accounts` | 2 browsers, 3 usernames, 2 row ids, the second with a config | one admin, cookies denote their owners, approval, disabled accounts idle | holds (3 424 000 states) |
| `livelog` | 2 lines of 3 kinds, 2 filters, a page of 1, 2 rows, queues of 1, 2 history requests | rows bounded, no holes, rows of the filter, once by the stream | holds (2 695 000 states) |
| `console` | 2 configs, 2 toggles at a time, 2 writes | a page at rest shows its own writes | holds (6 064 000 states) |
| `forms` | 2 forms at a time, 3 requests; 2 channel and 2 credential ids, 1 config; 2 secrets, keys, images | secrets real and kept, keys match, references exist, saves whole | holds (817 000 states) |

*Why the bounds are enough.* Two configs are what it takes for one to hold up a pass
while the other changes; a third task exists while a restarted one ends
(`Tasks` must have one more than `Configs`: `_cancel` awaits one at a time). Two
user operations give every pair: edit twice, off and on, delete and create under
the same id, each at every point of a pass. One stop or crash gives a restart after
anything. A cap of 1 is reached, passed over by deletion, and met again after a
restart. The success, out-of-capacity and 429 replies cover a terminal, a
retried and a backed-off outcome; auth and config errors differ from success only
in the notification's wording. In `slots` three waiters of one account fill a
queue in which the one in the middle is cancelled.

In `accounts` one id beside the admin's is taken, freed and taken again by another
person, and two browsers give every pair of requests, both of the admin or one of
each; the states are not bounded otherwise. In `livelog` one
kind of line is kept out of the second filter by its level, one comes by history and
stream, and one, whose logger LIKE finds and `startswith` does not, by history alone (a
line by the stream alone, as a search leaves them, is not in the instance but in the
theorem); two requests cross, and being alike they are symmetric; the page of one line
and the view of two make both limits bite, a queue of one overflows. In
`console` one toggle rolls back over the other, on the same config after the page
was left, and a list is read between them; two writes order a worker's against the
user's. In `forms` three requests are what it takes to delete a row, give its id to
another and then save the form that was opened on the first.

*The violations* are disagreements of the code with its own documentation, quoted
under `findings`:

- A success that is recorded is not always told. The pass that sees the config
  disabled cancels the task that is still in `fan_out`.
- An edit that is saved while a launch flies makes a second instance.
- A shutdown that arrives while `_cancel` awaits a child never ends: its
  `CancelledError` is swallowed with the child's.
- A cancelled launch still flies when its slot is given to the next one.
- Polls of one account wait for each other holding global slots.

### Fairness

`FairSpec` has strong fairness for each task and for the supervisor. The loop's ready
queue and the semaphores' queues are FIFO, so a coroutine that becomes runnable
again and again runs; weak fairness is not enough because a task's step is
disabled whenever another task is mid-segment or takes the slot first. Calls
return (the SDK has timeouts), notifications end (5 s timeout, three tries), and
docker restarts the container: weak fairness. Nothing is assumed of users, stops
and crashes. The console modules state no fairness: nothing there must happen but
by the user, the network and timers that may stop. `OciSlots` derives the service of every waiter from weak fairness
alone, which backs the strong fairness of `Acquire` in `Poller`.

## 4. The proofs

Every invariant, action property and refinement that a run finds to hold has a theorem.
It holds for any values of the constants that satisfy the named assumption of its
module, and rests on no other assumption:

| Assumption | What it asks beyond the types of the constants |
|---|---|
| `PollerAssumption` | finitely many tasks; `NoTask`, `NoConfig` and `NoCap` are none of the others |
| `OciSlotsAssumption` | finitely many configs; the global semaphore is not an account's |
| `AccountsAssumption` | at least one row id |
| `LiveLogAssumption` | bounds of at least 1; a page of history fits into the view (`limit` is 50, `DEFAULT_MAX_ROWS` 2000); the filter that lets everything through is one of the filters; LIKE finds a logger by every prefix its name starts with; at least one request can be made |
| `ConsoleAssumption` | at least one config and one toggle |
| `EditFormsAssumption`, `GoneAssumption` | at least one id of each kind; the mask and the empty field are no secret, key or image; an absent row is no row |

Each of the modules has an inductive invariant (`Consistent`, in `Console` `Fresh`),
one lemma per action or kind of action that it is kept, and the theorems follow from
it. Its parts were checked with TLC as invariants before they were proved.

### Poller (`PollerProofs`, `SlotLimitsProofs`)

| Theorem | Property |
|---|---|
| `TypeCorrect` | `TypeOK` |
| `NoTaskLost` | `EveryTaskOwned` |
| `OneTask` | `OneTaskPerConfig` |
| `PassesConverge` | `PassConverges` |
| `WorkerStopIsFinal` | `StoppedStaysStopped` |
| `SuccessIsFinal` | `RecordedSuccessStops` |
| `CapHolds` | `AttemptsWithinCap` |
| `PollsKeepToSlots` | `KeepsToSlots`: refinement of `SlotLimits` |
| `LimitsHold` (`SlotLimitsProofs`) | both caps, in every behaviour of `SlotLimits` |

`Consistent`: besides the types it says that a task in `_running` is filed under its
own config (`RunningOK`), that the config of an awaited task has no other
(`WaitingOK`), that every live task is in one of the two places (`EveryTaskOwned`), and
that nobody is mid-segment while the supervisor is busy, nor is a cancelled task
(`LoopOK`). None of these is inductive alone: `EveryTaskOwned` needs `RunningOK` when a
pass drops ended tasks, `RunningOK` needs `WaitingOK` when it spawns.
`OneTaskPerConfig` follows from it. On top of it, each with `Consistent` as its
hypothesis:

- `PassOK`: while the supervisor awaits, the tasks still to be cancelled are on its
  list, and what it has dealt with is as the snapshot says. A task may die at any
  await of the pass; `_running` is written by the supervisor alone.
- `Stopped`: a config a worker turned off is disabled and its task is past its last
  launch. A launch starts either from a wait for a slot (excluded) or from a poll
  that reads the row as enabled (excluded): lemma `LaunchStart`.
- `Won`: a recorded success has its config disabled, or a task between the two
  commits; that the loop is not free then is why no poll comes between. A crash
  there breaks it, hence the hypothesis `~crashed`.
- `CapKept`: a task on its way to a launch has an attempt left. This needs
  `OneTaskPerConfig`: two tasks could both pass the check.
- `Counting`, for the refinement: a task in its launch counts its tries. `SlotLimits`
  counts configs, the guards of `Poller` count tasks: by `OneTaskPerConfig` a step
  of one task moves one config (`OneMoves`), and the configs at a slot are not more
  than the tasks there (`ConfigsOfTasks`), so a slot that is free for a task is free
  in `SlotLimits` (`SlotsFree`).

### OciSlots (`OciSlotsProofs`)

| Theorem | Property |
|---|---|
| `TypeCorrect` | `TypeOK` |
| `NoSlotLost` | `SlotsConserved` |
| `WakeupsArrive` | `NoLostWakeup` |
| `InOrder` | `FirstComeFirstServed` |
| `PromiseKept` | `ImplementsSlotLimits`: refinement of `SlotLimits` |
| `LimitsKept` | both caps, in every behaviour of `OciSlots` |

`Consistent`: who waits is in the queue of its semaphore once and in no other
(`QueuesOK`); a slot is handed to those who wait (`TasksOK`); free, held and handed
slots add up to the limit (`Balanced`); slots are handed out from the front
(`HandedFirst`); and `NoLostWakeup`. Every segment between two awaits moves one poll
and wakes at most one waiter per semaphore, so the counting is done once: lemma
`Segment` takes which semaphores a segment takes from, gives back to, queues at and
wakes, and each action only says which. `FirstComeFirstServed` needs both
`HandedFirst` and that who finds a semaphore unlocked finds nobody pending
(`Entering`). The refinement needs the counts alone.

### Accounts (`AccountsProofs`)

| Theorem | Property |
|---|---|
| `TypeCorrect` | `TypeOK` |
| `AdminAlwaysRemains` | `AdminRemains` |
| `CookiesDenoteTheirOwners` | `CookieIsItsOwner` |
| `NobodyUnapproved` | `ApprovedBeforeActive` |
| `DisabledAccountsIdle` | `DisabledOwnersIdle` |

Only the first row is made an admin, only pending rows are
rejected and a reject that has read its row was of somebody never an admin; a
disable that has been read is not of the only active admin, and as there is one
admin row, not of an admin at all. So requests past their read (`stage = "read"`)
carry facts about rows, and these are part of the inductive invariant. For cookies
it is the other way round: a cookie's row has been active, a reject needs a pending
row, and only the named race deletes it afterwards. For approval the list of a page
is in the invariant too: a row never approved is shown as disabled nowhere, so that
no enable of it is ever sent.

### LiveLog (`LiveLogProofs`)

| Theorem | Property |
|---|---|
| `TypeCorrect` | `TypeOK` |
| `FilterShown` | `RowsOfTheFilter` |
| `StreamedOnce` | `OnceByTheStream` |
| `NoHoles` | `TailIsWhole` |

`Consistent` has five parts beside the types and the properties. `StreamsOK`: at most one
stream is open or opening, it is of the page's filter, and none while the page is paused.
`ReadsOK`: a history that has been read is in order and of its filter.
`QueuesOnce`: what is in a queue is in it once, and is neither still with the bus nor
on the page by the stream. `CleanOK` says of every history under way what `TailIsWhole`
says of the page: while it is `clean`, the stream of its filter is open and every
line both let through that it does not show is older than its first one, or still on its
way. `WholeOK`
adds that while the page is `whole` that stream is open. The step that matters is
`Newest`: a listed line outside the newest `Page` ones is older than all of them
(`NewestCovers`).

### Console (`ConsoleProofs`)

| Theorem | Property |
|---|---|
| `TypeCorrect` | `TypeOK` |
| `RestIsTrue` | `OwnWritesShown` |

`Fresh`: nobody knows of a write that has not happened (`NothingAhead`), and a fetch
that has been read is not older than the answers the tab has had (`FetchFresh`). The
latter is what the cancellation of fetches in `onMutate` and the invalidations are for:
an answer that left a fetch alone would break it. A rollback to an old list needs no
invariant, because it comes with an invalidation.

### EditForms (`EditFormsProofs`)

| Theorem | Property |
|---|---|
| `TypeCorrect` | `TypeOK` |
| `SecretsReal` | `SecretIsReal` |
| `KeysMatch` | `KeyMatchesIdentity` |
| `NoDanglingReference` | `ReferencesExist` |
| `SavesWhole` | `SaveIsWhole` |
| `SecretsKept` | `UntypedSecretKept` |

`Consistent`: `FormsOK` says of every form what its fields offer while it is open and
what the schemas let through once it is sent, and that a form that creates holds no
mask; `Sound` is the four invariants on the rows. That a secret stays real needs the type
in the form, in what was read and in the row compared one by one (`ChannelSaved`): a merge
keeps a secret only of a config that has the field, and a row that is not `mixed` has it. They lean on each other only through
the forms: the handlers write what the form holds and what they found, each at its own
time, so the lemmas of the saves split on what of the row has changed since.

### What is not proved

Liveness (`EnabledGetsPolled`, `DisabledStops`, `EditsTakeEffect`,
`EveryWaiterServed`) is only model-checked: the installed provers have no rule for
fairness and ENABLED. The refinements are of safety: `SlotLimits!Spec` promises no
progress. The five violated properties have
counterexamples and no theorem. The prover does no induction over sequences; what
the queues need is proved from their positions (`SeqLemmas`), with the
well-foundedness of the naturals for the least one.

## 5. Not modelled, and the plan

Not modelled: cryptography, validation patterns, formatting, read-only queries (the
attempts table, polling status and metadata lookups), rendering, the service worker,
build and deployment scripts; the length of sleeps; `reset_semaphores` (tests only);
the branch of `poll_once` for a config without credential, which the foreign key
excludes; the parser of pasted OCI configuration and the splitting of ntfy URLs,
which are string functions.

The order of what comes next, most important first:

1. `DbPool`: polls keep a pooled connection while they wait for slots, log streams
   while they are open, and a checkout blocks the event loop. Hazards at
   `db/session.py:56` and `api/logs.py:173`. Composes with `OciSlots`.
2. `KeyMigration`: files unlinked before the transaction commits, crash and re-run.
3. `LoginGuard` and `Notifier`, small sequential machines; `classify_error` as a pure
   operator against a reference definition.
4. `ConfigLifecycle`, an abstract specification of a config's life (off, polling,
   launched, stopped) that `Poller` implements.
5. Proofs of what the violated properties keep in the cases their documentation had
   in mind (`slots_inflight` without cancellation, `poller_instance` without an edit
   during a launch), and of the slot limits in `Poller` from `PollsKeepToSlots`.

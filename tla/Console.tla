------------------------------ MODULE Console -------------------------------
(***************************************************************************)
(* Console: the list of configs one tab of the web console holds in its    *)
(* query cache, while the rows change under it.  The configs page creates, *)
(* saves, deletes and toggles configs (ConfigsPage.tsx, useToggleConfig.ts,*)
(* ConfigToggle.tsx) and the dashboard reads the same list every five      *)
(* seconds (DashboardPage.tsx); requests go through shared/http/client.ts. *)
(* Workers and other tabs write the rows too.                              *)
(*                                                                         *)
(* The query cache is the library's: one fetch at a time per query; an     *)
(* invalidation cancels the fetch under way and starts another, unless     *)
(* there is no data yet, when it joins it; other refetches always join.    *)
(***************************************************************************)
EXTENDS Naturals, FiniteSets

CONSTANTS Configs,    \* the ids of configs
          MaxWrites,  \* bound: writes to the table
          Toggles     \* bound: toggle mutations at a time

ASSUME ConsoleAssumption ==
    Configs # {} /\ MaxWrites \in Nat /\ Toggles \in Nat \ {0}

VARIABLES
    rows,    \* rows[c]: "on", "off" (InstanceConfig.enabled) or "gone"
    clock,   \* the writes so far
    list,    \* the cached list: its rows and when they were read, or NoData
    fetch,   \* the list's fetch
    toggle,  \* toggle[k]: a toggle mutation and the list it may roll back to
    write,   \* the request of a form or of the delete dialog
    due,     \* history: the tab's latest write it has had the answer to
    failed   \* history: the last fetch has failed

server == <<rows, clock>>
cache == <<list, fetch>>
vars == <<server, cache, toggle, write, due, failed>>

Ops == {"create", "save", "delete"}
Values == {"on", "off", "gone"}
AllGone == [c \in Configs |-> "gone"]
NoData == [at |-> 0, shows |-> AllGone, loaded |-> FALSE]
NoFetch == [at |-> "idle", got |-> NoData]
NoToggle == [at |-> "none", c |-> CHOOSE c \in Configs : TRUE, clicked |-> FALSE,
             time |-> 0, previous |-> NoData]
NoWrite == [at |-> "none", op |-> "create", c |-> CHOOSE c \in Configs : TRUE, time |-> 0]

List == [at : 0..MaxWrites, shows : [Configs -> Values], loaded : BOOLEAN]
Stages == {"none", "sent", "done"}

TypeOK ==
    /\ rows \in [Configs -> Values] /\ clock \in 0..MaxWrites
    /\ list \in List
    /\ fetch \in [at : {"idle", "sent", "read"}, got : List]
    /\ toggle \in [1..Toggles -> [at : Stages, c : Configs, clicked : BOOLEAN,
                                  time : 0..MaxWrites, previous : List]]
    /\ write \in [at : Stages, op : Ops, c : Configs, time : 0..MaxWrites]
    /\ due \in 0..MaxWrites /\ failed \in BOOLEAN

\* The table with its first configs, and a page that has just been opened.
Init ==
    /\ rows \in [Configs -> {"off", "gone"}] /\ clock = 0
    /\ list = NoData /\ fetch = [NoFetch EXCEPT !.at = "sent"]
    /\ toggle = [k \in 1..Toggles |-> NoToggle]
    /\ write = NoWrite
    /\ due = 0 /\ failed = FALSE

-----------------------------------------------------------------------------
(* The query cache                                                         *)

Started == [NoFetch EXCEPT !.at = "sent"]

\* Mutant: an invalidation joins the fetch under way.
Joined == IF fetch.at = "idle" THEN Started ELSE fetch

\* The fetch after an invalidation of the list.
Invalidated == IF list.loaded \/ fetch.at = "idle" THEN Started ELSE fetch

\* The window gets the focus, or the dashboard's five seconds are over.
Refetch ==
    /\ fetch.at = "idle" /\ fetch' = Started
    /\ UNCHANGED <<server, list, toggle, write, due, failed>>

\* list_configs reads the table.
ReadList ==
    /\ fetch.at = "sent"
    /\ fetch' = [at |-> "read", got |-> [at |-> clock, shows |-> rows, loaded |-> TRUE]]
    /\ UNCHANGED <<server, list, toggle, write, due, failed>>

ListArrives ==
    /\ fetch.at = "read"
    /\ list' = fetch.got
    /\ fetch' = NoFetch /\ failed' = FALSE
    /\ UNCHANGED <<server, toggle, write, due>>

\* No retry: the list stays as it was, with an error above it.
FetchFails ==
    /\ fetch.at # "idle"
    /\ fetch' = NoFetch /\ failed' = TRUE
    /\ UNCHANGED <<server, list, toggle, write, due>>

\* The page is left and opened again: its fetch is aborted, the list is stale
\* and fetched anew, and the buttons have forgotten the toggles under way.
Remount ==
    /\ fetch' = Started
    /\ toggle' = [k \in 1..Toggles |-> [toggle[k] EXCEPT !.clicked = FALSE]]
    /\ UNCHANGED <<server, list, write, due, failed>>

-----------------------------------------------------------------------------
(* Toggling a config                                                       *)

Flipped(v) == CASE v = "on" -> "off" [] v = "off" -> "on" [] OTHER -> v

FreeToggle(k) == toggle[k].at = "none" /\ \A j \in 1..k - 1 : toggle[j].at # "none"

\* onMutate: the fetch under way is cancelled and the list shows the config
\* flipped.  The button is disabled while its own mutation is pending.
Click(c, k) ==
    /\ list.loaded /\ list.shows[c] # "gone"
    /\ ~\E j \in 1..Toggles : toggle[j].clicked /\ toggle[j].c = c
    /\ FreeToggle(k)
    /\ toggle' = [toggle EXCEPT ![k] = [at |-> "sent", c |-> c, clicked |-> TRUE,
                                        time |-> 0, previous |-> list]]
    /\ list' = [list EXCEPT !.shows[c] = Flipped(@)]
    /\ fetch' = NoFetch
    /\ UNCHANGED <<server, write, due, failed>>

\* toggle_config: whatever the row holds is flipped; a row gone is a 404.
ToggleConfig(k) ==
    /\ toggle[k].at = "sent" /\ rows[toggle[k].c] # "gone" /\ clock < MaxWrites
    /\ clock' = clock + 1
    /\ rows' = [rows EXCEPT ![toggle[k].c] = Flipped(@)]
    /\ toggle' = [toggle EXCEPT ![k].at = "done", ![k].time = clock + 1]
    /\ UNCHANGED <<cache, write, due, failed>>

\* Mutant: without a snapshot the list is put back as one without rows.
RolledBackToNothing(k) == [toggle[k].previous EXCEPT !.shows = [c \in {} |-> "gone"]]

\* onError: the snapshot is put back, then onSettled.
RolledBack(k) == toggle[k].previous

Later(a, b) == IF a > b THEN a ELSE b

\* onSettled: the list is invalidated, whether the mutation succeeded, was
\* refused or its reply was lost.
ToggleSettles(k) ==
    /\ toggle[k].at # "none"
    /\ \/ toggle[k].at = "done" /\ list' = list
       \/ list' = RolledBack(k)
    /\ fetch' = Started
    /\ due' = Later(due, toggle[k].time)
    /\ toggle' = [toggle EXCEPT ![k] = NoToggle]
    /\ UNCHANGED <<server, write, failed>>

-----------------------------------------------------------------------------
(* Creating, saving and deleting                                           *)

\* A form is submitted or the deletion confirmed; the buttons are disabled
\* until the answer.  Edit form and dialog open on a row of the list.
Submit(op, c) ==
    /\ write.at = "none"
    /\ op # "create" => list.loaded /\ list.shows[c] # "gone"
    /\ write' = [NoWrite EXCEPT !.at = "sent", !.op = op, !.c = c]
    /\ UNCHANGED <<server, cache, toggle, due, failed>>

\* create_config, update_config and delete_config: a new config starts enabled,
\* a save leaves enabled alone; a row gone is a 404.
HandleWrite ==
    LET c == write.c IN
    /\ write.at = "sent" /\ clock < MaxWrites
    /\ (write.op = "create") = (rows[c] = "gone")
    /\ clock' = clock + 1
    /\ rows' = CASE write.op = "create" -> [rows EXCEPT ![c] = "on"]
                 [] write.op = "save"   -> rows
                 [] write.op = "delete" -> [rows EXCEPT ![c] = "gone"]
    /\ write' = [write EXCEPT !.at = "done", !.time = clock + 1]
    /\ UNCHANGED <<cache, toggle, due, failed>>

\* onCreated, onSaved, onConfirmDelete: form or dialog closes and the list is
\* invalidated.
WriteSucceeds ==
    /\ write.at = "done"
    /\ fetch' = Invalidated
    /\ due' = IF list.loaded THEN Later(due, write.time) ELSE due
    /\ write' = NoWrite
    /\ UNCHANGED <<server, list, toggle, failed>>

\* Refused, or the reply lost: an error is shown and nothing is fetched.
WriteFails ==
    /\ write.at # "none"
    /\ write' = NoWrite
    /\ UNCHANGED <<server, cache, toggle, due, failed>>

\* A worker turns its config off, another tab writes.
Elsewhere(c, v) ==
    /\ rows[c] # v /\ clock < MaxWrites
    /\ clock' = clock + 1
    /\ rows' = [rows EXCEPT ![c] = v]
    /\ UNCHANGED <<cache, toggle, write, due, failed>>

-----------------------------------------------------------------------------
Next ==
    \/ Refetch \/ ReadList \/ ListArrives \/ FetchFails \/ Remount
    \/ \E k \in 1..Toggles : \/ ToggleConfig(k) \/ ToggleSettles(k)
                             \/ \E c \in Configs : Click(c, k)
    \/ HandleWrite \/ WriteSucceeds \/ WriteFails
    \/ \E op \in Ops, c \in Configs : Submit(op, c)
    \/ \E c \in Configs, v \in Values : Elsewhere(c, v)

Spec == Init /\ [][Next]_vars

-----------------------------------------------------------------------------
(* Properties                                                              *)

AtRest ==
    /\ fetch.at = "idle" /\ list.loaded /\ ~failed
    /\ \A k \in 1..Toggles : toggle[k].at = "none"

\* A page at rest shows its own writes: when no toggle is pending and no fetch
\* under way, and the last one did not fail, the list was read after every
\* write the tab has had an answer to and after every toggle, even one whose
\* answer was lost, and nothing optimistic is left in it.  A list read while
\* another toggle was pending, or rolled back over one, does not stay.  Writes
\* answered before the first list has arrived are not counted: their
\* invalidation joins the fetch that may have read the table before them.
OwnWritesShown ==
    AtRest => list.at >= due /\ (list.at = clock => list.shows = rows)
=============================================================================

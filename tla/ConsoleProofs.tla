---------------------------- MODULE ConsoleProofs ----------------------------
(* Theorems of Console, for any configs, any number of writes and any number *)
(* of toggles at a time.                                                     *)
EXTENDS Console, TLAPS

USE ConsoleAssumption
USE DEF server, cache

-----------------------------------------------------------------------------
(* Types                                                                   *)

Toggle == [at : Stages, c : Configs, clicked : BOOLEAN, time : 0..MaxWrites, previous : List]
Fetch  == [at : {"idle", "sent", "read"}, got : List]
Write  == [at : Stages, op : Ops, c : Configs, time : 0..MaxWrites]

LEMMA StartTyped ==
    NoData \in List /\ NoFetch \in Fetch /\ Started \in Fetch /\ NoToggle \in Toggle
    /\ NoWrite \in Write
<1>1. AllGone \in [Configs -> Values]
      BY DEF AllGone, Values
<1>2. NoData \in List
      BY <1>1 DEF NoData, List
<1>3. (CHOOSE d \in Configs : TRUE) \in Configs
      OBVIOUS
<1> QED BY <1>2, <1>3 DEF NoFetch, Started, NoToggle, NoWrite, Fetch, Toggle, Write, Stages, Ops

LEMMA InitTyped == Init => TypeOK
<1> SUFFICES ASSUME Init PROVE TypeOK
    OBVIOUS
<1>1. list \in List /\ fetch \in Fetch /\ write \in Write
      BY StartTyped DEF Init, Started
<1>2. toggle \in [1..Toggles -> Toggle]
      BY StartTyped DEF Init
<1>3. rows \in [Configs -> Values]
      BY DEF Init, Values
<1>4. clock \in 0..MaxWrites /\ due \in 0..MaxWrites
  <2>1. clock = 0 /\ due = 0
        BY DEF Init
  <2> QED BY <2>1
<1>5. failed \in BOOLEAN
      BY DEF Init
<1> QED BY <1>1, <1>2, <1>3, <1>4, <1>5 DEF TypeOK, Fetch, Toggle, Write

\* The config shown flipped is still a list of this kind.
LEMMA FlippedTyped ==
    /\ \A v \in Values : Flipped(v) \in Values
    /\ \A l \in List, c \in Configs : [l EXCEPT !.shows[c] = Flipped(@)] \in List
<1>1. \A v \in Values : Flipped(v) \in Values
      BY DEF Flipped, Values
<1> QED BY <1>1 DEF List

LEMMA NextTyped == TypeOK /\ [Next]_vars => TypeOK'
<1> SUFFICES ASSUME TypeOK, [Next]_vars PROVE TypeOK'
    OBVIOUS
<1>1. /\ rows \in [Configs -> Values] /\ clock \in 0..MaxWrites /\ list \in List
      /\ fetch \in Fetch /\ toggle \in [1..Toggles -> Toggle] /\ write \in Write
      /\ due \in 0..MaxWrites /\ failed \in BOOLEAN
      BY DEF TypeOK, Fetch, Toggle, Write
<1> DEFINE Typed == /\ rows' \in [Configs -> Values] /\ clock' \in 0..MaxWrites /\ list' \in List
                    /\ fetch' \in Fetch /\ toggle' \in [1..Toggles -> Toggle] /\ write' \in Write
                    /\ due' \in 0..MaxWrites /\ failed' \in BOOLEAN
<1> SUFFICES Typed
    BY DEF TypeOK, Fetch, Toggle, Write
<1>2. CASE Refetch \/ ListArrives \/ FetchFails
      BY <1>1, <1>2, StartTyped DEF Refetch, ListArrives, FetchFails, Fetch
<1>3. CASE ReadList
      BY <1>1, <1>3 DEF ReadList, Fetch, List
<1>4. CASE Remount
      BY <1>1, <1>4, StartTyped DEF Remount, Toggle
<1>5. ASSUME NEW k \in 1..Toggles, ToggleConfig(k) PROVE Typed
  <2> DEFINE new == [toggle[k] EXCEPT !.at = "done", !.time = clock + 1]
  <2>0. clock' \in 0..MaxWrites /\ clock + 1 \in 0..MaxWrites
        BY <1>1, <1>5 DEF ToggleConfig
  <2>3. new \in Toggle
        BY <1>1, <2>0 DEF Toggle, Stages
  <2>4. toggle' = [toggle EXCEPT ![k] = new]
        BY <1>1, <1>5 DEF ToggleConfig, Toggle
  <2>1. toggle' \in [1..Toggles -> Toggle]
    <3> HIDE DEF new
    <3> QED BY <1>1, <2>3, <2>4
  <2>2. rows' \in [Configs -> Values]
        BY <1>1, <1>5, FlippedTyped DEF ToggleConfig, Toggle
  <2> QED BY <1>1, <1>5, <2>0, <2>1, <2>2 DEF ToggleConfig
<1>6. ASSUME NEW k \in 1..Toggles, ToggleSettles(k) PROVE Typed
  <2>1. toggle[k] \in Toggle
        BY <1>1
  <2>2. list' \in List /\ due' \in 0..MaxWrites
        BY <1>1, <1>6, <2>1 DEF ToggleSettles, RolledBack, Later, Toggle
  <2> QED BY <1>1, <1>6, <2>2, StartTyped DEF ToggleSettles
<1>7. ASSUME NEW k \in 1..Toggles, NEW c \in Configs, Click(c, k) PROVE Typed
  <2> DEFINE new == [at |-> "sent", c |-> c, clicked |-> TRUE, time |-> 0, previous |-> list]
  <2>1. new \in Toggle
        BY <1>1 DEF Toggle, Stages
  <2>2. toggle' = [toggle EXCEPT ![k] = new]
        BY <1>7 DEF Click
  <2>3. toggle' \in [1..Toggles -> Toggle]
    <3> HIDE DEF new
    <3> QED BY <1>1, <2>1, <2>2
  <2>4. list' \in List
        BY <1>1, <1>7, FlippedTyped DEF Click
  <2> QED BY <1>1, <1>7, <2>3, <2>4, StartTyped DEF Click
<1>8. CASE HandleWrite
  <2>1. write.c \in Configs
        BY <1>1 DEF Write
  <2>2. rows' \in [Configs -> Values]
        BY <1>1, <1>8, <2>1 DEF HandleWrite, Values, Write, Ops
  <2>3. clock' \in 0..MaxWrites /\ clock + 1 \in 0..MaxWrites
        BY <1>1, <1>8 DEF HandleWrite
  <2>4. write' \in Write
        BY <1>1, <1>8, <2>3 DEF HandleWrite, Write, Stages
  <2> QED BY <1>1, <1>8, <2>2, <2>3, <2>4 DEF HandleWrite
<1>9. CASE WriteSucceeds \/ WriteFails
      BY <1>1, <1>9, StartTyped DEF WriteSucceeds, WriteFails, Invalidated, Later, Write
<1>10. ASSUME NEW op \in Ops, NEW c \in Configs, Submit(op, c) PROVE Typed
      BY <1>1, <1>10, StartTyped DEF Submit, Write, Stages
<1>11. ASSUME NEW c \in Configs, NEW v \in Values, Elsewhere(c, v) PROVE Typed
      BY <1>1, <1>11 DEF Elsewhere
<1>12. CASE UNCHANGED vars
      BY <1>1, <1>12 DEF vars
<1> QED BY <1>2, <1>3, <1>4, <1>5, <1>6, <1>7, <1>8, <1>9, <1>10, <1>11, <1>12 DEF Next

\* Every variable keeps its type: an optimistic list is a list, and so is the
\* one a toggle rolls back to (useToggleConfig.ts).
THEOREM TypeCorrect == Spec => []TypeOK
BY InitTyped, NextTyped, PTL DEF Spec

-----------------------------------------------------------------------------
(* The list at rest                                                        *)

\* A list that was read at some time is the table of that time.
Reads(l) == l.at = clock => l.shows = rows

\* Nobody knows of a write that has not happened.
NothingAhead ==
    /\ list.at <= clock /\ fetch.got.at <= clock /\ due <= clock /\ write.time <= clock
    /\ \A k \in 1..Toggles : toggle[k].time <= clock /\ toggle[k].previous.at <= clock

\* What a fetch has read is not older than the answers the tab has had: an
\* answer cancels the fetch.
FetchFresh ==
    fetch.at = "read" => fetch.got.at >= due /\ Reads(fetch.got)

\* Nothing a page relies on is older than the last answer the tab has had.
Fresh == TypeOK /\ NothingAhead /\ FetchFresh /\ OwnWritesShown

LEMMA InitFresh == Init => Fresh
<1> SUFFICES ASSUME Init PROVE Fresh
    OBVIOUS
<1>1. list = NoData /\ fetch.at = "sent" /\ fetch.got = NoData
      BY DEF Init, NoFetch
<1> QED BY <1>1, InitTyped DEF Init, Fresh, NothingAhead, FetchFresh, OwnWritesShown, AtRest,
                              NoData, NoToggle, NoWrite

LEMMA NextFresh == Fresh /\ [Next]_vars => Fresh'
<1> SUFFICES ASSUME Fresh, [Next]_vars PROVE Fresh'
    OBVIOUS
<1> USE DEF Fresh
<1>1. TypeOK'
      BY NextTyped
<1>2. /\ clock \in Nat /\ due \in Nat /\ list \in List /\ list.at \in Nat
      /\ fetch \in Fetch /\ fetch.got.at \in Nat
      /\ write \in Write /\ write.time \in Nat
      /\ toggle \in [1..Toggles -> Toggle]
      /\ \A k \in 1..Toggles : toggle[k].time \in Nat /\ toggle[k].previous.at \in Nat
      BY DEF TypeOK, Fetch, Toggle, Write, List
<1> DEFINE Good == NothingAhead' /\ FetchFresh' /\ OwnWritesShown'
<1> SUFFICES Good
    BY <1>1
<1>3. Started.at = "sent" /\ Started.got.at = 0 /\ NoFetch.at = "idle" /\ NoFetch.got.at = 0
      BY DEF Started, NoFetch, NoData
<1>4. CASE Refetch
      BY <1>2, <1>3, <1>4 DEF Refetch, NothingAhead, FetchFresh, OwnWritesShown, AtRest, Reads
<1>5. CASE ReadList
      BY <1>2, <1>5 DEF ReadList, NothingAhead, FetchFresh, OwnWritesShown, AtRest, Reads
<1>6. CASE ListArrives
      BY <1>2, <1>3, <1>6 DEF ListArrives, NothingAhead, FetchFresh, OwnWritesShown, AtRest, Reads
<1>7. CASE FetchFails
      BY <1>2, <1>3, <1>7 DEF FetchFails, NothingAhead, FetchFresh, OwnWritesShown, AtRest, Reads
<1>8. CASE Remount
  <2>1. \A k \in 1..Toggles : /\ toggle'[k].time = toggle[k].time
                              /\ toggle'[k].previous = toggle[k].previous
        BY <1>2, <1>8 DEF Remount, Toggle
  <2> QED BY <1>2, <1>3, <1>8, <2>1 DEF Remount, NothingAhead, FetchFresh, OwnWritesShown, AtRest
<1>9. ASSUME NEW k \in 1..Toggles, ToggleConfig(k) PROVE Good
  <2>1. /\ toggle'[k].time = clock + 1 /\ toggle'[k].previous = toggle[k].previous
        /\ toggle'[k].at = "done"
        /\ \A j \in 1..Toggles \ {k} : toggle'[j] = toggle[j]
        BY <1>2, <1>9 DEF ToggleConfig, Toggle
  <2>2. clock' = clock + 1 /\ UNCHANGED <<list, fetch, write, due, failed>>
        BY <1>9 DEF ToggleConfig
  <2>3. NothingAhead'
    <3>1. \A j \in 1..Toggles : toggle'[j].time <= clock' /\ toggle'[j].previous.at <= clock'
      <4> SUFFICES ASSUME NEW j \in 1..Toggles
                   PROVE  toggle'[j].time <= clock' /\ toggle'[j].previous.at <= clock'
          OBVIOUS
      <4>1. CASE j = k
            BY <1>2, <2>1, <2>2, <4>1 DEF NothingAhead
      <4>2. CASE j # k
            BY <1>2, <2>1, <2>2, <4>2 DEF NothingAhead
      <4> QED BY <4>1, <4>2
    <3> QED BY <1>2, <2>2, <3>1 DEF NothingAhead
  <2>4. FetchFresh'
        BY <1>2, <2>2 DEF FetchFresh, Reads, NothingAhead
  <2> QED BY <2>1, <2>3, <2>4 DEF OwnWritesShown, AtRest
<1>10. ASSUME NEW k \in 1..Toggles, ToggleSettles(k) PROVE Good
  <2>1. /\ fetch' = Started /\ list' \in {list, toggle[k].previous}
        /\ due' = Later(due, toggle[k].time) /\ UNCHANGED <<rows, clock, write, failed>>
        /\ toggle' = [toggle EXCEPT ![k] = NoToggle]
        BY <1>10 DEF ToggleSettles, RolledBack
  <2>2. NoToggle.time = 0 /\ NoToggle.previous.at = 0
        BY DEF NoToggle, NoData
  <2>3. NothingAhead'
        BY <1>2, <1>3, <2>1, <2>2 DEF NothingAhead, Later
  <2> QED BY <1>3, <2>1, <2>3 DEF FetchFresh, OwnWritesShown, AtRest
<1>11. ASSUME NEW k \in 1..Toggles, NEW c \in Configs, Click(c, k) PROVE Good
  <2>1. /\ fetch' = NoFetch /\ list'.at = list.at /\ UNCHANGED <<rows, clock, write, due, failed>>
        /\ toggle'[k].at = "sent" /\ toggle'[k].time = 0 /\ toggle'[k].previous = list
        /\ \A j \in 1..Toggles \ {k} : toggle'[j] = toggle[j]
        BY <1>2, <1>11 DEF Click, List
  <2>2. NothingAhead'
        BY <1>2, <1>3, <2>1 DEF NothingAhead
  <2> QED BY <1>3, <2>1, <2>2 DEF FetchFresh, OwnWritesShown, AtRest
<1>12. CASE HandleWrite
  <2>1. /\ clock' = clock + 1 /\ UNCHANGED <<list, fetch, toggle, due, failed>>
        /\ write'.time = clock + 1
        BY <1>2, <1>12 DEF HandleWrite, Write
  <2> QED BY <1>2, <2>1 DEF NothingAhead, FetchFresh, OwnWritesShown, AtRest, Reads
<1>13. CASE WriteSucceeds
  <2>1. /\ UNCHANGED <<rows, clock, list, toggle, failed>>
        /\ fetch' = Invalidated /\ write' = NoWrite
        /\ due' = IF list.loaded THEN Later(due, write.time) ELSE due
        BY <1>13 DEF WriteSucceeds
  <2>2. NothingAhead'
        BY <1>2, <1>3, <2>1 DEF NothingAhead, Later, NoWrite, Invalidated
  <2>3. fetch'.at # "idle" /\ FetchFresh'
        BY <1>2, <1>3, <2>1 DEF FetchFresh, Invalidated, Reads
  <2> QED BY <2>2, <2>3 DEF OwnWritesShown, AtRest
<1>14. ASSUME WriteFails \/ \E op \in Ops, c \in Configs : Submit(op, c) PROVE Good
  <2>1. /\ UNCHANGED <<rows, clock, list, fetch, toggle, due, failed>>
        /\ write'.time = 0
    <3>1. CASE WriteFails
          BY <3>1 DEF WriteFails, NoWrite
    <3>2. ASSUME NEW op \in Ops, NEW c \in Configs, Submit(op, c)
          PROVE  write'.time = 0 /\ UNCHANGED <<rows, clock, list, fetch, toggle, due, failed>>
          BY <3>2 DEF Submit, NoWrite
    <3> QED BY <1>14, <3>1, <3>2
  <2> QED BY <1>2, <2>1 DEF NothingAhead, FetchFresh, OwnWritesShown, AtRest, Reads
<1>15. ASSUME NEW c \in Configs, NEW v \in Values, Elsewhere(c, v) PROVE Good
  <2>1. clock' = clock + 1 /\ UNCHANGED <<list, fetch, toggle, write, due, failed>>
        BY <1>15 DEF Elsewhere
  <2> QED BY <1>2, <2>1 DEF NothingAhead, FetchFresh, OwnWritesShown, AtRest, Reads
<1>16. CASE UNCHANGED vars
      BY <1>16 DEF vars, NothingAhead, FetchFresh, OwnWritesShown, AtRest, Reads
<1> QED BY <1>1, <1>4, <1>5, <1>6, <1>7, <1>8, <1>9, <1>10, <1>11, <1>12, <1>13, <1>14,
           <1>15, <1>16 DEF Next

\* A page at rest shows what the tab has written, however its toggles, fetches
\* and saves have overlapped: rollback, invalidation and refetch (ConfigsPage.tsx).
THEOREM RestIsTrue == Spec => []OwnWritesShown
<1>1. Fresh => OwnWritesShown
      BY DEF Fresh
<1> QED BY InitFresh, NextFresh, <1>1, PTL DEF Spec
=============================================================================

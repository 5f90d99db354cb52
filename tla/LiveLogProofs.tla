---------------------------- MODULE LiveLogProofs ----------------------------
(* Theorems of LiveLog, for any lines and filters, any sizes of page, view   *)
(* and queue, and any number of lines, streams and history requests.         *)
EXTENDS LiveLog, SeqLemmas, FiniteSetTheorems, TLAPS

USE LiveLogAssumption
USE DEF server, view

-----------------------------------------------------------------------------
(* Sequences                                                               *)

LEMMA UpToSeq ==
    ASSUME NEW n \in Nat
    PROVE  UpTo(n) = {s \in Seq(1..MaxLines) : Len(s) <= n}
<1>1. ASSUME NEW s \in UpTo(n) PROVE s \in Seq(1..MaxLines) /\ Len(s) <= n
  <2>1. PICK m \in 0..n : s \in [1..m -> 1..MaxLines]
        BY DEF UpTo
  <2>2. s \in Seq(1..MaxLines)
        BY <2>1, SeqDef
  <2>3. Len(s) = m
        BY <2>1, <2>2, LenProperties
  <2> QED BY <2>1, <2>2, <2>3
<1>2. ASSUME NEW s \in Seq(1..MaxLines), Len(s) <= n PROVE s \in UpTo(n)
  <2>1. Len(s) \in 0..n /\ s \in [1..Len(s) -> 1..MaxLines]
        BY <1>2, LenProperties
  <2> QED BY <2>1 DEF UpTo
<1> QED BY <1>1, <1>2

LEMMA Appended ==
    ASSUME NEW S, NEW s \in Seq(S), NEW e \in S
    PROVE  /\ Append(s, e) \in Seq(S) /\ Len(Append(s, e)) = Len(s) + 1
           /\ \A i \in 1..Len(s) : Append(s, e)[i] = s[i]
           /\ Append(s, e)[Len(s) + 1] = e
           /\ ToSet(Append(s, e)) = ToSet(s) \cup {e}
           /\ DOMAIN s = 1..Len(s) /\ DOMAIN Append(s, e) = 1..Len(s) + 1 /\ Len(s) \in Nat
<1>1. /\ Append(s, e) \in Seq(S) /\ Len(Append(s, e)) = Len(s) + 1
      /\ \A i \in 1..Len(s) : Append(s, e)[i] = s[i]
      /\ Append(s, e)[Len(s) + 1] = e
      BY AppendProperties
<1>2. DOMAIN s = 1..Len(s) /\ DOMAIN Append(s, e) = 1..Len(s) + 1 /\ Len(s) \in Nat
      BY <1>1, LenProperties
<1>3. ToSet(Append(s, e)) = ToSet(s) \cup {e}
      BY <1>1, <1>2 DEF ToSet
<1> QED BY <1>1, <1>2, <1>3

LEMMA Tailed ==
    ASSUME NEW S, NEW s \in Seq(S), s # << >>
    PROVE  /\ Head(s) \in S /\ Head(s) = s[1]
           /\ Tail(s) \in Seq(S) /\ Len(Tail(s)) = Len(s) - 1
           /\ \A i \in 1..Len(s) - 1 : Tail(s)[i] = s[i + 1]
           /\ ToSet(s) = ToSet(Tail(s)) \cup {Head(s)}
           /\ DOMAIN s = 1..Len(s) /\ DOMAIN Tail(s) = 1..Len(s) - 1 /\ Len(s) \in Nat \ {0}
<1>1. /\ Head(s) \in S /\ Tail(s) \in Seq(S) /\ Len(Tail(s)) = Len(s) - 1
      /\ \A i \in 1..Len(Tail(s)) : Tail(s)[i] = s[i + 1]
      BY HeadTailProperties
<1>2. Len(s) \in Nat \ {0} /\ DOMAIN s = 1..Len(s) /\ DOMAIN Tail(s) = 1..Len(s) - 1
      BY <1>1, LenProperties, EmptySeq
<1>3. Head(s) = s[1]
      OBVIOUS
<1>4. ToSet(s) = ToSet(Tail(s)) \cup {Head(s)}
  <2>1. ASSUME NEW i \in 1..Len(s) PROVE s[i] \in ToSet(Tail(s)) \cup {Head(s)}
    <3>1. CASE i = 1
          BY <1>3, <3>1
    <3>2. CASE i # 1
      <4>1. i - 1 \in 1..Len(s) - 1 /\ Tail(s)[i - 1] = s[i]
            BY <1>1, <1>2, <3>2
      <4> QED BY <1>2, <4>1 DEF ToSet
    <3> QED BY <3>1, <3>2
  <2>2. ASSUME NEW i \in 1..Len(s) - 1 PROVE Tail(s)[i] \in ToSet(s)
    <3>1. i + 1 \in 1..Len(s) /\ Tail(s)[i] = s[i + 1]
          BY <1>1, <1>2
    <3> QED BY <1>2, <3>1 DEF ToSet
  <2>3. Head(s) \in ToSet(s)
        BY <1>2, <1>3 DEF ToSet
  <2> QED BY <1>2, <2>1, <2>2, <2>3 DEF ToSet
<1> QED BY <1>1, <1>2, <1>3, <1>4

\* The same for a queue of lines.
LEMMA AppendedLine ==
    ASSUME NEW s \in Seq(1..MaxLines), NEW e \in 1..MaxLines
    PROVE  /\ \A i \in 1..Len(s) : Append(s, e)[i] = s[i]
           /\ Append(s, e)[Len(s) + 1] = e
           /\ ToSet(Append(s, e)) = ToSet(s) \cup {e}
           /\ DOMAIN s = 1..Len(s) /\ DOMAIN Append(s, e) = 1..Len(s) + 1 /\ Len(s) \in Nat
<1> DEFINE S == 1..MaxLines
<1>1. s \in Seq(S) /\ e \in S
      OBVIOUS
<1> HIDE DEF S
<1> QED BY <1>1, Appended

LEMMA NoElements == ToSet(<< >>) = {}
BY DEF ToSet

-----------------------------------------------------------------------------
(* The parts of a state                                                    *)

LogOK == /\ log \in Seq(Kinds) /\ Len(log) <= MaxLines
         /\ db \subseteq Lines /\ pub \subseteq Lines

SubOK == /\ sub \in [1..Streams -> Stream]
         /\ \A s \in 1..Streams : ToSet(sub[s].queue) \subseteq Lines

RowsOK == /\ rows \in Seq(Row) /\ Len(rows) <= MaxRows /\ Shown \subseteq Lines
          /\ query \in Queries /\ paused \in BOOLEAN

LoadsOK == /\ load \in [Loads -> Load]
           /\ \A k \in Loads : ToSet(load[k].items) \subseteq Lines
           /\ last \in Queries \cup {Failure} /\ whole \in BOOLEAN

DelOK == del \in [at : {"none", "sent"}, q : Queries, cut : 0..MaxLines]

Typed == LogOK /\ SubOK /\ RowsOK /\ LoadsOK /\ DelOK

LEMMA TypesFollow == Typed => TypeOK
BY DEF Typed, TypeOK, LogOK, SubOK, RowsOK, LoadsOK, DelOK

\* At most one stream, of the page's filter, and none while it is paused.
StreamsOK ==
    \A s \in 1..Streams :
        /\ sub[s].at # "open" => sub[s].queue = << >>
        /\ sub[s].at # "free" => /\ ~paused /\ sub[s].q = query
                                 /\ \A t \in 1..Streams : sub[t].at # "free" => t = s

LEMMA LinesGrow ==
    ASSUME LogOK, NEW k \in Kinds, log' = Append(log, k)
    PROVE  /\ log' \in Seq(Kinds) /\ Len(log') = Len(log) + 1
           /\ Lines \subseteq Lines' /\ Len(log') \in Lines' /\ Len(log') \notin Lines
           /\ Lines = 1..Len(log) /\ Lines' = 1..Len(log')
           /\ \A q : \A l \in Lines : /\ Admitted(q, l)' <=> Admitted(q, l)
                                      /\ Followed(q, l)' <=> Followed(q, l)
<1>1. /\ log' \in Seq(Kinds) /\ Len(log') = Len(log) + 1 /\ Len(log) \in Nat
      /\ \A i \in 1..Len(log) : log'[i] = log[i]
      BY Appended DEF LogOK
<1>2. \A l \in Lines : log'[l] = log[l]
      BY <1>1 DEF Lines
<1>3. /\ Lines \subseteq Lines' /\ Len(log') \in Lines' /\ Len(log') \notin Lines
      /\ Lines = 1..Len(log) /\ Lines' = 1..Len(log')
      BY <1>1 DEF Lines
<1> QED BY <1>1, <1>2, <1>3 DEF Followed, Listed, Admitted, Streamed, LevelMatches

\* What startswith takes, LIKE takes: the lines a stream sends are of the filter.
LEMMA StreamedAdmitted ==
    ASSUME LogOK, NEW l \in Lines, NEW q, Streamed(q, l)
    PROVE  Admitted(q, l)
<1>1. log[l] \in Kinds
      BY LenProperties DEF LogOK, Lines
<1>2. log[l].starts \subseteq log[l].like
      BY <1>1
<1> QED BY <1>2 DEF Streamed, Admitted

-----------------------------------------------------------------------------
(* What the operators of the model do, part by part                        *)

LEMMA Starts ==
    /\ NoStream \in Stream /\ NoLoad \in Load
    /\ NoStream.at = "free" /\ NoStream.queue = << >>
    /\ NoLoad.at = "free" /\ NoLoad.items = << >> /\ NoLoad.clean = FALSE
<1>1. << >> \in UpTo(QueueMax) /\ << >> \in UpTo(Page)
  <2>1. << >> \in Seq(1..MaxLines) /\ Len(<< >>) = 0
        BY EmptySeq
  <2>2. QueueMax \in Nat /\ Page \in Nat
        OBVIOUS
  <2>3. Len(<< >>) <= QueueMax /\ Len(<< >>) <= Page
        BY <2>1, <2>2
  <2> QED BY <2>1, <2>2, <2>3, UpToSeq
<1> QED BY <1>1 DEF NoStream, NoLoad, Stream, Load

LEMMA SentLoad ==
    ASSUME NEW q \in Queries
    PROVE  /\ Sent(q) \in Load /\ Sent(q).at = "sent" /\ Sent(q).q = q
           /\ Sent(q).items = << >> /\ Sent(q).clean = FALSE
BY Starts DEF Sent, Load, NoLoad

LEMMA TaintedLoads ==
    ASSUME LoadsOK
    PROVE  /\ Tainted \in [Loads -> Load]
           /\ \A k \in Loads :
                 /\ Tainted[k].at = load[k].at /\ Tainted[k].q = load[k].q
                 /\ Tainted[k].items = load[k].items /\ Tainted[k].clean = FALSE
<1>1. \A k \in Loads : load[k] \in Load
      BY DEF LoadsOK
<1> QED BY <1>1 DEF Tainted, Load

LEMMA ClosedStreams ==
    /\ Close \in [1..Streams -> Stream]
    /\ \A s \in 1..Streams : Close[s].at = "free" /\ Close[s].queue = << >>
BY Starts DEF Close

\* The new stream takes the first free place.
LEMMA OpenedStream ==
    ASSUME NEW q \in Queries
    PROVE  \E n \in 1..Streams :
              /\ Reopen(q) \in [1..Streams -> Stream]
              /\ Reopen(q)[n].at = "opening" /\ Reopen(q)[n].q = q
              /\ \A s \in 1..Streams : Reopen(q)[s].queue = << >>
              /\ \A s \in 1..Streams : s # n => Reopen(q)[s].at = "free"
<1> DEFINE free == {s \in 1..Streams : Close[s].at = "free"}
           n == CHOOSE s \in free : \A t \in free : s <= t
           new == [NoStream EXCEPT !.at = "opening", !.q = q]
<1>1. free = 1..Streams
      BY ClosedStreams
<1>2. \E s \in free : \A t \in free : s <= t
      BY <1>1
<1>3. n \in 1..Streams
      BY <1>1, <1>2
<1>4. new \in Stream /\ new.at = "opening" /\ new.q = q /\ new.queue = << >>
      BY Starts DEF NoStream, Stream
<1>5. Reopen(q) = [Close EXCEPT ![n] = new]
      BY <1>1 DEF Reopen, Open
<1> HIDE DEF new, n
<1>6. /\ Reopen(q) \in [1..Streams -> Stream]
      /\ Reopen(q)[n] = new /\ \A s \in 1..Streams : s # n => Reopen(q)[s] = Close[s]
      BY <1>3, <1>4, <1>5, ClosedStreams
<1> QED BY <1>3, <1>4, <1>6, ClosedStreams

\* A filter's control leaves the streams alone, or opens one for the new query.
LEMMA ChangedStreams ==
    ASSUME Typed, StreamsOK, NEW q \in Queries, NEW k \in Loads, ChangeFilter(q, k)
    PROVE  /\ \/ sub' = sub /\ (q = query \/ paused) /\ whole' = whole
              \/ /\ sub' = Reopen(q) /\ ~paused /\ whole' = FALSE
                 /\ \A j \in Loads : load'[j].clean = FALSE
           /\ load' \in [Loads -> Load] /\ load'[k] = Sent(q)
           /\ \A j \in Loads : j # k => /\ load'[j].at = load[j].at /\ load'[j].q = load[j].q
                                           /\ load'[j].items = load[j].items
                                           /\ \/ load'[j].clean = load[j].clean /\ sub' = sub
                                              \/ load'[j].clean = FALSE
           /\ query' = q /\ last' = Failure /\ UNCHANGED <<log, db, pub, rows, paused, del>>
<1>1. UNCHANGED <<log, db, pub, rows, paused, del>> /\ query' = q /\ last' = Failure
      BY DEF ChangeFilter
<1>2. Sent(q) \in Load /\ load \in [Loads -> Load] /\ Tainted \in [Loads -> Load]
      BY SentLoad, TaintedLoads DEF Typed, LoadsOK
<1>3. CASE q = query \/ paused
      BY <1>1, <1>2, <1>3 DEF ChangeFilter
<1>4. CASE ~(q = query \/ paused)
  <2>1. /\ sub' = Reopen(q) /\ whole' = FALSE /\ load' = [Tainted EXCEPT ![k] = Sent(q)]
        BY <1>4 DEF ChangeFilter
  <2>2. ~paused
        BY <1>4
  <2>3. load' \in [Loads -> Load] /\ load'[k] = Sent(q)
        /\ \A j \in Loads : j # k => load'[j] = Tainted[j]
        BY <1>2, <2>1
  <2>4. \A j \in Loads : load'[j].clean = FALSE
    <3>1. load'[k].clean = FALSE
          BY <2>3, SentLoad
    <3>2. \A j \in Loads : Tainted[j].clean = FALSE
          BY TaintedLoads DEF Typed
    <3> QED BY <2>3, <3>1, <3>2
  <2> QED BY <1>1, <1>2, <2>1, <2>2, <2>3, <2>4, TaintedLoads DEF Typed
<1> QED BY <1>3, <1>4

\* A line delivered goes to the queue of every open stream that is not full.
LEMMA DeliveredStreams ==
    ASSUME Typed, NEW l \in Lines, Deliver(l)
    PROVE  /\ sub' \in [1..Streams -> Stream]
           /\ \A s \in 1..Streams :
                 /\ sub'[s].at = sub[s].at /\ sub'[s].q = sub[s].q
                 /\ sub[s].queue \in Seq(1..MaxLines)
                 /\ sub'[s].queue = IF sub[s].at = "open" /\ ~Full(s)
                                    THEN Append(sub[s].queue, l) ELSE sub[s].queue
<1>1. sub' = [s \in 1..Streams |->
                 IF sub[s].at = "open" /\ ~Full(s)
                 THEN [sub[s] EXCEPT !.queue = Append(@, l)] ELSE sub[s]]
      BY DEF Deliver
<1>2. l \in 1..MaxLines /\ Len(log) \in Nat
      BY LenProperties DEF Typed, LogOK, Lines
<1>3. ASSUME NEW s \in 1..Streams
      PROVE  /\ sub[s] \in Stream /\ sub[s].queue \in Seq(1..MaxLines)
             /\ Len(sub[s].queue) < QueueMax => Append(sub[s].queue, l) \in UpTo(QueueMax)
             /\ Len(sub[s].queue) \in Nat
  <2>1. sub[s] \in Stream
        BY DEF Typed, SubOK
  <2>2. sub[s].queue \in Seq(1..MaxLines) /\ QueueMax \in Nat
        BY <2>1, UpToSeq DEF Stream
  <2>3. /\ Append(sub[s].queue, l) \in Seq(1..MaxLines) /\ Len(sub[s].queue) \in Nat
        /\ Len(Append(sub[s].queue, l)) = Len(sub[s].queue) + 1
        BY <1>2, <2>2, Appended
  <2>4. Len(sub[s].queue) < QueueMax => Len(Append(sub[s].queue, l)) <= QueueMax
        BY <2>2, <2>3
  <2>5. Len(sub[s].queue) < QueueMax => Append(sub[s].queue, l) \in UpTo(QueueMax)
        BY <2>2, <2>3, <2>4, UpToSeq
  <2> QED BY <2>1, <2>2, <2>3, <2>5
<1>4. ASSUME NEW s \in 1..Streams
      PROVE  /\ sub'[s] \in Stream /\ sub'[s].at = sub[s].at /\ sub'[s].q = sub[s].q
             /\ sub'[s].queue = IF sub[s].at = "open" /\ ~Full(s)
                                THEN Append(sub[s].queue, l) ELSE sub[s].queue
  <2>1. CASE sub[s].at = "open" /\ ~Full(s)
    <3>1. sub'[s] = [sub[s] EXCEPT !.queue = Append(@, l)]
          BY <1>1, <2>1
    <3>2. Append(sub[s].queue, l) \in UpTo(QueueMax)
          BY <1>3, <2>1 DEF Full
    <3> QED BY <1>3, <2>1, <3>1, <3>2 DEF Stream
  <2>2. CASE ~(sub[s].at = "open" /\ ~Full(s))
        BY <1>1, <1>3, <2>2
  <2> QED BY <2>1, <2>2
<1> QED BY <1>1, <1>3, <1>4

\* The next line of a stream's queue.
LEMMA ReceivedStream ==
    ASSUME Typed, NEW s \in 1..Streams, Receive(s)
    PROVE  /\ sub' \in [1..Streams -> Stream]
           /\ \A t \in 1..Streams : t # s => sub'[t] = sub[t]
           /\ sub'[s].at = sub[s].at /\ sub'[s].q = sub[s].q
           /\ sub[s].queue \in Seq(1..MaxLines) /\ sub[s].queue # << >>
           /\ sub'[s].queue = Tail(sub[s].queue)
           /\ Head(sub[s].queue) \in ToSet(sub[s].queue)
<1>1. sub[s] \in Stream /\ sub[s].queue # << >> /\ sub' = [sub EXCEPT ![s].queue = Tail(@)]
      BY DEF Receive, Typed, SubOK
<1>2. sub[s].queue \in Seq(1..MaxLines) /\ Len(sub[s].queue) <= QueueMax /\ QueueMax \in Nat
      BY <1>1, UpToSeq DEF Stream
<1>3. /\ Tail(sub[s].queue) \in Seq(1..MaxLines) /\ Len(Tail(sub[s].queue)) = Len(sub[s].queue) - 1
      /\ Len(sub[s].queue) \in Nat /\ Head(sub[s].queue) \in ToSet(sub[s].queue)
      BY <1>1, <1>2, Tailed
<1>4. Tail(sub[s].queue) \in UpTo(QueueMax)
  <2>1. Len(Tail(sub[s].queue)) <= QueueMax
        BY <1>2, <1>3
  <2> QED BY <1>2, <1>3, <2>1, UpToSeq
<1>5. sub \in [1..Streams -> Stream]
      BY DEF Typed, SubOK
<1> QED BY <1>1, <1>2, <1>3, <1>4, <1>5 DEF Stream

\* The rows after a line has been received.
LEMMA ReceivedRows ==
    ASSUME Typed, NEW l \in Lines
    PROVE  LET new == Append(rows, [line |-> l, live |-> TRUE])
           IN  /\ new \in Seq(Row) /\ Len(new) = Len(rows) + 1 /\ Len(rows) \in Nat
               /\ \A i \in 1..Len(rows) : new[i] = rows[i]
               /\ new[Len(rows) + 1] = [line |-> l, live |-> TRUE]
               /\ Trimmed(new) \in Seq(Row)
               /\ \/ Len(new) <= MaxRows /\ Trimmed(new) = new
                  \/ /\ Len(rows) = MaxRows /\ Len(Trimmed(new)) = MaxRows
                     /\ \A i \in 1..MaxRows : Trimmed(new)[i] = new[i + 1]
<1> DEFINE row == [line |-> l, live |-> TRUE]
           new == Append(rows, row)
<1>1. row \in Row /\ rows \in Seq(Row) /\ Len(rows) <= MaxRows /\ MaxRows \in Nat \ {0}
      BY LenProperties DEF Row, Typed, LogOK, RowsOK, Lines
<1>2. /\ new \in Seq(Row) /\ Len(new) = Len(rows) + 1 /\ Len(rows) \in Nat
      /\ \A i \in 1..Len(rows) : new[i] = rows[i]
      /\ new[Len(rows) + 1] = row
      BY <1>1, Appended
<1> HIDE DEF new
<1>3. CASE Len(new) <= MaxRows
  <2>1. Trimmed(new) = new
        BY <1>2, <1>3, <1>1 DEF Trimmed
  <2> QED BY <1>2, <1>3, <2>1 DEF new
<1>4. CASE ~(Len(new) <= MaxRows)
  <2>1. Trimmed(new) = Tail(new) /\ Len(rows) = MaxRows /\ Len(new) = MaxRows + 1
        BY <1>1, <1>2, <1>4 DEF Trimmed
  <2>2. new # << >>
        BY <1>1, <2>1, EmptySeq
  <2>3. /\ Tail(new) \in Seq(Row) /\ Len(Tail(new)) = Len(new) - 1
        /\ \A i \in 1..Len(new) - 1 : Tail(new)[i] = new[i + 1]
        BY <1>2, <2>2, Tailed
  <2>4. /\ Trimmed(new) \in Seq(Row) /\ Len(Trimmed(new)) = MaxRows
        /\ \A i \in 1..MaxRows : Trimmed(new)[i] = new[i + 1]
        BY <1>1, <1>2, <2>1, <2>3
  <2> QED BY <1>2, <2>1, <2>4 DEF new
<1> QED BY <1>3, <1>4

\* What the history request reads.
LEMMA ReadLoad ==
    ASSUME Typed, NEW k \in Loads, ReadHistory(k)
    PROVE  \E items \in UpTo(Page) :
              /\ Ascending(items) /\ ToSet(items) = Newest(load[k].q)
              /\ load' \in [Loads -> Load]
              /\ \A j \in Loads : j # k => load'[j] = load[j]
              /\ load'[k].at = "read" /\ load'[k].q = load[k].q /\ load'[k].items = items
              /\ load'[k].clean <=> \E s \in 1..Streams : sub[s].at = "open" /\ sub[s].q = load[k].q
              /\ load[k].at = "sent"
<1> DEFINE tailed == \E s \in 1..Streams : sub[s].at = "open" /\ sub[s].q = load[k].q
<1>1. load[k] \in Load /\ load \in [Loads -> Load]
      BY DEF Typed, LoadsOK
<1>2. PICK items \in UpTo(Page) :
          /\ Ascending(items) /\ ToSet(items) = Newest(load[k].q)
          /\ load' = [load EXCEPT ![k] =
                 [@ EXCEPT !.at = "read", !.items = items, !.clean = tailed]]
      BY DEF ReadHistory
<1> DEFINE new == [load[k] EXCEPT !.at = "read", !.items = items, !.clean = tailed]
<1>3. tailed \in BOOLEAN
      OBVIOUS
<1>4. /\ new \in Load /\ new.at = "read" /\ new.q = load[k].q /\ new.items = items
      /\ new.clean = tailed
  <2> HIDE DEF tailed
  <2> QED BY <1>1, <1>3 DEF Load
<1>5. load' = [load EXCEPT ![k] = new]
      BY <1>2
<1> HIDE DEF new
<1>6. /\ load' \in [Loads -> Load] /\ load'[k] = new
      /\ \A j \in Loads : j # k => load'[j] = load[j]
      BY <1>1, <1>4, <1>5
<1>7. load[k].at = "sent"
      BY DEF ReadHistory
<1> QED BY <1>2, <1>4, <1>6, <1>7

\* The rows history puts on the page.
LEMMA ReplacedRows ==
    ASSUME NEW items \in UpTo(Page)
    PROVE  /\ items \in Seq(1..MaxLines) /\ Len(items) <= Page /\ Len(items) \in Nat
           /\ DOMAIN items = 1..Len(items)
           /\ Replaced(items) \in Seq(Row) /\ Len(Replaced(items)) = Len(items)
           /\ \A i \in 1..Len(items) : Replaced(items)[i] = [line |-> items[i], live |-> FALSE]
<1>1. items \in Seq(1..MaxLines) /\ Len(items) <= Page
      BY UpToSeq
<1>2. Len(items) \in Nat /\ DOMAIN items = 1..Len(items) /\ \A i \in 1..Len(items) : items[i] \in 1..MaxLines
      BY <1>1, LenProperties
<1>3. Replaced(items) \in [1..Len(items) -> Row]
      BY <1>2 DEF Replaced, Row
<1>4. Replaced(items) \in Seq(Row)
  <2>1. Seq(Row) = UNION {[1..n -> Row] : n \in Nat}
        BY SeqDef, Zenon
  <2>2. [1..Len(items) -> Row] \in {[1..n -> Row] : n \in Nat}
        BY <1>2, Zenon
  <2> QED BY <1>3, <2>1, <2>2, Zenon
<1>5. DOMAIN Replaced(items) = 1..Len(items) /\ DOMAIN Replaced(items) = 1..Len(Replaced(items))
      BY <1>3, <1>4, LenProperties
<1>6. Len(Replaced(items)) \in Nat
      BY <1>4, LenProperties
<1>7. Len(Replaced(items)) = Len(items)
      BY <1>2, <1>5, <1>6
<1> QED BY <1>1, <1>2, <1>4, <1>7 DEF Replaced

LEMMA ArrivedLoad ==
    ASSUME Typed, NEW k \in Loads, Arrive(k) \/ LoadFails(k)
    PROVE  /\ load' \in [Loads -> Load] /\ load'[k] = NoLoad
           /\ \A j \in Loads : j # k => load'[j] = load[j]
BY Starts DEF Arrive, LoadFails, Typed, LoadsOK

-----------------------------------------------------------------------------
(* Types                                                                   *)

LEMMA SameLines == UNCHANGED log => Lines' = Lines
BY DEF Lines

LEMMA EmitTyped ==
    ASSUME Typed, NEW k \in Kinds, Emit(k)
    PROVE  Typed'
<1>1. /\ log' \in Seq(Kinds) /\ Len(log') = Len(log) + 1 /\ Len(log) \in Nat
      /\ Lines \subseteq Lines' /\ Len(log') \in Lines'
      BY LinesGrow, LenProperties DEF Emit, Typed, LogOK
<1>2. LogOK'
  <2>1. Len(log') <= MaxLines
        BY <1>1 DEF Emit
  <2>2. db' \subseteq Lines' /\ pub' \subseteq Lines'
        BY <1>1 DEF Emit, Typed, LogOK
  <2> QED BY <1>1, <2>1, <2>2 DEF LogOK
<1>3. UNCHANGED <<sub, rows, query, paused, load, del, last, whole>>
      BY DEF Emit
<1>4. SubOK' /\ LoadsOK' /\ DelOK'
      BY <1>1, <1>3 DEF Typed, SubOK, LoadsOK, DelOK
<1>5. RowsOK'
      BY <1>1, <1>3 DEF Typed, RowsOK, Shown
<1> QED BY <1>2, <1>4, <1>5 DEF Typed

LEMMA DeliverTyped ==
    ASSUME Typed, NEW l \in Lines, Deliver(l)
    PROVE  Typed'
<1>1. UNCHANGED <<log, db, rows, query, paused, del, last>> /\ pub' \subseteq pub /\ Lines' = Lines
      BY SameLines DEF Deliver
<1>2. LogOK' /\ RowsOK' /\ DelOK'
      BY <1>1 DEF Typed, LogOK, RowsOK, DelOK, Shown
<1>3. LoadsOK'
  <2>1. (load' = load /\ whole' = whole) \/ (load' = Tainted /\ whole' = FALSE)
        BY DEF Deliver
  <2> QED BY <1>1, <2>1, TaintedLoads DEF Typed, LoadsOK
<1>4. SubOK'
  <2>1. l \in 1..MaxLines
        BY LenProperties DEF Typed, LogOK, Lines
  <2>2. ASSUME NEW s \in 1..Streams PROVE ToSet(sub'[s].queue) \subseteq Lines
    <3>1. sub[s].queue \in Seq(1..MaxLines)
          BY DeliveredStreams
    <3>2. ToSet(Append(sub[s].queue, l)) = ToSet(sub[s].queue) \cup {l}
      <4> DEFINE old == sub[s].queue
      <4>1. old \in Seq(1..MaxLines)
            BY <3>1
      <4> HIDE DEF old
      <4>2. ToSet(Append(old, l)) = ToSet(old) \cup {l}
            BY <2>1, <4>1, AppendedLine
      <4> QED BY <4>2 DEF old
    <3> QED BY <3>2, DeliveredStreams DEF Typed, SubOK
  <2> QED BY <1>1, <2>2, DeliveredStreams DEF SubOK
<1> QED BY <1>2, <1>3, <1>4 DEF Typed

LEMMA ReceiveTyped ==
    ASSUME Typed, NEW s \in 1..Streams, Receive(s)
    PROVE  Typed'
<1> DEFINE l == Head(sub[s].queue)
           new == Append(rows, [line |-> l, live |-> TRUE])
<1>1. UNCHANGED <<log, db, pub, query, paused, del, last, whole>> /\ Lines' = Lines
      BY SameLines DEF Receive
<1>2. l \in Lines
      BY ReceivedStream DEF Typed, SubOK
<1>3. LogOK' /\ DelOK'
      BY <1>1 DEF Typed, LogOK, DelOK
<1>4. SubOK'
  <2>1. ToSet(Tail(sub[s].queue)) \subseteq ToSet(sub[s].queue)
        BY ReceivedStream, Tailed
  <2> QED BY <1>1, <2>1, ReceivedStream DEF Typed, SubOK
<1>5. LoadsOK'
  <2>1. load' = load \/ load' = Tainted
        BY DEF Receive
  <2> QED BY <1>1, <2>1, TaintedLoads DEF Typed, LoadsOK
<1>6. RowsOK'
  <2>1. rows' = rows \/ rows' = Trimmed(new)
        BY DEF Receive
  <2>2. CASE rows' = rows
        BY <1>1, <2>2 DEF Typed, RowsOK, Shown
  <2>3. CASE rows' = Trimmed(new)
    <3>1. /\ new \in Seq(Row) /\ Len(new) = Len(rows) + 1 /\ Len(rows) \in Nat
          /\ \A i \in 1..Len(rows) : new[i] = rows[i]
          /\ new[Len(rows) + 1] = [line |-> l, live |-> TRUE]
          /\ Trimmed(new) \in Seq(Row)
          /\ \/ Len(new) <= MaxRows /\ Trimmed(new) = new
             \/ /\ Len(rows) = MaxRows /\ Len(Trimmed(new)) = MaxRows
                /\ \A i \in 1..MaxRows : Trimmed(new)[i] = new[i + 1]
          BY <1>2, ReceivedRows
    <3> HIDE DEF new, l
    <3>2. \A i \in 1..Len(new) : new[i].line \in Lines
      <4>1. ASSUME NEW i \in 1..Len(new) PROVE new[i].line \in Lines
        <5>1. CASE i \in 1..Len(rows)
              BY <3>1, <5>1 DEF Typed, RowsOK, Shown
        <5>2. CASE i = Len(rows) + 1
              BY <1>2, <3>1, <5>2
        <5> QED BY <3>1, <5>1, <5>2
      <4> QED BY <4>1
    <3>3. rows' \in Seq(Row) /\ Len(rows') <= MaxRows
          BY <2>3, <3>1
    <3>4. \A i \in 1..Len(rows') : rows'[i].line \in Lines
          BY <2>3, <3>1, <3>2
    <3> QED BY <1>1, <3>3, <3>4 DEF RowsOK, Shown, Typed
  <2> QED BY <2>1, <2>2, <2>3
<1> QED BY <1>3, <1>4, <1>5, <1>6 DEF Typed

\* Steps that touch the table, the streams or the delete request only.
LEMMA ServerTyped ==
    ASSUME Typed,
           \/ \E l \in Lines : Prune(l)
           \/ \E s \in 1..Streams : Subscribe(s) \/ Reconnect(s)
           \/ Pause \/ Resume \/ ConfirmDelete \/ DeleteFails
    PROVE  Typed'
<1>1. UNCHANGED <<log, pub, rows, query, last>> /\ Lines' = Lines
      BY SameLines DEF Prune, Subscribe, Reconnect, Pause, Resume, ConfirmDelete, DeleteFails
<1>2. db' \subseteq db /\ paused' \in BOOLEAN
      BY DEF Prune, Subscribe, Reconnect, Pause, Resume, ConfirmDelete, DeleteFails, Deleted,
             Typed, RowsOK
<1>3. LogOK' /\ RowsOK'
      BY <1>1, <1>2 DEF Typed, LogOK, RowsOK, Shown
<1>4. LoadsOK'
  <2>1. (load' = load /\ whole' = whole) \/ (load' = Tainted /\ whole' = FALSE)
        BY DEF Prune, Subscribe, Reconnect, Pause, Resume, ConfirmDelete, DeleteFails
  <2> QED BY <1>1, <2>1, TaintedLoads DEF Typed, LoadsOK
<1>5. DelOK'
  <2>1. Len(log) \in 0..MaxLines
        BY LenProperties DEF Typed, LogOK
  <2>2. query \in Queries /\ Everything \in Queries
        BY DEF Typed, RowsOK
  <2>3. del' \in {del, NoDelete, [at |-> "sent", q |-> query, cut |-> Len(log)]}
        BY DEF Prune, Subscribe, Reconnect, Pause, Resume, ConfirmDelete, DeleteFails
  <2> QED BY <2>1, <2>2, <2>3 DEF Typed, DelOK, NoDelete
<1>6. SubOK'
  <2>1. sub \in [1..Streams -> Stream] /\ query \in Queries
        BY DEF Typed, SubOK, RowsOK
  <2>2. ASSUME NEW s \in 1..Streams, Subscribe(s) PROVE SubOK'
    <3> DEFINE new == [sub[s] EXCEPT !.at = "open"]
    <3>1. sub[s] \in Stream /\ sub' = [sub EXCEPT ![s] = new]
          BY <2>1, <2>2 DEF Subscribe
    <3>2. new \in Stream /\ new.queue = sub[s].queue
          BY <3>1 DEF Stream
    <3> HIDE DEF new
    <3>3. /\ sub' \in [1..Streams -> Stream]
          /\ \A t \in 1..Streams : sub'[t].queue = sub[t].queue
          BY <2>1, <3>1, <3>2
    <3> QED BY <1>1, <3>3 DEF Typed, SubOK
  <2>3. ASSUME NEW s \in 1..Streams, Reconnect(s) PROVE SubOK'
    <3>1. << >> \in UpTo(QueueMax)
          BY Starts DEF Stream
    <3> DEFINE new == [sub[s] EXCEPT !.at = "opening", !.queue = << >>]
    <3>2. new \in Stream /\ new.queue = << >>
          BY <2>1, <3>1 DEF Stream
    <3>3. sub' = [sub EXCEPT ![s] = new]
          BY <2>1, <2>3 DEF Reconnect
    <3> HIDE DEF new
    <3>4. /\ sub' \in [1..Streams -> Stream] /\ sub'[s].queue = << >>
          /\ \A t \in 1..Streams : t # s => sub'[t] = sub[t]
          BY <2>1, <3>2, <3>3
    <3> QED BY <1>1, <3>4, NoElements DEF Typed, SubOK
  <2>4. CASE Pause
        BY <2>4, <1>1, ClosedStreams, NoElements DEF Pause, SubOK
  <2>5. CASE Resume
        BY <2>1, <2>5, <1>1, OpenedStream, NoElements DEF Resume, SubOK
  <2>6. CASE sub' = sub
        BY <1>1, <2>6 DEF Typed, SubOK
  <2> QED BY <2>2, <2>3, <2>4, <2>5, <2>6 DEF Prune, ConfirmDelete, DeleteFails
<1> QED BY <1>3, <1>4, <1>5, <1>6 DEF Typed

LEMMA ReadTyped ==
    ASSUME Typed, NEW k \in Loads, ReadHistory(k)
    PROVE  Typed'
<1>1. UNCHANGED <<log, db, pub, sub, rows, query, paused, del, last, whole>> /\ Lines' = Lines
      BY SameLines DEF ReadHistory
<1>2. LogOK' /\ SubOK' /\ RowsOK' /\ DelOK'
      BY <1>1 DEF Typed, LogOK, SubOK, RowsOK, DelOK, Shown
<1>3. \A q : Newest(q) \subseteq Lines
      BY DEF Newest, Matching, Typed, LogOK
<1>4. LoadsOK'
      BY <1>1, <1>3, ReadLoad DEF Typed, LoadsOK
<1> QED BY <1>2, <1>4 DEF Typed

LEMMA ArriveTyped ==
    ASSUME Typed, NEW k \in Loads, Arrive(k) \/ LoadFails(k)
    PROVE  Typed'
<1>1. UNCHANGED <<log, db, pub, sub, query, paused, del>> /\ Lines' = Lines
      BY SameLines DEF Arrive, LoadFails
<1>2. LogOK' /\ SubOK' /\ DelOK'
      BY <1>1 DEF Typed, LogOK, SubOK, DelOK
<1>3. load[k] \in Load /\ ToSet(load[k].items) \subseteq Lines /\ load[k].items \in UpTo(Page)
      BY DEF Typed, LoadsOK, Load
<1>4. LoadsOK'
  <2>1. /\ last' = Failure \/ last' = load[k].q
        /\ whole' = whole \/ whole' = load[k].clean
        BY DEF Arrive, LoadFails
  <2>2. last' \in Queries \cup {Failure} /\ whole' \in BOOLEAN
        BY <1>3, <2>1 DEF Load, Typed, LoadsOK
  <2>3. \A j \in Loads : ToSet(load'[j].items) \subseteq Lines
        BY ArrivedLoad, Starts, NoElements DEF Typed, LoadsOK
  <2> QED BY <1>1, <2>2, <2>3, ArrivedLoad DEF LoadsOK
<1>5. RowsOK'
  <2>1. CASE rows' = rows
        BY <1>1, <2>1 DEF Typed, RowsOK, Shown
  <2>2. CASE rows' = Replaced(load[k].items)
    <3>1. rows' \in Seq(Row) /\ Len(rows') = Len(load[k].items) /\ Len(rows') <= MaxRows
          BY <1>3, <2>2, ReplacedRows
    <3>2. \A i \in 1..Len(rows') : rows'[i].line \in ToSet(load[k].items)
      <4> DEFINE items == load[k].items
      <4>1. items \in UpTo(Page) /\ rows' = Replaced(items) /\ Len(rows') = Len(items)
            BY <1>3, <2>2, <3>1
      <4> HIDE DEF items
      <4>2. \A i \in 1..Len(rows') : rows'[i].line \in ToSet(items)
        <5>1. /\ DOMAIN items = 1..Len(items)
              /\ \A i \in 1..Len(items) : Replaced(items)[i] = [line |-> items[i], live |-> FALSE]
              BY <4>1, ReplacedRows
        <5>2. ASSUME NEW i \in 1..Len(rows') PROVE rows'[i].line = items[i] /\ i \in DOMAIN items
          <6>1. i \in 1..Len(items)
                BY <4>1
          <6>2. Replaced(items)[i] = [line |-> items[i], live |-> FALSE]
                BY <5>1, <6>1
          <6>3. rows'[i] = [line |-> items[i], live |-> FALSE]
                BY <4>1, <6>2
          <6> QED BY <5>1, <6>1, <6>3
        <5> QED BY <5>2 DEF ToSet
      <4> QED BY <4>2 DEF items
    <3> QED BY <1>1, <1>3, <3>1, <3>2 DEF RowsOK, Shown, Typed
  <2> QED BY <2>1, <2>2 DEF Arrive, LoadFails
<1> QED BY <1>2, <1>4, <1>5 DEF Typed

LEMMA DeleteTyped ==
    ASSUME Typed, NEW k \in Loads, DeleteReply(k)
    PROVE  /\ Typed'
           /\ load'[k] = Sent(del.q) /\ load' \in [Loads -> Load]
           /\ \A j \in Loads : j # k => load'[j] = Tainted[j]
<1>1. UNCHANGED <<log, pub, sub, query, paused>> /\ Lines' = Lines /\ db' \subseteq db
      BY SameLines DEF DeleteReply, Deleted
<1>2. /\ rows' = << >> /\ del' = NoDelete /\ last' = Failure /\ whole' = FALSE
      /\ load' = [Tainted EXCEPT ![k] = Sent(del.q)] /\ del.q \in Queries
      BY DEF DeleteReply, Typed, DelOK
<1>3. LogOK' /\ SubOK'
      BY <1>1 DEF Typed, LogOK, SubOK
<1>4. RowsOK'
  <2>1. rows' \in Seq(Row) /\ Len(rows') = 0
        BY <1>2, EmptySeq
  <2>2. Shown' = {}
        BY <2>1 DEF Shown
  <2> QED BY <1>1, <2>1, <2>2 DEF Typed, RowsOK
<1>5. DelOK'
      BY <1>2 DEF DelOK, NoDelete
<1>6. /\ load' \in [Loads -> Load] /\ load'[k] = Sent(del.q)
      /\ \A j \in Loads : j # k => load'[j] = Tainted[j]
      BY <1>2, TaintedLoads, SentLoad DEF Typed
<1>7. LoadsOK'
  <2>1. ToSet(load'[k].items) = {}
        BY <1>2, <1>6, SentLoad, NoElements
  <2>2. \A j \in Loads : ToSet(load'[j].items) \subseteq Lines
        BY <1>6, <2>1, TaintedLoads DEF Typed, LoadsOK
  <2> QED BY <1>1, <1>2, <1>6, <2>2 DEF Typed, LoadsOK
<1> QED BY <1>3, <1>4, <1>5, <1>6, <1>7 DEF Typed

LEMMA FilterTyped ==
    ASSUME Typed, StreamsOK, NEW q \in Queries, NEW k \in Loads, ChangeFilter(q, k)
    PROVE  Typed'
<1>1. UNCHANGED <<log, db, pub, rows, paused, del>> /\ query' = q /\ Lines' = Lines
      /\ last' = Failure
      BY SameLines, ChangedStreams
<1>2. LogOK' /\ RowsOK' /\ DelOK'
      BY <1>1 DEF Typed, LogOK, RowsOK, DelOK, Shown
<1>3. SubOK'
  <2>1. CASE sub' = sub
        BY <1>1, <2>1 DEF Typed, SubOK
  <2>2. CASE sub' = Reopen(q)
    <3>1. Reopen(q) \in [1..Streams -> Stream] /\ \A s \in 1..Streams : Reopen(q)[s].queue = << >>
          BY OpenedStream
    <3> QED BY <2>2, <3>1, NoElements DEF SubOK
  <2> QED BY <2>1, <2>2, ChangedStreams
<1>4. LoadsOK'
  <2>1. ToSet(load'[k].items) = {}
    <3>1. load'[k] = Sent(q)
          BY ChangedStreams
    <3> QED BY <3>1, SentLoad, NoElements
  <2>2. \A j \in Loads : ToSet(load'[j].items) \subseteq Lines
        BY <2>1, ChangedStreams DEF Typed, LoadsOK
  <2> QED BY <1>1, <2>2, ChangedStreams DEF Typed, LoadsOK
<1> QED BY <1>2, <1>3, <1>4 DEF Typed

LEMMA NextTyped == Typed /\ StreamsOK /\ [Next]_vars => Typed'
<1> SUFFICES ASSUME Typed, StreamsOK, [Next]_vars PROVE Typed'
    OBVIOUS
<1>1. CASE UNCHANGED vars
      BY <1>1, SameLines DEF vars, Typed, LogOK, SubOK, RowsOK, LoadsOK, DelOK, Shown
<1> QED BY <1>1, EmitTyped, DeliverTyped, ReceiveTyped, ServerTyped, ReadTyped, ArriveTyped,
           DeleteTyped, FilterTyped DEF Next

-----------------------------------------------------------------------------
(* Streams                                                                 *)

LEMMA ReopenedOK ==
    ASSUME NEW q \in Queries, sub' = Reopen(q), query' = q, ~paused'
    PROVE  StreamsOK'
<1>1. PICK n \in 1..Streams :
          /\ Reopen(q) \in [1..Streams -> Stream]
          /\ Reopen(q)[n].at = "opening" /\ Reopen(q)[n].q = q
          /\ \A s \in 1..Streams : Reopen(q)[s].queue = << >>
          /\ \A s \in 1..Streams : s # n => Reopen(q)[s].at = "free"
      BY OpenedStream
<1> QED BY <1>1 DEF StreamsOK

\* Steps that leave every stream's place and query alone.
LEMMA PlacesOK ==
    ASSUME StreamsOK, UNCHANGED <<query, paused>>,
           \A s \in 1..Streams : /\ sub'[s].at = sub[s].at /\ sub'[s].q = sub[s].q
                                 /\ sub[s].at # "open" => sub'[s].queue = sub[s].queue
    PROVE  StreamsOK'
BY DEF StreamsOK

LEMMA NextStreams == Typed /\ StreamsOK /\ [Next]_vars => StreamsOK'
<1> SUFFICES ASSUME Typed, StreamsOK, [Next]_vars PROVE StreamsOK'
    OBVIOUS
<1>1. CASE UNCHANGED <<sub, query, paused>>
      BY <1>1, PlacesOK
<1>2. ASSUME NEW l \in Lines, Deliver(l) PROVE StreamsOK'
      BY <1>2, DeliveredStreams, PlacesOK DEF Deliver
<1>3. ASSUME NEW s \in 1..Streams, Receive(s) PROVE StreamsOK'
  <2>1. sub[s].at = "open"
        BY <1>3 DEF Receive, StreamsOK
  <2>2. \A t \in 1..Streams : /\ sub'[t].at = sub[t].at /\ sub'[t].q = sub[t].q
                              /\ sub[t].at # "open" => sub'[t].queue = sub[t].queue
        BY <1>3, <2>1, ReceivedStream
  <2>3. UNCHANGED <<query, paused>>
        BY <1>3 DEF Receive
  <2> QED BY <2>2, <2>3, PlacesOK
<1>4. ASSUME NEW s \in 1..Streams, Subscribe(s) \/ Reconnect(s) PROVE StreamsOK'
  <2>1. /\ sub[s].at \in {"opening", "open"} /\ sub'[s].at \in {"opening", "open"}
        /\ sub'[s].q = sub[s].q /\ sub'[s].queue = << >> /\ UNCHANGED <<query, paused>>
        /\ \A t \in 1..Streams : t # s => sub'[t] = sub[t]
    <3>1. sub \in [1..Streams -> Stream]
          BY DEF Typed, SubOK
    <3>2. CASE Subscribe(s)
          BY <3>1, <3>2 DEF Subscribe, Stream, StreamsOK
    <3>3. CASE Reconnect(s)
          BY <3>1, <3>3 DEF Reconnect, Stream
    <3> QED BY <1>4, <3>2, <3>3
  <2> QED BY <2>1 DEF StreamsOK
<1>5. CASE Pause
      BY <1>5, ClosedStreams DEF Pause, StreamsOK
<1>6. CASE Resume
  <2>1. query \in Queries
        BY DEF Typed, RowsOK
  <2> QED BY <1>6, <2>1, ReopenedOK DEF Resume
<1>7. ASSUME NEW q \in Queries, NEW k \in Loads, ChangeFilter(q, k) PROVE StreamsOK'
  <2>1. CASE sub' = Reopen(q) /\ ~paused
    <3>1. query' = q /\ ~paused'
          BY <1>7, <2>1 DEF ChangeFilter
    <3> QED BY <2>1, <3>1, ReopenedOK
  <2>2. CASE sub' = sub /\ (q = query \/ paused)
        BY <1>7, <2>2, ChangedStreams DEF StreamsOK
  <2> QED BY <1>7, <2>1, <2>2, ChangedStreams
<1> QED BY <1>1, <1>2, <1>3, <1>4, <1>5, <1>6, <1>7
        DEF Next, vars, Emit, Prune, ReadHistory, Arrive, LoadFails, DeleteReply, ConfirmDelete,
            DeleteFails

-----------------------------------------------------------------------------
(* The filter                                                              *)

\* What a history request has read is listed for its filter.
ReadsOK ==
    \A k \in Loads : load[k].at = "read" =>
        Ascending(load[k].items) /\ \A l \in ToSet(load[k].items) : Admitted(load[k].q, l)

LEMMA LoadsSame ==
    ASSUME Typed, ReadsOK, UNCHANGED log,
           \A k \in Loads : \/ load'[k].at # "read"
                               \/ /\ load'[k].at = load[k].at /\ load'[k].q = load[k].q
                                  /\ load'[k].items = load[k].items
    PROVE  ReadsOK'
BY DEF ReadsOK, Admitted, LevelMatches, Ascending

LEMMA NextReads == Typed /\ StreamsOK /\ ReadsOK /\ [Next]_vars => ReadsOK'
<1> SUFFICES ASSUME Typed, StreamsOK, ReadsOK, [Next]_vars PROVE ReadsOK'
    OBVIOUS
<1>1. ASSUME NEW k \in Kinds, Emit(k) PROVE ReadsOK'
  <2>1. \A j \in Loads : ToSet(load[j].items) \subseteq Lines
        BY DEF Typed, LoadsOK
  <2>2. \A q : \A l \in Lines : Admitted(q, l)' <=> Admitted(q, l)
        BY <1>1, LinesGrow DEF Emit, Typed
  <2>3. load' = load
        BY <1>1 DEF Emit
  <2> QED BY <2>1, <2>2, <2>3 DEF ReadsOK, Ascending, Admitted, LevelMatches
<1>2. CASE UNCHANGED log /\ (load' = load \/ load' = Tainted)
      BY <1>2, TaintedLoads, LoadsSame DEF Typed
<1>3. ASSUME NEW k \in Loads, ReadHistory(k) PROVE ReadsOK'
  <2>1. PICK items \in UpTo(Page) :
            /\ Ascending(items) /\ ToSet(items) = Newest(load[k].q)
            /\ \A j \in Loads : j # k => load'[j] = load[j]
            /\ load'[k].q = load[k].q /\ load'[k].items = items
        BY <1>3, ReadLoad
  <2>2. \A l \in Newest(load[k].q) : Admitted(load[k].q, l)
        BY DEF Newest, Matching, Listed
  <2>3. UNCHANGED log
        BY <1>3 DEF ReadHistory
  <2> QED BY <2>1, <2>2, <2>3 DEF ReadsOK, Ascending, Admitted, LevelMatches
<1>4. ASSUME NEW k \in Loads, Arrive(k) \/ LoadFails(k) PROVE ReadsOK'
  <2>1. load'[k].at = "free" /\ UNCHANGED log
        BY <1>4, ArrivedLoad, Starts DEF Arrive, LoadFails
  <2> QED BY <1>4, <2>1, ArrivedLoad, LoadsSame
<1>5. ASSUME NEW k \in Loads, DeleteReply(k) PROVE ReadsOK'
  <2>1. load'[k].at = "sent" /\ UNCHANGED log /\ \A j \in Loads : j # k => load'[j] = Tainted[j]
        BY <1>5, DeleteTyped, SentLoad DEF DeleteReply, Typed, DelOK
  <2> QED BY <2>1, TaintedLoads, LoadsSame DEF Typed
<1>6. ASSUME NEW q \in Queries, NEW k \in Loads, ChangeFilter(q, k) PROVE ReadsOK'
  <2>1. load'[k] = Sent(q) /\ UNCHANGED log
        BY <1>6, ChangedStreams
  <2>2. load'[k].at = "sent"
        BY <2>1, SentLoad
  <2> QED BY <1>6, <2>1, <2>2, ChangedStreams, LoadsSame
<1> QED BY <1>1, <1>2, <1>3, <1>4, <1>5, <1>6
        DEF Next, vars, Deliver, Receive, Subscribe, Reconnect, Pause, Resume, Prune, ConfirmDelete,
            DeleteFails

LEMMA NoFailedQuery == Failure \notin Queries
<1>1. \A q \in Queries : q.levels \subseteq Levels
      OBVIOUS
<1>2. Failure.levels = {"error"} /\ "error" \notin Levels
      BY DEF Failure, Levels
<1> QED BY <1>1, <1>2

\* The rows stay of the filter as long as they were, while lines of the log come in.
LEMMA NextRows ==
    Typed /\ StreamsOK /\ ReadsOK /\ RowsOfTheFilter /\ [Next]_vars => RowsOfTheFilter'
<1> SUFFICES ASSUME Typed, StreamsOK, ReadsOK, RowsOfTheFilter, [Next]_vars,
                    \A k \in Loads : load'[k].at = "free", last' = query'
             PROVE  \A l \in Shown' : Admitted(query, l)'
    BY DEF RowsOfTheFilter
<1> DEFINE Free == \A k \in Loads : load[k].at = "free"
<1>1. ASSUME NEW k \in Kinds, Emit(k) PROVE \A l \in Shown' : Admitted(query, l)'
  <2>1. UNCHANGED <<rows, query, load, last>> /\ Shown' = Shown
        BY <1>1 DEF Emit, Shown
  <2>2. \A l \in Lines : Admitted(query, l)' <=> Admitted(query, l)
        BY <1>1, <2>1, LinesGrow DEF Emit, Typed, Admitted, LevelMatches
  <2>3. \A l \in Shown : Admitted(query, l)
        BY <2>1 DEF RowsOfTheFilter
  <2> QED BY <2>1, <2>2, <2>3 DEF Typed, RowsOK
<1>2. CASE UNCHANGED <<log, rows, query, last>> /\ (load' = load \/ load' = Tainted)
  <2>1. Free
        BY <1>2, TaintedLoads DEF Typed
  <2>2. \A l \in Shown : Admitted(query, l)
        BY <1>2, <2>1 DEF RowsOfTheFilter
  <2> QED BY <1>2, <2>2 DEF Shown, Admitted, LevelMatches
<1>3. ASSUME NEW s \in 1..Streams, Receive(s) PROVE \A l \in Shown' : Admitted(query, l)'
  <2> DEFINE l == Head(sub[s].queue)
             new == Append(rows, [line |-> l, live |-> TRUE])
  <2>1. UNCHANGED <<log, query, last>> /\ (load' = load \/ load' = Tainted)
        BY <1>3 DEF Receive
  <2>2. Free
        BY <2>1, TaintedLoads DEF Typed
  <2>3. \A m \in Shown : Admitted(query, m)
        BY <2>1, <2>2 DEF RowsOfTheFilter
  <2>4. sub[s].q = query /\ l \in Lines
        BY <1>3, ReceivedStream DEF StreamsOK, Receive, Typed, SubOK
  <2>5. CASE rows' = rows
        BY <2>1, <2>3, <2>5 DEF Shown, Admitted, LevelMatches
  <2>6. CASE Streamed(query, l) /\ rows' = Trimmed(new)
    <3>1. /\ Len(new) = Len(rows) + 1 /\ Len(rows) \in Nat
          /\ \A i \in 1..Len(rows) : new[i] = rows[i]
          /\ new[Len(rows) + 1] = [line |-> l, live |-> TRUE]
          /\ \/ Len(new) <= MaxRows /\ Trimmed(new) = new
             \/ /\ Len(rows) = MaxRows /\ Len(Trimmed(new)) = MaxRows
                /\ \A i \in 1..MaxRows : Trimmed(new)[i] = new[i + 1]
          BY <2>4, ReceivedRows
    <3> HIDE DEF new, l
    <3>2. ASSUME NEW i \in 1..Len(new) PROVE new[i].line \in Shown \cup {l}
      <4>1. CASE i \in 1..Len(rows)
            BY <3>1, <4>1 DEF Shown
      <4>2. CASE i = Len(rows) + 1
            BY <3>1, <4>2
      <4> QED BY <3>1, <4>1, <4>2
    <3>3. \A i \in 1..Len(rows') : rows'[i].line \in Shown \cup {l}
          BY <2>6, <3>1, <3>2
    <3>4. Shown' \subseteq Shown \cup {l}
          BY <3>3 DEF Shown
    <3>5. Admitted(query, l)
          BY <2>4, <2>6, StreamedAdmitted DEF Typed, l
    <3> QED BY <2>1, <2>3, <3>4, <3>5 DEF Admitted, LevelMatches
  <2> QED BY <1>3, <2>4, <2>5, <2>6 DEF Receive
<1>4. ASSUME NEW k \in Loads, Arrive(k) PROVE \A l \in Shown' : Admitted(query, l)'
  <2> DEFINE items == load[k].items
  <2>1. /\ items \in UpTo(Page) /\ rows' = Replaced(items) /\ last' = load[k].q
        /\ UNCHANGED <<log, query>> /\ load[k].at = "read"
        BY <1>4 DEF Arrive, Typed, LoadsOK, Load
  <2>2. \A l \in ToSet(items) : Admitted(query, l)
        BY <2>1 DEF ReadsOK
  <2> HIDE DEF items
  <2>3. /\ DOMAIN items = 1..Len(items) /\ Len(Replaced(items)) = Len(items)
        /\ \A i \in 1..Len(items) : Replaced(items)[i] = [line |-> items[i], live |-> FALSE]
        BY <2>1, ReplacedRows
  <2>4. ASSUME NEW i \in 1..Len(rows') PROVE rows'[i].line \in ToSet(items)
    <3>1. i \in DOMAIN items /\ Replaced(items)[i] = [line |-> items[i], live |-> FALSE]
          BY <2>1, <2>3
    <3>2. rows'[i].line = items[i]
          BY <2>1, <3>1
    <3> QED BY <3>1, <3>2 DEF ToSet
  <2> QED BY <2>1, <2>2, <2>4 DEF Shown, Admitted, LevelMatches
<1>5. ASSUME NEW k \in Loads, LoadFails(k) PROVE FALSE
  <2>1. last' = Failure /\ query' = query /\ query \in Queries
        BY <1>5 DEF LoadFails, Typed, RowsOK
  <2> QED BY <2>1, NoFailedQuery
<1>6. ASSUME NEW k \in Loads, ReadHistory(k) PROVE FALSE
      BY <1>6, ReadLoad
<1>7. ASSUME NEW k \in Loads, DeleteReply(k) PROVE FALSE
      BY <1>7, DeleteTyped, SentLoad DEF Typed, DelOK
<1>8. ASSUME NEW q \in Queries, NEW k \in Loads, ChangeFilter(q, k) PROVE FALSE
  <2>1. load'[k] = Sent(q)
        BY <1>8, ChangedStreams
  <2>2. load'[k].at = "sent"
        BY <2>1, SentLoad
  <2> QED BY <2>2
<1> QED BY <1>1, <1>2, <1>3, <1>4, <1>5, <1>6, <1>7, <1>8
        DEF Next, vars, Deliver, Subscribe, Reconnect, Pause, Resume, Prune, ConfirmDelete,
            DeleteFails

-----------------------------------------------------------------------------
(* Once by the stream                                                      *)

LiveLines == {rows[i].line : i \in {j \in 1..Len(rows) : rows[j].live}}

\* A line is yet to be delivered, in the queue or received: one of the three, once.
QueuesOnce ==
    /\ \A s \in 1..Streams : /\ IsInjective(sub[s].queue)
                             /\ ToSet(sub[s].queue) \cap (pub \cup LiveLines) = {}
    /\ LiveLines \cap pub = {}

LEMMA EmptyInjective == IsInjective(<< >>)
BY DEF IsInjective

\* Steps after which no queue holds more than before.
LEMMA QueuesShrink ==
    ASSUME QueuesOnce, OnceByTheStream, UNCHANGED rows, pub' \subseteq pub,
           \A s \in 1..Streams : sub'[s].queue = sub[s].queue \/ sub'[s].queue = << >>
    PROVE  QueuesOnce' /\ OnceByTheStream'
<1>1. LiveLines' = LiveLines
      BY DEF LiveLines
<1>2. OnceByTheStream'
      BY DEF OnceByTheStream
<1>3. \A s \in 1..Streams : /\ IsInjective(sub'[s].queue)
                            /\ ToSet(sub'[s].queue) \subseteq ToSet(sub[s].queue)
  <2>1. ASSUME NEW s \in 1..Streams
        PROVE  IsInjective(sub'[s].queue) /\ ToSet(sub'[s].queue) \subseteq ToSet(sub[s].queue)
    <3>1. CASE sub'[s].queue = << >>
          BY <3>1, EmptyInjective, NoElements
    <3>2. CASE sub'[s].queue = sub[s].queue
          BY <3>2 DEF QueuesOnce
    <3> QED BY <3>1, <3>2
  <2> QED BY <2>1
<1> QED BY <1>1, <1>2, <1>3 DEF QueuesOnce

LEMMA NextOnce ==
    Typed /\ StreamsOK /\ ReadsOK /\ QueuesOnce /\ OnceByTheStream /\ [Next]_vars
        => QueuesOnce' /\ OnceByTheStream'
<1> SUFFICES ASSUME Typed, StreamsOK, ReadsOK, QueuesOnce, OnceByTheStream, [Next]_vars
             PROVE  QueuesOnce' /\ OnceByTheStream'
    OBVIOUS
<1>1. ASSUME NEW k \in Kinds, Emit(k) PROVE QueuesOnce' /\ OnceByTheStream'
  <2>1. UNCHANGED <<rows, sub>> /\ pub' = pub \cup {Len(log')} /\ Len(log') \notin Lines
        BY <1>1, LinesGrow DEF Emit, Typed
  <2>2. LiveLines' = LiveLines /\ LiveLines \subseteq Lines
        BY <2>1 DEF LiveLines, Typed, RowsOK, Shown
  <2>3. \A s \in 1..Streams : ToSet(sub[s].queue) \subseteq Lines
        BY DEF Typed, SubOK
  <2>4. OnceByTheStream'
        BY <2>1 DEF OnceByTheStream
  <2>5. QueuesOnce'
        BY <2>1, <2>2, <2>3 DEF QueuesOnce
  <2> QED BY <2>4, <2>5
<1>2. ASSUME NEW l \in Lines, Deliver(l) PROVE QueuesOnce' /\ OnceByTheStream'
  <2>1. UNCHANGED rows /\ pub' = pub \ {l} /\ l \in pub
        BY <1>2 DEF Deliver
  <2>2. LiveLines' = LiveLines
        BY <2>1 DEF LiveLines
  <2>3. OnceByTheStream'
        BY <2>1 DEF OnceByTheStream
  <2>4. ASSUME NEW s \in 1..Streams
        PROVE  IsInjective(sub'[s].queue) /\ ToSet(sub'[s].queue) \subseteq ToSet(sub[s].queue) \cup {l}
    <3> DEFINE old == sub[s].queue
    <3>1. /\ old \in Seq(1..MaxLines) /\ IsInjective(old) /\ l \notin ToSet(old)
          /\ sub'[s].queue = old \/ sub'[s].queue = Append(old, l)
          BY <1>2, <2>1, DeliveredStreams DEF QueuesOnce
    <3>2. l \in 1..MaxLines
          BY LenProperties DEF Typed, LogOK, Lines
    <3> HIDE DEF old
    <3>3. /\ ToSet(Append(old, l)) = ToSet(old) \cup {l}
          /\ \A i \in 1..Len(old) : Append(old, l)[i] = old[i]
          /\ Append(old, l)[Len(old) + 1] = l
          /\ DOMAIN old = 1..Len(old) /\ DOMAIN Append(old, l) = 1..Len(old) + 1 /\ Len(old) \in Nat
      <4>1. old \in Seq(1..MaxLines)
            BY <3>1
      <4> QED BY <3>2, <4>1, AppendedLine
    <3>4. IsInjective(Append(old, l))
      <4> DEFINE S == 1..MaxLines
      <4>1. old \in Seq(S) /\ l \in S
            BY <3>1, <3>2
      <4> HIDE DEF S
      <4> QED BY <3>1, <4>1, AppendBehind
    <3> QED BY <3>1, <3>3, <3>4 DEF old
  <2>5. QueuesOnce'
        BY <2>1, <2>2, <2>4 DEF QueuesOnce
  <2> QED BY <2>3, <2>5
<1>3. ASSUME NEW s \in 1..Streams, Receive(s) PROVE QueuesOnce' /\ OnceByTheStream'
  <2> DEFINE old == sub[s].queue
             l == Head(old)
             new == Append(rows, [line |-> l, live |-> TRUE])
  <2>1. /\ old \in Seq(1..MaxLines) /\ old # << >> /\ sub'[s].queue = Tail(old)
        /\ \A t \in 1..Streams : t # s => sub'[t] = sub[t]
        /\ IsInjective(old) /\ ToSet(old) \cap (pub \cup LiveLines) = {}
        /\ UNCHANGED pub /\ l \in Lines
        BY <1>3, ReceivedStream DEF QueuesOnce, Receive, Typed, SubOK
  <2>2. \A t \in 1..Streams : t # s => sub'[t].queue = << >>
    <3>1. sub[s].at = "open"
          BY <2>1 DEF StreamsOK
    <3>2. \A t \in 1..Streams : t # s => sub[t].at = "free"
          BY <3>1 DEF StreamsOK
    <3> QED BY <2>1, <3>2 DEF StreamsOK
  <2>3. /\ IsInjective(Tail(old)) /\ l \notin ToSet(Tail(old)) /\ l \in ToSet(old)
        /\ ToSet(Tail(old)) \subseteq ToSet(old)
    <3> HIDE DEF old
    <3>1. /\ l = old[1] /\ ToSet(old) = ToSet(Tail(old)) \cup {l}
          /\ \A i \in 1..Len(old) - 1 : Tail(old)[i] = old[i + 1]
          /\ DOMAIN old = 1..Len(old) /\ DOMAIN Tail(old) = 1..Len(old) - 1 /\ Len(old) \in Nat \ {0}
          BY <2>1, Tailed
    <3>2. IsInjective(Tail(old))
      <4>1. ASSUME NEW i \in 1..Len(old) - 1, NEW j \in 1..Len(old) - 1, Tail(old)[i] = Tail(old)[j]
            PROVE  i = j
        <5>1. i + 1 \in DOMAIN old /\ j + 1 \in DOMAIN old /\ old[i + 1] = old[j + 1]
              BY <3>1, <4>1
        <5>2. i + 1 = j + 1
              BY <2>1, <5>1 DEF IsInjective
        <5> QED BY <3>1, <5>2
      <4> QED BY <3>1, <4>1 DEF IsInjective
    <3>3. l \notin ToSet(Tail(old))
      <4>1. ASSUME NEW i \in 1..Len(old) - 1 PROVE Tail(old)[i] # l
        <5>1. i + 1 \in DOMAIN old /\ 1 \in DOMAIN old /\ i + 1 # 1 /\ Tail(old)[i] = old[i + 1]
              BY <3>1
        <5>2. old[i + 1] # old[1]
              BY <2>1, <5>1 DEF IsInjective
        <5> QED BY <3>1, <5>1, <5>2
      <4> QED BY <3>1, <4>1 DEF ToSet
    <3> QED BY <3>1, <3>2, <3>3
  <2>4. l \notin pub /\ l \notin LiveLines
        BY <2>1, <2>3
  <2>5. LiveLines' \subseteq LiveLines \cup {l} /\ OnceByTheStream'
    <3>1. CASE rows' = rows
          BY <3>1 DEF LiveLines, OnceByTheStream
    <3>2. CASE rows' = Trimmed(new)
      <4>1. /\ Len(new) = Len(rows) + 1 /\ Len(rows) \in Nat
            /\ \A i \in 1..Len(rows) : new[i] = rows[i]
            /\ new[Len(rows) + 1] = [line |-> l, live |-> TRUE]
            /\ \/ Len(new) <= MaxRows /\ Trimmed(new) = new
               \/ /\ Len(rows) = MaxRows /\ Len(Trimmed(new)) = MaxRows
                  /\ \A i \in 1..MaxRows : Trimmed(new)[i] = new[i + 1]
            BY <2>1, ReceivedRows
      <4> HIDE DEF new, l
      <4>2. \A i \in 1..Len(new) : new[i].live => new[i].line \in LiveLines \cup {l}
        <5>1. ASSUME NEW i \in 1..Len(new), new[i].live PROVE new[i].line \in LiveLines \cup {l}
          <6>1. CASE i \in 1..Len(rows)
                BY <4>1, <5>1, <6>1 DEF LiveLines
          <6>2. CASE i = Len(rows) + 1
                BY <4>1, <6>2
          <6> QED BY <4>1, <6>1, <6>2
        <5> QED BY <5>1
      <4>3. ASSUME NEW i \in 1..Len(new), NEW j \in 1..Len(new), i <= j,
                   new[i].line = new[j].line, new[i].live = new[j].live
            PROVE  i = j
        <5>1. CASE j \in 1..Len(rows)
          <6>1. i \in 1..Len(rows) /\ rows[i] = new[i] /\ rows[j] = new[j]
                BY <4>1, <4>3, <5>1
          <6> QED BY <4>3, <5>1, <6>1 DEF OnceByTheStream
        <5>2. CASE j = Len(rows) + 1 /\ i \in 1..Len(rows)
          <6>1. new[i] = rows[i] /\ new[j] = [line |-> l, live |-> TRUE]
                BY <4>1, <5>2
          <6>4. rows[i] \in Row
                BY <5>2, ElementOfSeq DEF Typed, RowsOK
          <6>5. rows[i].line = l /\ rows[i].live = TRUE
            <7>1. new[j].line = l /\ new[j].live = TRUE
                  BY <6>1
            <7> QED BY <4>3, <6>1, <7>1, Zenon
          <6>2. rows[i].line = l /\ rows[i].live
                BY <6>4, <6>5 DEF Row
          <6>3. l \in LiveLines
                BY <5>2, <6>2 DEF LiveLines
          <6> QED BY <2>4, <6>3
        <5>3. \/ j \in 1..Len(rows)
              \/ j = Len(rows) + 1 /\ i \in 1..Len(rows)
              \/ j = Len(rows) + 1 /\ i = Len(rows) + 1
              BY <4>1
        <5> QED BY <5>1, <5>2, <5>3
      <4>4. \A i, j \in 1..Len(new) : new[i].line = new[j].line /\ new[i].live = new[j].live => i = j
        <5>1. \A i, j \in 1..Len(new) : i <= j \/ j <= i
              BY <4>1
        <5> QED BY <4>3, <5>1
      <4>5. OnceByTheStream'
        <5>1. CASE Trimmed(new) = new
              BY <3>2, <4>4, <5>1 DEF OnceByTheStream
        <5>2. CASE /\ Len(rows) = MaxRows /\ Len(Trimmed(new)) = MaxRows
                   /\ \A i \in 1..MaxRows : Trimmed(new)[i] = new[i + 1]
          <6>1. ASSUME NEW i \in 1..MaxRows, NEW j \in 1..MaxRows,
                       rows'[i].line = rows'[j].line, rows'[i].live = rows'[j].live
                PROVE  i = j
            <7>1. /\ i + 1 \in 1..Len(new) /\ j + 1 \in 1..Len(new)
                  /\ rows'[i] = new[i + 1] /\ rows'[j] = new[j + 1]
                  BY <3>2, <4>1, <5>2
            <7>2. i + 1 = j + 1
                  BY <4>4, <6>1, <7>1
            <7> QED BY <7>2
          <6>2. 1..Len(rows') = 1..MaxRows
                BY <3>2, <5>2
          <6> QED BY <6>1, <6>2 DEF OnceByTheStream
        <5> QED BY <4>1, <5>1, <5>2
      <4>6. ASSUME NEW i \in 1..Len(rows') PROVE \E j \in 1..Len(new) : rows'[i] = new[j]
        <5>1. CASE Trimmed(new) = new
              BY <3>2, <5>1
        <5>2. CASE /\ Len(rows) = MaxRows /\ Len(Trimmed(new)) = MaxRows
                   /\ \A j \in 1..MaxRows : Trimmed(new)[j] = new[j + 1]
          <6>1. i \in 1..MaxRows /\ rows'[i] = new[i + 1] /\ i + 1 \in 1..Len(new)
                BY <3>2, <4>1, <5>2
          <6> QED BY <6>1
        <5> QED BY <4>1, <5>1, <5>2
      <4>7. \A i \in 1..Len(rows') : rows'[i].live => rows'[i].line \in LiveLines \cup {l}
            BY <4>2, <4>6
      <4>8. LiveLines' = {rows'[i].line : i \in {j \in 1..Len(rows') : rows'[j].live}}
            BY DEF LiveLines
      <4>9. LiveLines' \subseteq LiveLines \cup {l}
            BY <4>7, <4>8
      <4> QED BY <4>5, <4>9
    <3> QED BY <1>3, <3>1, <3>2 DEF Receive
  <2>6. QueuesOnce'
    <3>1. \A t \in 1..Streams : /\ IsInjective(sub'[t].queue)
                                /\ ToSet(sub'[t].queue) \cap (pub' \cup LiveLines') = {}
      <4> HIDE DEF old, l
      <4>1. ASSUME NEW t \in 1..Streams
            PROVE  /\ IsInjective(sub'[t].queue)
                   /\ ToSet(sub'[t].queue) \cap (pub' \cup LiveLines') = {}
        <5>1. CASE t = s
              BY <2>1, <2>3, <2>5, <5>1
        <5>2. CASE t # s
              BY <2>2, <5>2, EmptyInjective, NoElements
        <5> QED BY <5>1, <5>2
      <4> QED BY <4>1
    <3>2. LiveLines' \cap pub' = {}
          BY <2>1, <2>4, <2>5 DEF QueuesOnce
    <3> QED BY <3>1, <3>2 DEF QueuesOnce
  <2> QED BY <2>5, <2>6
<1>4. ASSUME NEW k \in Loads, Arrive(k) PROVE QueuesOnce' /\ OnceByTheStream'
  <2> DEFINE items == load[k].items
  <2>1. /\ items \in UpTo(Page) /\ rows' = Replaced(items) /\ UNCHANGED <<sub, pub>>
        /\ Ascending(items)
        BY <1>4 DEF Arrive, Typed, LoadsOK, Load, ReadsOK
  <2> HIDE DEF items
  <2>2. /\ DOMAIN items = 1..Len(items) /\ Len(Replaced(items)) = Len(items)
        /\ \A i \in 1..Len(items) : Replaced(items)[i] = [line |-> items[i], live |-> FALSE]
        /\ Len(items) \in Nat /\ items \in Seq(1..MaxLines)
        BY <2>1, ReplacedRows
  <2>3. \A i \in 1..Len(rows') : /\ i \in DOMAIN items /\ items[i] \in Nat
                                 /\ rows'[i].line = items[i] /\ rows'[i].live = FALSE
    <3>1. ASSUME NEW i \in 1..Len(rows')
          PROVE  /\ i \in DOMAIN items /\ items[i] \in Nat
                 /\ rows'[i].line = items[i] /\ rows'[i].live = FALSE
      <4>1. i \in 1..Len(items)
            BY <2>1, <2>2
      <4>2. Replaced(items)[i] = [line |-> items[i], live |-> FALSE] /\ items[i] \in 1..MaxLines
            BY <2>2, <4>1, ElementOfSeq
      <4>3. rows'[i] = [line |-> items[i], live |-> FALSE]
            BY <2>1, <4>2
      <4> QED BY <2>2, <4>1, <4>2, <4>3
    <3> QED BY <3>1
  <2>4. LiveLines' = {}
        BY <2>3 DEF LiveLines
  <2>5. OnceByTheStream'
    <3>1. ASSUME NEW i \in 1..Len(rows'), NEW j \in 1..Len(rows'), rows'[i].line = rows'[j].line
          PROVE  i = j
      <4>1. items[i] = items[j] /\ items[i] \in Nat /\ i \in DOMAIN items /\ j \in DOMAIN items
            BY <2>3, <3>1
      <4>2. ~(i < j) /\ ~(j < i)
            BY <2>1, <4>1 DEF Ascending
      <4> QED BY <2>2, <4>1, <4>2
    <3> QED BY <3>1 DEF OnceByTheStream
  <2> QED BY <2>1, <2>4, <2>5 DEF QueuesOnce
<1>5. ASSUME NEW k \in Loads, DeleteReply(k) PROVE QueuesOnce' /\ OnceByTheStream'
  <2>1. rows' = << >> /\ UNCHANGED <<sub, pub>>
        BY <1>5 DEF DeleteReply
  <2>2. Len(rows') = 0
        BY <2>1, EmptySeq
  <2>3. LiveLines' = {} /\ OnceByTheStream'
        BY <2>2 DEF LiveLines, OnceByTheStream
  <2> QED BY <2>1, <2>3 DEF QueuesOnce
<1>6. CASE /\ UNCHANGED <<rows, pub>>
           /\ \A s \in 1..Streams : sub'[s].queue = sub[s].queue \/ sub'[s].queue = << >>
      BY <1>6, QueuesShrink
<1>7. ASSUME NEW q \in Queries, NEW k \in Loads, ChangeFilter(q, k)
      PROVE  QueuesOnce' /\ OnceByTheStream'
  <2>1. UNCHANGED <<rows, pub>> /\ (sub' = sub \/ sub' = Reopen(q))
        BY <1>7, ChangedStreams
  <2>2. \A s \in 1..Streams : Reopen(q)[s].queue = << >>
        BY OpenedStream
  <2> QED BY <1>6, <2>1, <2>2
<1>8. CASE Resume
  <2>1. \A s \in 1..Streams : Reopen(query)[s].queue = << >>
        BY OpenedStream DEF Typed, RowsOK
  <2> QED BY <1>6, <1>8, <2>1 DEF Resume
<1>9. CASE Pause
      BY <1>6, <1>9, ClosedStreams DEF Pause
<1>10. ASSUME NEW s \in 1..Streams, Subscribe(s) \/ Reconnect(s) PROVE QueuesOnce' /\ OnceByTheStream'
  <2>1. sub \in [1..Streams -> Stream]
        BY DEF Typed, SubOK
  <2>2. \A t \in 1..Streams : sub'[t].queue = sub[t].queue \/ sub'[t].queue = << >>
    <3>1. CASE Subscribe(s)
          BY <2>1, <3>1 DEF Subscribe, Stream
    <3>2. CASE Reconnect(s)
          BY <2>1, <3>2 DEF Reconnect, Stream
    <3> QED BY <1>10, <3>1, <3>2
  <2> QED BY <1>6, <1>10, <2>2 DEF Subscribe, Reconnect
<1> QED BY <1>1, <1>2, <1>3, <1>4, <1>5, <1>6, <1>7, <1>8, <1>9, <1>10
        DEF Next, vars, Prune, ReadHistory, LoadFails, ConfirmDelete, DeleteFails

-----------------------------------------------------------------------------
(* No holes                                                                *)

Listening(q) == \E s \in 1..Streams : sub[s].at = "open" /\ sub[s].q = q

\* A history request that was read while the stream was subscribed, and that no line
\* has overtaken, makes the page whole when its reply arrives.
CleanAt(k) ==
    load[k].clean =>
        /\ load[k].at = "read" /\ Listening(load[k].q)
        /\ \A l \in db : Followed(load[k].q, l) =>
              \/ l \in ToSet(load[k].items) \cup Coming
              \/ load[k].items # << >> /\ l < load[k].items[1]

CleanOK == \A k \in Loads : CleanAt(k)

WholeOK == TailIsWhole /\ (whole => Listening(query))

LEMMA ComingFrom ==
    \A l : l \in Coming <=> l \in pub \/ \E s \in 1..Streams : l \in ToSet(sub[s].queue)
BY DEF Coming

\* What the history does not show of the lines listed is older than its first line.
LEMMA NewestCovers ==
    ASSUME Typed, NEW q, NEW items \in UpTo(Page), Ascending(items), ToSet(items) = Newest(q),
           NEW l \in db, Listed(q, l)
    PROVE  l \in ToSet(items) \/ (items # << >> /\ l < items[1])
<1> DEFINE match == Matching(q)
           Above(x) == {m \in match : m > x}
<1>1. /\ match \subseteq 1..Len(log) /\ Len(log) \in Nat /\ l \in match
      /\ Newest(q) = {x \in match : Cardinality(Above(x)) < Page} /\ Page \in Nat \ {0}
      BY LenProperties DEF Matching, Newest, Typed, LogOK, Lines
<1>2. \A x : IsFiniteSet(Above(x)) /\ Cardinality(Above(x)) \in Nat
  <2>1. 1 \in Int /\ Len(log) \in Int
        BY <1>1
  <2>2. IsFiniteSet(1..Len(log))
        BY <2>1, FS_Interval, Zenon
  <2> QED BY <1>1, <2>2, FS_Subset, FS_CardinalityType
<1> HIDE DEF match
<1>3. PICK x \in match : \A m \in match : m <= x
  <2> DEFINE T == {Len(log) - m : m \in match}
  <2>1. T \subseteq Nat /\ T # {}
        BY <1>1
  <2> HIDE DEF T
  <2>2. Min(T) \in T /\ \A y \in T : Min(T) <= y
        BY <2>1, LeastNumber
  <2>3. PICK m \in match : Min(T) = Len(log) - m
        BY <2>2 DEF T
  <2>4. ASSUME NEW n \in match PROVE n <= m
    <3>1. Len(log) - m <= Len(log) - n
          BY <2>2, <2>3 DEF T
    <3> QED BY <1>1, <3>1
  <2> QED BY <2>4
<1>4. x \in Newest(q)
  <2>1. \A m \in match : ~(m > x)
        BY <1>1, <1>3
  <2>2. Above(x) = {}
        BY <2>1
  <2>3. Cardinality(Above(x)) = 0
        BY <2>2, FS_EmptySet
  <2> QED BY <1>1, <1>3, <2>3
<1>5. items # << >> /\ items[1] \in Newest(q)
  <2>1. items # << >>
        BY <1>4, NoElements
  <2>2. items \in Seq(1..MaxLines)
        BY ReplacedRows
  <2>3. 1 \in DOMAIN items
        BY <2>1, <2>2, EmptySeq, LenProperties
  <2> QED BY <2>1, <2>3 DEF ToSet
<1>6. ASSUME l \notin Newest(q) PROVE l < items[1]
  <2>1. ~(Cardinality(Above(l)) < Page) /\ Cardinality(Above(items[1])) < Page /\ items[1] \in match
        BY <1>1, <1>5, <1>6
  <2>2. \A m \in match : m \in Nat
        BY <1>1
  <2>3. l \in Nat /\ items[1] \in Nat
        BY <1>1, <2>1, <2>2
  <2>4. ASSUME items[1] <= l PROVE FALSE
    <3> DEFINE A == Above(l)
               B == Above(items[1])
    <3>1. \A m \in match : m > l => m > items[1]
          BY <2>4, <2>2, <2>3
    <3>2. A \subseteq B
          BY <3>1
    <3>3. IsFiniteSet(B) /\ Cardinality(A) \in Nat /\ Cardinality(B) \in Nat
          BY <1>2
    <3>4. ~(Cardinality(A) < Page) /\ Cardinality(B) < Page
          BY <2>1
    <3> HIDE DEF A, B
    <3>5. Cardinality(A) <= Cardinality(B)
          BY <3>2, <3>3, FS_Subset
    <3> QED BY <1>1, <3>3, <3>4, <3>5
  <2> QED BY <2>4, <2>3
<1> QED BY <1>5, <1>6

\* The page listens to its own filter only.
LEMMA OwnFilter == StreamsOK => \A q : Listening(q) => q = query /\ ~paused
BY DEF StreamsOK, Listening

LEMMA Nothing ==
    ASSUME \A k \in Loads : ~load'[k].clean, ~whole'
    PROVE  CleanOK' /\ WholeOK'
BY DEF CleanOK, CleanAt, WholeOK, TailIsWhole

\* What a step may do to the lines and the stream: a stored line is new and coming,
\* or was stored, and a listed line that was coming still is.
Flows ==
    /\ query' = query /\ (Listening(query) => Listening(query)')
    /\ \A l \in db' : l \in Coming' \/ (l \in db /\ \A q : Followed(q, l)' <=> Followed(q, l))
    /\ \A l \in Coming : Followed(query, l) => l \in Coming'

LEMMA CleanFlows ==
    ASSUME StreamsOK, CleanOK, Flows, NEW k \in Loads,
           load'[k].clean => load'[k] = load[k]
    PROVE  CleanAt(k)'
<1> SUFFICES ASSUME load'[k].clean PROVE CleanAt(k)'
    BY DEF CleanAt
<1>1. load'[k] = load[k] /\ load[k].clean
      OBVIOUS
<1>2. /\ load[k].at = "read" /\ Listening(load[k].q) /\ load[k].q = query
      /\ \A l \in db : Followed(load[k].q, l) =>
            \/ l \in ToSet(load[k].items) \cup Coming
            \/ load[k].items # << >> /\ l < load[k].items[1]
      BY <1>1, OwnFilter DEF CleanOK, CleanAt
<1>3. Listening(load[k].q)'
      BY <1>1, <1>2 DEF Flows, Listening
<1>4. ASSUME NEW l \in db', Followed(load[k].q, l)'
      PROVE  \/ l \in ToSet(load[k].items) \cup Coming'
             \/ load[k].items # << >> /\ l < load[k].items[1]
  <2>1. CASE l \in Coming'
        BY <2>1
  <2>2. CASE l \in db /\ \A q : Followed(q, l)' <=> Followed(q, l)
    <3>1. Followed(load[k].q, l) /\ Followed(query, l)
          BY <1>1, <1>2, <1>4, <2>2 DEF Followed, Listed, Admitted, Streamed, LevelMatches
    <3> QED BY <1>2, <2>2, <3>1 DEF Flows
  <2> QED BY <2>1, <2>2 DEF Flows
<1> QED BY <1>1, <1>2, <1>3, <1>4 DEF CleanAt

LEMMA WholeFlows ==
    ASSUME WholeOK, Flows, UNCHANGED rows, whole' => whole
    PROVE  WholeOK'
<1> SUFFICES ASSUME whole' PROVE WholeOK'
    BY DEF WholeOK, TailIsWhole
<1>1. Listening(query)'
      BY DEF WholeOK, Flows
<1>2. ASSUME Len(rows) < MaxRows, NEW l \in db', Followed(query, l)'
      PROVE  l \in Shown \cup Coming' \/ (rows # << >> /\ l < rows[1].line)
  <2>1. CASE l \in Coming'
        BY <2>1
  <2>2. CASE l \in db /\ \A q : Followed(q, l)' <=> Followed(q, l)
    <3>1. Followed(query, l)
          BY <1>2, <2>2 DEF Followed, Listed, Admitted, Streamed, LevelMatches, Flows
    <3> QED BY <1>2, <2>2, <3>1 DEF WholeOK, TailIsWhole, Flows
  <2> QED BY <2>1, <2>2 DEF Flows
<1>3. Shown' = Shown
      BY DEF Shown
<1> QED BY <1>1, <1>2, <1>3 DEF WholeOK, TailIsWhole

\* A step of the kinds above that neither reads history nor makes the page whole.
LEMMA AllFlows ==
    ASSUME StreamsOK, CleanOK, WholeOK, Flows, UNCHANGED rows, whole' => whole,
           \A k \in Loads : load'[k].clean => load'[k] = load[k]
    PROVE  CleanOK' /\ WholeOK'
BY CleanFlows, WholeFlows DEF CleanOK

\* Steps on the server's side of the table and of the bus.
LEMMA ServerWhole ==
    ASSUME Typed, StreamsOK, CleanOK, WholeOK,
           \/ \E k \in Kinds : Emit(k)
           \/ \E l \in Lines : Prune(l) \/ Deliver(l)
           \/ \E s \in 1..Streams : Subscribe(s)
           \/ DeleteFails
    PROVE  CleanOK' /\ WholeOK'
<1>1. ASSUME NEW k \in Kinds, Emit(k) PROVE CleanOK' /\ WholeOK'
  <2>1. UNCHANGED <<sub, rows, query, load, whole>> /\ log' = Append(log, k)
        BY <1>1 DEF Emit
  <2>2. db' \subseteq db \cup {Len(log')} /\ pub' = pub \cup {Len(log')}
        BY <1>1 DEF Emit
  <2>3. db \subseteq Lines /\ \A q : \A l \in Lines : Followed(q, l)' <=> Followed(q, l)
        BY <1>1, <2>1, LinesGrow DEF Typed, LogOK
  <2>4. Coming' = Coming \cup {Len(log')}
        BY <2>1, <2>2 DEF Coming
  <2>5. Flows
        BY <2>1, <2>2, <2>3, <2>4 DEF Flows, Listening
  <2> QED BY <2>1, <2>5, AllFlows
<1>2. CASE /\ db' \subseteq db /\ UNCHANGED <<log, pub, rows, query, load, whole>>
           /\ \A s \in 1..Streams : /\ sub'[s].q = sub[s].q /\ sub'[s].queue = sub[s].queue
                                    /\ sub[s].at = "open" => sub'[s].at = "open"
  <2>1. Coming' = Coming
        BY <1>2 DEF Coming
  <2>2. \A q, l : Followed(q, l)' <=> Followed(q, l)
        BY <1>2 DEF Followed, Listed, Admitted, Streamed, LevelMatches
  <2>3. Flows
        BY <1>2, <2>1, <2>2 DEF Flows, Listening
  <2> QED BY <1>2, <2>3, AllFlows
<1>3. ASSUME NEW l \in Lines, Deliver(l) PROVE CleanOK' /\ WholeOK'
  <2>1. UNCHANGED <<log, db, rows, query>> /\ pub' = pub \ {l}
        BY <1>3 DEF Deliver
  <2>2. \A k \in Loads : load'[k].clean => load'[k] = load[k]
        BY <1>3, TaintedLoads DEF Deliver, Typed
  <2>3. CASE \E s \in 1..Streams : sub[s].at = "open" /\ Full(s)
        BY <1>3, <2>3, TaintedLoads, Nothing DEF Deliver, Typed
  <2>4. CASE /\ ~\E s \in 1..Streams : sub[s].at = "open" /\ Full(s)
             /\ \E s \in 1..Streams : sub[s].at = "open"
    <3>1. PICK s \in 1..Streams : sub[s].at = "open" /\ ~Full(s)
          BY <2>4
    <3>2. l \in 1..MaxLines
          BY LenProperties DEF Typed, LogOK, Lines
    <3>3. ASSUME NEW t \in 1..Streams
          PROVE  /\ sub'[t].at = sub[t].at /\ sub'[t].q = sub[t].q
                 /\ ToSet(sub[t].queue) \subseteq ToSet(sub'[t].queue)
                 /\ t = s => l \in ToSet(sub'[t].queue)
      <4> DEFINE old == sub[t].queue
      <4>1. /\ sub'[t].at = sub[t].at /\ sub'[t].q = sub[t].q /\ old \in Seq(1..MaxLines)
            /\ sub'[t].queue = old \/ sub'[t].queue = Append(old, l)
            /\ t = s => sub'[t].queue = Append(old, l)
            BY <1>3, <3>1, DeliveredStreams
      <4> HIDE DEF old
      <4>2. old \in Seq(1..MaxLines)
            BY <4>1
      <4>3. ToSet(Append(old, l)) = ToSet(old) \cup {l}
            BY <3>2, <4>2, AppendedLine
      <4> QED BY <4>1, <4>3 DEF old
    <3>4. Coming \subseteq Coming'
          BY <2>1, <3>1, <3>3 DEF Coming
    <3>5. Flows
      <4>1. \A q, m : Followed(q, m)' <=> Followed(q, m)
            BY <2>1 DEF Followed, Listed, Admitted, Streamed, LevelMatches
      <4>2. Listening(query) => Listening(query)'
            BY <2>1, <3>3 DEF Listening
      <4> QED BY <2>1, <3>4, <4>1, <4>2 DEF Flows
    <3> QED BY <1>3, <2>1, <2>2, <2>4, <3>5, AllFlows DEF Deliver
  <2>5. CASE ~\E s \in 1..Streams : sub[s].at = "open"
    <3>1. ~whole /\ \A k \in Loads : ~load[k].clean
          BY <2>5 DEF WholeOK, CleanOK, CleanAt, Listening
    <3> QED BY <1>3, <2>2, <2>5, <3>1, Nothing DEF Deliver
  <2> QED BY <2>3, <2>4, <2>5
<1>4. ASSUME NEW s \in 1..Streams, Subscribe(s) PROVE CleanOK' /\ WholeOK'
  <2>1. sub \in [1..Streams -> Stream]
        BY DEF Typed, SubOK
  <2>2. \A t \in 1..Streams : /\ sub'[t].q = sub[t].q /\ sub'[t].queue = sub[t].queue
                              /\ sub[t].at = "open" => sub'[t].at = "open"
        BY <1>4, <2>1 DEF Subscribe, Stream
  <2> QED BY <1>2, <1>4, <2>2 DEF Subscribe
<1> QED BY <1>1, <1>2, <1>3, <1>4 DEF Prune, DeleteFails, Deleted

\* A line received goes from the queue to the rows, or is not listed.
LEMMA ReceiveWhole ==
    ASSUME Typed, StreamsOK, CleanOK, WholeOK, NEW s \in 1..Streams, Receive(s)
    PROVE  CleanOK' /\ WholeOK'
<1> DEFINE old == sub[s].queue
           l == Head(old)
           new == Append(rows, [line |-> l, live |-> TRUE])
<1>1. /\ UNCHANGED <<log, db, pub, query, paused, whole>> /\ l \in Lines
      /\ sub[s].at = "open" /\ sub[s].q = query
      /\ IF Streamed(query, l) THEN rows' = Trimmed(new) /\ load' = Tainted
                               ELSE UNCHANGED <<rows, load>>
  <2>1. sub[s].at = "open" /\ sub[s].q = query
        BY DEF Receive, StreamsOK
  <2>2. l \in Lines
        BY ReceivedStream DEF Typed, SubOK
  <2> QED BY <2>1, <2>2 DEF Receive
<1>2. ToSet(old) = ToSet(sub'[s].queue) \cup {l}
  <2>1. old \in Seq(1..MaxLines) /\ old # << >> /\ sub'[s].queue = Tail(old)
        BY ReceivedStream
  <2> HIDE DEF old
  <2> QED BY <2>1, Tailed
<1>3. /\ \A t \in 1..Streams : t # s => sub'[t] = sub[t]
      /\ sub'[s].at = sub[s].at /\ sub'[s].q = sub[s].q
      BY ReceivedStream
<1> HIDE DEF old, l
<1>4. Listening(query)'
      BY <1>1, <1>3 DEF Listening
<1>5. \A m \in Coming : m # l => m \in Coming'
  <2>1. ASSUME NEW m \in Coming, m # l PROVE m \in Coming'
    <3>1. CASE m \in pub
          BY <1>1, <3>1 DEF Coming
    <3>2. ASSUME NEW t \in 1..Streams, m \in ToSet(sub[t].queue) PROVE m \in Coming'
      <4>1. m \in ToSet(sub'[t].queue)
            BY <1>2, <1>3, <2>1, <3>2 DEF old
      <4> QED BY <4>1 DEF Coming
    <3> QED BY <3>1, <3>2 DEF Coming
  <2> QED BY <2>1
<1>6. \A q, m : Followed(q, m)' <=> Followed(q, m)
      BY <1>1 DEF Followed, Listed, Admitted, Streamed, LevelMatches
<1>7. CASE ~Streamed(query, l)
  <2>1. Flows
        BY <1>1, <1>4, <1>5, <1>6, <1>7 DEF Flows, Followed
  <2> QED BY <1>1, <1>7, <2>1, AllFlows
<1>8. CASE Streamed(query, l)
  <2>1. rows' = Trimmed(new) /\ \A k \in Loads : ~load'[k].clean
        BY <1>1, <1>8, TaintedLoads DEF Typed
  <2>2. CASE Len(rows') = MaxRows
        BY <1>4, <2>1, <2>2 DEF CleanOK, CleanAt, WholeOK, TailIsWhole
  <2>3. CASE Len(rows') # MaxRows
    <3>1. /\ rows' = new /\ Len(new) = Len(rows) + 1 /\ Len(rows) \in Nat /\ Len(new) <= MaxRows
          /\ \A i \in 1..Len(rows) : new[i] = rows[i]
          /\ new[Len(rows) + 1] = [line |-> l, live |-> TRUE] /\ MaxRows \in Nat
          BY <1>1, <2>1, <2>3, ReceivedRows
    <3> HIDE DEF new
    <3>2. Shown \cup {l} \subseteq Shown'
      <4>1. l \in Shown'
        <5>1. Len(rows) + 1 \in 1..Len(rows') /\ rows'[Len(rows) + 1].line = l
              BY <3>1
        <5> QED BY <5>1 DEF Shown
      <4>2. ASSUME NEW i \in 1..Len(rows) PROVE rows[i].line \in Shown'
        <5>1. i \in 1..Len(rows') /\ rows'[i] = rows[i]
              BY <3>1
        <5> QED BY <5>1 DEF Shown
      <4> QED BY <4>1, <4>2 DEF Shown
    <3>3. ASSUME whole', NEW m \in db', Followed(query, m)'
          PROVE  m \in Shown' \cup Coming' \/ (rows' # << >> /\ m < rows'[1].line)
      <4>1. m \in Shown \cup Coming \/ (rows # << >> /\ m < rows[1].line)
        <5>1. whole /\ m \in db /\ Followed(query, m)
              BY <1>1, <1>6, <3>3 DEF Followed, Listed, Admitted, Streamed, LevelMatches
        <5>2. Len(rows) < MaxRows
              BY <3>1
        <5> QED BY <5>1, <5>2 DEF WholeOK, TailIsWhole
      <4>2. CASE m \in Shown \cup Coming
            BY <1>5, <3>2, <4>2
      <4>3. CASE rows # << >> /\ m < rows[1].line
        <5>1. Len(rows) # 0
              BY <4>3, EmptySeq DEF Typed, RowsOK
        <5>2. 1 \in 1..Len(rows) /\ Len(rows') # 0
              BY <3>1, <5>1
        <5>3. rows'[1] = rows[1] /\ rows' # << >>
              BY <3>1, <5>2, EmptySeq
        <5> QED BY <4>3, <5>3
      <4> QED BY <4>1, <4>2, <4>3
    <3> QED BY <1>4, <2>1, <3>3 DEF CleanOK, CleanAt, WholeOK, TailIsWhole
  <2> QED BY <2>2, <2>3
<1> QED BY <1>7, <1>8

\* What a request reads is the history of its filter, whole up to its first line.
LEMMA ReadWhole ==
    ASSUME Typed, StreamsOK, CleanOK, WholeOK, NEW k \in Loads, ReadHistory(k)
    PROVE  CleanOK' /\ WholeOK'
<1>1. UNCHANGED <<log, db, pub, sub, rows, query, whole>>
      BY DEF ReadHistory
<1>2. PICK items \in UpTo(Page) :
          /\ Ascending(items) /\ ToSet(items) = Newest(load[k].q)
          /\ \A j \in Loads : j # k => load'[j] = load[j]
          /\ load'[k].at = "read" /\ load'[k].q = load[k].q /\ load'[k].items = items
          /\ load'[k].clean => Listening(load[k].q)
      BY ReadLoad DEF Listening
<1>3. Coming' = Coming /\ \A q, m : Followed(q, m)' <=> Followed(q, m)
      BY <1>1 DEF Coming, Followed, Listed, Admitted, Streamed, LevelMatches
<1>4. Flows
      BY <1>1, <1>3 DEF Flows, Listening
<1>5. WholeOK'
      BY <1>1, <1>4, WholeFlows
<1>6. ASSUME NEW j \in Loads, j # k PROVE CleanAt(j)'
      BY <1>2, <1>4, <1>6, CleanFlows
<1>7. CleanAt(k)'
  <2> DEFINE q == load[k].q
  <2>1. \A l \in db : Followed(q, l) => l \in ToSet(items) \/ (items # << >> /\ l < items[1])
        BY <1>2, NewestCovers DEF Followed
  <2>2. \A l \in db' : Followed(load[k].q, l)' => Followed(q, l) /\ l \in db
        BY <1>1, <1>2, <1>3 DEF Followed, Listed, Admitted, Streamed, LevelMatches
  <2>3. load'[k].clean => Listening(load[k].q)'
        BY <1>1, <1>2 DEF Listening
  <2> QED BY <1>1, <1>2, <1>3, <2>1, <2>2, <2>3 DEF CleanAt, Listening
<1> QED BY <1>5, <1>6, <1>7 DEF CleanOK

\* The reply of a request that is clean makes the page whole.
LEMMA ArriveWhole ==
    ASSUME Typed, StreamsOK, CleanOK, WholeOK, NEW k \in Loads, Arrive(k)
    PROVE  CleanOK' /\ WholeOK'
<1> DEFINE items == load[k].items
<1>1. /\ UNCHANGED <<log, db, pub, sub, query>> /\ items \in UpTo(Page)
      /\ rows' = Replaced(items) /\ whole' = load[k].clean
      BY DEF Arrive, Typed, LoadsOK, Load
<1>2. Coming' = Coming /\ \A q, m : Followed(q, m)' <=> Followed(q, m)
      BY <1>1 DEF Coming, Followed, Listed, Admitted, Streamed, LevelMatches
<1>3. Flows
      BY <1>1, <1>2 DEF Flows, Listening
<1>4. \A j \in Loads : load'[j].clean => load'[j] = load[j]
      BY ArrivedLoad, Starts
<1>5. CleanOK'
      BY <1>3, <1>4, CleanFlows DEF CleanOK
<1>6. CASE ~load[k].clean
      BY <1>1, <1>5, <1>6 DEF WholeOK, TailIsWhole
<1>7. CASE load[k].clean
  <2>1. /\ Listening(query) /\ load[k].q = query
        /\ \A l \in db : Followed(query, l) =>
              \/ l \in ToSet(items) \cup Coming
              \/ items # << >> /\ l < items[1]
        BY <1>7, OwnFilter DEF CleanOK, CleanAt
  <2> HIDE DEF items
  <2>2. /\ items \in Seq(1..MaxLines) /\ DOMAIN items = 1..Len(items)
        /\ Replaced(items) \in Seq(Row) /\ Len(Replaced(items)) = Len(items)
        /\ \A i \in 1..Len(items) : Replaced(items)[i] = [line |-> items[i], live |-> FALSE]
        /\ Len(items) \in Nat
        BY <1>1, ReplacedRows
  <2>3. ToSet(items) \subseteq Shown'
    <3>1. ASSUME NEW i \in 1..Len(items) PROVE items[i] \in Shown'
      <4>1. i \in 1..Len(rows') /\ rows'[i] = [line |-> items[i], live |-> FALSE]
            BY <1>1, <2>2
      <4>2. rows'[i].line = items[i]
            BY <4>1
      <4> QED BY <4>1, <4>2 DEF Shown
    <3> QED BY <2>2, <3>1 DEF ToSet
  <2>4. items # << >> => rows' # << >> /\ rows'[1].line = items[1]
    <3>1. ASSUME items # << >> PROVE rows' # << >> /\ rows'[1].line = items[1]
      <4>1. Len(items) # 0
            BY <2>2, <3>1, EmptySeq
      <4>2. 1 \in 1..Len(items)
            BY <2>2, <4>1
      <4>3. rows'[1] = [line |-> items[1], live |-> FALSE]
            BY <1>1, <2>2, <4>2
      <4>4. rows' # << >>
            BY <1>1, <2>2, <4>1, EmptySeq
      <4> QED BY <4>3, <4>4
    <3> QED BY <3>1
  <2>5. ASSUME NEW l \in db', Followed(query, l)'
        PROVE  l \in Shown' \cup Coming' \/ (rows' # << >> /\ l < rows'[1].line)
    <3>1. l \in db /\ Followed(query, l)
          BY <1>1, <2>5 DEF Followed, Listed, Admitted, Streamed, LevelMatches
    <3>2. CASE l \in ToSet(items) \cup Coming
          BY <1>2, <2>3, <3>2
    <3>3. CASE items # << >> /\ l < items[1]
          BY <2>4, <3>3
    <3> QED BY <2>1, <3>1, <3>2, <3>3
  <2>6. Listening(query)'
        BY <1>1, <2>1 DEF Listening
  <2> QED BY <1>5, <2>5, <2>6 DEF WholeOK, TailIsWhole
<1> QED BY <1>6, <1>7

LEMMA NextWhole ==
    Typed /\ StreamsOK /\ CleanOK /\ WholeOK /\ [Next]_vars => CleanOK' /\ WholeOK'
<1> SUFFICES ASSUME Typed, StreamsOK, CleanOK, WholeOK, [Next]_vars
             PROVE  CleanOK' /\ WholeOK'
    OBVIOUS
<1>1. CASE UNCHANGED <<log, db, pub, sub, rows, query, whole>>
           /\ \A k \in Loads : load'[k].clean => load'[k] = load[k]
  <2>1. Coming' = Coming /\ \A q, m : Followed(q, m)' <=> Followed(q, m)
        BY <1>1 DEF Coming, Followed, Listed, Admitted, Streamed, LevelMatches
  <2>2. Flows
        BY <1>1, <2>1 DEF Flows, Listening
  <2> QED BY <1>1, <2>2, AllFlows
<1>2. ASSUME NEW k \in Loads, LoadFails(k) PROVE CleanOK' /\ WholeOK'
  <2>1. \A j \in Loads : load'[j].clean => load'[j] = load[j]
        BY <1>2, ArrivedLoad, Starts
  <2> QED BY <1>1, <1>2, <2>1 DEF LoadFails
<1>3. CASE load' = Tainted /\ whole' = FALSE
      BY <1>3, TaintedLoads, Nothing DEF Typed
<1>4. CASE Resume
  <2>1. ~whole /\ \A k \in Loads : ~load[k].clean
        BY <1>4, OwnFilter DEF Resume, WholeOK, CleanOK, CleanAt
  <2> QED BY <1>4, <2>1, Nothing DEF Resume
<1>5. ASSUME NEW k \in Loads, DeleteReply(k) PROVE CleanOK' /\ WholeOK'
  <2>1. whole' = FALSE /\ del.q \in Queries /\ load' = [Tainted EXCEPT ![k] = Sent(del.q)]
        BY <1>5 DEF DeleteReply, Typed, DelOK
  <2>2. load'[k].clean = FALSE /\ \A j \in Loads : j # k => load'[j] = Tainted[j]
        BY <2>1, SentLoad, TaintedLoads DEF Typed
  <2>3. \A j \in Loads : ~load'[j].clean
        BY <2>2, TaintedLoads DEF Typed
  <2> QED BY <2>1, <2>3, Nothing
<1>6. ASSUME NEW q \in Queries, NEW k \in Loads, ChangeFilter(q, k)
      PROVE  CleanOK' /\ WholeOK'
  <2>1. CASE whole' = FALSE /\ \A j \in Loads : load'[j].clean = FALSE
        BY <2>1, Nothing
  <2>2. CASE sub' = sub /\ (q = query \/ paused) /\ whole' = whole
    <3>1. /\ load' = [load EXCEPT ![k] = Sent(q)] /\ load \in [Loads -> Load]
          /\ UNCHANGED <<log, db, pub, rows>> /\ query' = q
          BY <1>6, <2>2 DEF ChangeFilter, Typed, LoadsOK
    <3>2. /\ \A j \in Loads : load'[j].clean => load'[j] = load[j]
          /\ load'[k].clean = FALSE
          BY <3>1, SentLoad
    <3>3. CASE q = query
          BY <1>1, <2>2, <3>1, <3>2, <3>3
    <3>4. CASE paused
      <4>1. ~whole /\ \A j \in Loads : ~load[j].clean
            BY <3>4, OwnFilter DEF WholeOK, CleanOK, CleanAt
      <4> QED BY <2>2, <3>2, <4>1, Nothing
    <3> QED BY <2>2, <3>3, <3>4
  <2> QED BY <1>6, <2>1, <2>2, ChangedStreams
<1> QED BY <1>1, <1>2, <1>3, <1>4, <1>5, <1>6, ServerWhole, ReceiveWhole, ReadWhole, ArriveWhole
        DEF Next, vars, Pause, Reconnect, ConfirmDelete

-----------------------------------------------------------------------------
(* Theorems                                                                *)

\* The inductive invariant: no two streams, requests that hold what their filter lists,
\* lines that are in one place, and nothing lost that a clean request or a whole page
\* relies on.
Consistent ==
    /\ Typed /\ StreamsOK /\ ReadsOK /\ RowsOfTheFilter
    /\ QueuesOnce /\ OnceByTheStream /\ CleanOK /\ WholeOK

LEMMA InitConsistent == Init => Consistent
<1> SUFFICES ASSUME Init PROVE Consistent
    OBVIOUS
<1>1. /\ log = << >> /\ db = {} /\ pub = {} /\ rows = << >> /\ paused = FALSE
      /\ query = Everything /\ del = NoDelete /\ last = Failure /\ whole = FALSE
      /\ sub = Reopen(Everything) /\ Everything \in Queries
      BY DEF Init, Reopen
<1>2. /\ load \in [Loads -> Load]
      /\ \A k \in Loads : /\ load[k].at # "read" /\ load[k].items = << >> /\ ~load[k].clean
  <2>1. [NoLoad EXCEPT !.at = "sent"] \in Load
        BY Starts DEF Load
  <2>2. PICK k \in Loads :
            load = [j \in Loads |-> IF j = k THEN [NoLoad EXCEPT !.at = "sent"] ELSE NoLoad]
        BY DEF Init
  <2> QED BY <2>1, <2>2, Starts DEF Load, NoLoad
<1>3. PICK n \in 1..Streams :
          /\ sub \in [1..Streams -> Stream]
          /\ sub[n].at = "opening" /\ sub[n].q = Everything
          /\ \A s \in 1..Streams : sub[s].queue = << >>
          /\ \A s \in 1..Streams : s # n => sub[s].at = "free"
  <2>1. Everything \in Queries /\ sub = Reopen(Everything)
        BY <1>1
  <2>2. \E n \in 1..Streams :
            /\ Reopen(Everything) \in [1..Streams -> Stream]
            /\ Reopen(Everything)[n].at = "opening" /\ Reopen(Everything)[n].q = Everything
            /\ \A s \in 1..Streams : Reopen(Everything)[s].queue = << >>
            /\ \A s \in 1..Streams : s # n => Reopen(Everything)[s].at = "free"
        BY <2>1, OpenedStream
  <2> QED BY <2>1, <2>2
<1>4. Len(log) = 0 /\ Len(rows) = 0 /\ log \in Seq(Kinds) /\ rows \in Seq(Row)
      BY <1>1, EmptySeq
<1>5. Shown = {} /\ LiveLines = {}
      BY <1>4 DEF Shown, LiveLines
<1>6. Typed
  <2>1. LogOK
        BY <1>1, <1>4 DEF LogOK
  <2>2. SubOK
        BY <1>3, NoElements DEF SubOK
  <2>3. RowsOK
    <3>1. MaxRows \in Nat /\ Len(rows) <= MaxRows
          BY <1>4
    <3> QED BY <1>1, <1>4, <1>5, <3>1 DEF RowsOK
  <2>4. LoadsOK
        BY <1>1, <1>2, NoElements DEF LoadsOK
  <2>5. DelOK
        BY <1>1 DEF DelOK, NoDelete
  <2> QED BY <2>1, <2>2, <2>3, <2>4, <2>5 DEF Typed
<1>7. StreamsOK
      BY <1>1, <1>3 DEF StreamsOK
<1>8. ReadsOK /\ CleanOK
      BY <1>2 DEF ReadsOK, CleanOK, CleanAt
<1>9. RowsOfTheFilter /\ OnceByTheStream
      BY <1>4, <1>5 DEF RowsOfTheFilter, OnceByTheStream
<1>10. QueuesOnce
      BY <1>1, <1>3, <1>5, EmptyInjective, NoElements DEF QueuesOnce
<1>11. WholeOK
      BY <1>1 DEF WholeOK, TailIsWhole
<1> QED BY <1>6, <1>7, <1>8, <1>9, <1>10, <1>11 DEF Consistent

LEMMA NextConsistent == Consistent /\ [Next]_vars => Consistent'
BY NextTyped, NextStreams, NextReads, NextRows, NextOnce, NextWhole DEF Consistent

\* The inductive invariant holds in every state of the log and its page.
THEOREM AlwaysConsistent == Spec => []Consistent
BY InitConsistent, NextConsistent, PTL DEF Spec

\* Type correctness: whatever is logged, pruned, deleted and streamed, the page keeps at
\* most MaxRows rows, a page of history and a queue hold what they may (LogsPage.tsx,
\* log_bus.py).
THEOREM TypeCorrect == Spec => []TypeOK
<1>1. Consistent => TypeOK
      BY TypesFollow DEF Consistent
<1> QED BY <1>1, AlwaysConsistent, PTL

\* Once the requests are answered, and the one answered last was for the filter of the
\* page, every row is of its levels and of its logger as LIKE reads it: no reply and no stream of an earlier
\* filter leaves a row behind (LogsPage.tsx, useLogStream.ts).
THEOREM FilterShown == Spec => []RowsOfTheFilter
<1>1. Consistent => RowsOfTheFilter
      BY DEF Consistent
<1> QED BY <1>1, AlwaysConsistent, PTL

\* No line is streamed twice to a page, however often its stream is closed and opened
\* again: two streams never feed it (useLogStream.ts).
THEOREM StreamedOnce == Spec => []OnceByTheStream
<1>1. Consistent => OnceByTheStream
      BY DEF Consistent
<1> QED BY <1>1, AlwaysConsistent, PTL

\* History and stream leave no hole: after a history read under an open stream that no
\* received line has overtaken, every line of the table that both list_logs and the
\* stream let through and that is not older than the page is on it or on its way
\* (logs.py, log_bus.py, LogsPage.tsx).
THEOREM NoHoles == Spec => []TailIsWhole
<1>1. Consistent => TailIsWhole
      BY DEF Consistent, WholeOK
<1> QED BY <1>1, AlwaysConsistent, PTL
=============================================================================

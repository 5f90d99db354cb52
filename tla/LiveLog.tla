------------------------------ MODULE LiveLog -------------------------------
(***************************************************************************)
(* LiveLog: a log line from the logger to the log page.  The DB handler    *)
(* stores it (logging_config.py), the bus fans it out to the open streams  *)
(* (log_bus.py, api/logs.py), and a page of the console puts together the  *)
(* history it fetches and the stream it tails (LogsPage.tsx,               *)
(* useLogStream.ts, LogFilterBar.tsx), while lines are deleted and pruned. *)
(*                                                                         *)
(* Handlers run one after the other on a thread: a line is stored before   *)
(* it is published, and between the two anything may happen.  The page's   *)
(* requests are answered in any order.                                     *)
(***************************************************************************)
EXTENDS Naturals, Sequences, FiniteSets, SequencesExt

CONSTANTS
    LoggerPrefixes,  \* what the user may type as a logger name's prefix
    Kinds,     \* the lines the properties tell apart (see Kind)
    Queries,   \* the filters the user sets: levels, logger, search
    Page,      \* lines of a history page (limit, 50)
    MaxRows,   \* rows the page keeps (2000)
    QueueMax,  \* lines a subscriber's queue holds (QUEUE_MAXSIZE, 500)
    MaxLines,  \* bound: lines logged
    Streams,   \* bound: streams the page listens to
    Loads      \* bound: the page's history requests at a time

Levels == {"INFO", "ERROR"}
AnyLogger == ""
Everything == [levels |-> {}, logger |-> AnyLogger, search |-> FALSE]

\* A line by its level, the prefixes its logger's name starts with, those LIKE
\* 'prefix%' finds it by, and whether its message holds the search text.
Kind == [level : Levels, starts : SUBSET LoggerPrefixes, like : SUBSET LoggerPrefixes,
         found : BOOLEAN]

\* SQLite's LIKE takes 'A' for 'a', % and _ for anything: it finds more names.
ASSUME LiveLogAssumption ==
    /\ Kinds \subseteq {k \in Kind : k.starts \subseteq k.like}
    /\ Queries \subseteq [levels : SUBSET Levels, logger : LoggerPrefixes \cup {AnyLogger},
                          search : BOOLEAN]
    /\ Everything \in Queries
    /\ {Page, MaxRows, QueueMax, MaxLines, Streams} \subseteq Nat \ {0}
    /\ Page <= MaxRows /\ Loads # {}

VARIABLES
    log,     \* the lines logged, in the order they were created
    db,      \* the lines in the LogEntry table
    pub,     \* the lines past the DB handler and not yet delivered
    sub,     \* sub[s]: a stream the page listens to and its server queue
    rows,    \* the rows of the page: line, and whether it came by the stream
    query,   \* the page's filter
    paused,  \* whether the page has closed its stream
    load,    \* load[k]: a history request of the page
    del,     \* the delete request of the page
    last,    \* history: the query of the reply that came last, since the last request
    whole    \* history: nothing has happened since that leaves a hole

server == <<log, db, pub>>
view == <<rows, query, paused>>
vars == <<server, sub, view, load, del, last, whole>>

Lines == 1..Len(log)
NoStream == [at |-> "free", q |-> Everything, queue |-> << >>]
NoLoad == [at |-> "free", q |-> Everything, items |-> << >>, clean |-> FALSE]
NoDelete == [at |-> "none", q |-> Everything, cut |-> 0]
Failure == [Everything EXCEPT !.levels = {"error"}]

UpTo(n) == UNION {[1..m -> 1..MaxLines] : m \in 0..n}
Row == [line : 1..MaxLines, live : BOOLEAN]
Stream == [at : {"free", "opening", "open"}, q : Queries, queue : UpTo(QueueMax)]
Load == [at : {"free", "sent", "read"}, q : Queries, items : UpTo(Page),
         clean : BOOLEAN]

\* The page never holds more than MaxRows rows: history replaces the rows.
TypeOK ==
    /\ log \in Seq(Kinds) /\ Len(log) <= MaxLines
    /\ db \subseteq Lines /\ pub \subseteq Lines
    /\ sub \in [1..Streams -> Stream]
    /\ rows \in Seq(Row) /\ Len(rows) <= MaxRows
    /\ query \in Queries /\ paused \in BOOLEAN
    /\ load \in [Loads -> Load]
    /\ del \in [at : {"none", "sent"}, q : Queries, cut : 0..MaxLines]
    /\ last \in Queries \cup {Failure} /\ whole \in BOOLEAN

\* The history and the stream read a filter each in its own way.  Both take the
\* config and the levels alike; the page is an admin's, whom no owner restricts.
LevelMatches(q, l) == q.levels = {} \/ log[l].level \in q.levels

\* _record_matches: the logger by startswith.
Streamed(q, l) == LevelMatches(q, l) /\ q.logger \in {AnyLogger} \cup log[l].starts

\* The query of list_logs finds the logger by LIKE.
Admitted(q, l) == LevelMatches(q, l) /\ q.logger \in {AnyLogger} \cup log[l].like

\* It also looks at the search text (and since and until), the stream does not.
Listed(q, l) == Admitted(q, l) /\ (q.search => log[l].found)

-----------------------------------------------------------------------------
(* The server's log and the streams                                        *)

\* A handler on some thread stores the line and will publish it; a failing
\* insert is swallowed.
Emit(k) ==
    /\ Len(log) < MaxLines
    /\ log' = Append(log, k)
    /\ \/ db' = db \cup {Len(log')}
       \/ db' = db
    /\ pub' = pub \cup {Len(log')}
    /\ UNCHANGED <<sub, view, load, del, last, whole>>

\* log_pruner: the lines up to cut are expired or over the row cap.
Prune(cut) ==
    /\ cut \in db
    /\ db' = {l \in db : l > cut}
    /\ UNCHANGED <<log, pub, sub, view, load, del, last, whole>>

\* Where the history requests stand once lines may have passed them by.
Tainted == [k \in Loads |-> [load[k] EXCEPT !.clean = FALSE]]

Full(s) == Len(sub[s].queue) >= QueueMax

\* _deliver, on the event loop: a full queue drops the line.
Deliver(l) ==
    /\ l \in pub
    /\ pub' = pub \ {l}
    /\ sub' = [s \in 1..Streams |->
                   IF sub[s].at = "open" /\ ~Full(s)
                   THEN [sub[s] EXCEPT !.queue = Append(@, l)] ELSE sub[s]]
    /\ IF \E s \in 1..Streams : sub[s].at = "open" /\ Full(s)
       THEN load' = Tainted /\ whole' = FALSE
       ELSE UNCHANGED <<load, whole>>
    /\ UNCHANGED <<log, db, view, del, last>>

\* The request arrives and its generator subscribes to the bus.
Subscribe(s) ==
    /\ sub[s].at = "opening"
    /\ sub' = [sub EXCEPT ![s].at = "open"]
    /\ UNCHANGED <<server, view, load, del, last, whole>>

\* The newest MaxRows of the rows.
Trimmed(rs) == IF Len(rs) > MaxRows THEN Tail(rs) ELSE rs

\* The generator takes the next line, sends it if it matches, and the page
\* appends it (onLog).
Receive(s) ==
    /\ sub[s].queue # << >>
    /\ sub' = [sub EXCEPT ![s].queue = Tail(@)]
    /\ LET l == Head(sub[s].queue)
       IN  IF Streamed(sub[s].q, l)
           THEN /\ rows' = Trimmed(Append(rows, [line |-> l, live |-> TRUE]))
                /\ load' = Tainted
           ELSE UNCHANGED <<rows, load>>
    /\ UNCHANGED <<server, query, paused, del, last, whole>>

-----------------------------------------------------------------------------
(* The page's stream                                                       *)

\* The listener is removed and the connection closed; what the server still
\* holds for it is lost.
Close == [s \in 1..Streams |-> NoStream]

\* A new EventSource for query q beside the streams ss.
Open(ss, q) ==
    LET free == {s \in 1..Streams : ss[s].at = "free"}
        s == CHOOSE s \in free : \A t \in free : s <= t
    IN  IF free = {} THEN ss
        ELSE [ss EXCEPT ![s] = [NoStream EXCEPT !.at = "opening", !.q = q]]

\* Mutant: the effect has no cleanup.
OpenAnother(q) == Open(sub, q)

\* The effect runs again: the stream is closed before the next is opened.
Reopen(q) == Open(Close, q)

\* On mount the page opens its stream and requests the history.
Init ==
    /\ log = << >> /\ db = {} /\ pub = {}
    /\ sub = Open(Close, Everything)
    /\ rows = << >> /\ query = Everything /\ paused = FALSE
    /\ \E k \in Loads : load = [j \in Loads |-> IF j = k THEN [NoLoad EXCEPT !.at = "sent"]
                                                      ELSE NoLoad]
    /\ del = NoDelete /\ last = Failure /\ whole = FALSE

\* The button, or scrolling up in a list that is at its bottom; scrolling back
\* does not resume.
Pause ==
    /\ ~paused /\ paused' = TRUE
    /\ sub' = Close
    /\ load' = Tainted /\ whole' = FALSE
    /\ UNCHANGED <<server, rows, query, del, last>>

Resume ==
    /\ paused /\ paused' = FALSE
    /\ sub' = Reopen(query)
    /\ UNCHANGED <<server, rows, query, load, del, last, whole>>

\* The connection breaks; the EventSource makes another.
Reconnect(s) ==
    /\ sub[s].at = "open"
    /\ sub' = [sub EXCEPT ![s].at = "opening", ![s].queue = << >>]
    /\ load' = Tainted /\ whole' = FALSE
    /\ UNCHANGED <<server, view, del, last>>

-----------------------------------------------------------------------------
(* The page's history and filter                                           *)

FreeLoad(k) == load[k].at = "free"

Sent(q) == [NoLoad EXCEPT !.at = "sent", !.q = q]

\* A control of the filter bar, or Reset: the stream is opened anew if the
\* query is another one, and the history is loaded again in any case.
ChangeFilter(q, k) ==
    /\ FreeLoad(k)
    /\ query' = q
    /\ IF q = query \/ paused
       THEN load' = [load EXCEPT ![k] = Sent(q)] /\ UNCHANGED <<sub, whole>>
       ELSE /\ sub' = Reopen(q)
            /\ load' = [Tainted EXCEPT ![k] = Sent(q)]
            /\ whole' = FALSE
    /\ last' = Failure
    /\ UNCHANGED <<server, rows, paused, del>>

Matching(q) == {l \in db : Listed(q, l)}

\* Mutant: the page of the oldest lines.
Oldest(q) == {l \in Matching(q) : Cardinality({m \in Matching(q) : m < l}) < Page}

\* The newest Page lines of the table the query lets through.
Newest(q) == {l \in Matching(q) : Cardinality({m \in Matching(q) : m > l}) < Page}

Ascending(s) == \A i, j \in DOMAIN s : i < j => s[i] < s[j]

\* list_logs; its order, the newest first, is reversed by the page.
ReadHistory(k) ==
    /\ load[k].at = "sent"
    /\ \E items \in UpTo(Page) :
          /\ Ascending(items) /\ ToSet(items) = Newest(load[k].q)
          /\ load' = [load EXCEPT ![k] =
                 [@ EXCEPT !.at = "read", !.items = items,
                           !.clean = \E s \in 1..Streams :
                                        sub[s].at = "open" /\ sub[s].q = load[k].q]]
    /\ UNCHANGED <<server, sub, view, del, last, whole>>

\* Mutant: the rows on the page are kept below the history.
Prepended(items) == [i \in 1..Len(items) |-> [line |-> items[i], live |-> FALSE]] \o rows

\* clear, then prepend: whatever the page showed is gone.
Replaced(items) == [i \in 1..Len(items) |-> [line |-> items[i], live |-> FALSE]]

Arrive(k) ==
    /\ load[k].at = "read"
    /\ rows' = Replaced(load[k].items)
    /\ load' = [load EXCEPT ![k] = NoLoad]
    /\ last' = load[k].q /\ whole' = load[k].clean
    /\ UNCHANGED <<server, sub, query, paused, del>>

\* The request or its reply is lost: an error, and the rows stay.
LoadFails(k) ==
    /\ load[k].at # "free"
    /\ load' = [load EXCEPT ![k] = NoLoad]
    /\ last' = Failure
    /\ UNCHANGED <<server, sub, view, del, whole>>

\* The delete dialog: all lines created up to now go, and the history is to be
\* loaded again with the query of this moment.
ConfirmDelete ==
    /\ del = NoDelete
    /\ del' = [at |-> "sent", q |-> query, cut |-> Len(log)]
    /\ UNCHANGED <<server, sub, view, load, last, whole>>

Deleted == {l \in db : l > del.cut}

DeleteReply(k) ==
    /\ del # NoDelete /\ FreeLoad(k)
    /\ db' = Deleted
    /\ rows' = << >>
    /\ load' = [Tainted EXCEPT ![k] = Sent(del.q)]
    /\ del' = NoDelete /\ last' = Failure /\ whole' = FALSE
    /\ UNCHANGED <<log, pub, sub, query, paused>>

\* The lines are deleted or not; the dialog stays and may be confirmed again.
DeleteFails ==
    /\ del # NoDelete
    /\ db' \in {db, Deleted}
    /\ del' = NoDelete
    /\ UNCHANGED <<log, pub, sub, view, load, last, whole>>

-----------------------------------------------------------------------------
Next ==
    \/ \E k \in Kinds : Emit(k)
    \/ \E l \in Lines : Deliver(l) \/ Prune(l)
    \/ \E s \in 1..Streams : Subscribe(s) \/ Receive(s) \/ Reconnect(s)
    \/ Pause \/ Resume \/ ConfirmDelete \/ DeleteFails
    \/ \E k \in Loads : \/ ReadHistory(k) \/ Arrive(k) \/ LoadFails(k)
                           \/ DeleteReply(k)
                           \/ \E q \in Queries : ChangeFilter(q, k)

Spec == Init /\ [][Next]_vars

-----------------------------------------------------------------------------
(* Properties                                                              *)

Shown == {rows[i].line : i \in 1..Len(rows)}
Coming == pub \cup UNION {ToSet(sub[s].queue) : s \in 1..Streams}

\* The lines both ways of reading the filter let through.  The others that are
\* listed, by a logger prefix in another case or with a wildcard, the page only
\* gets with a history that is read after them.
Followed(q, l) == Listed(q, l) /\ Streamed(q, l)

\* History and stream together make a log without holes: once history has
\* arrived that was read while the stream was subscribed, and no line was
\* received in between (clear would have wiped it), every stored line that
\* both list_logs and the stream let through and that is not older than the
\* page is on it or on its way, until the stream is interrupted or a queue
\* overflows.
TailIsWhole ==
    whole /\ Len(rows) < MaxRows =>
        \A l \in db : Followed(query, l) =>
            \/ l \in Shown \cup Coming
            \/ rows # << >> /\ l < rows[1].line

\* With no request under way, the rows are of the levels and the logger of the
\* filter (as LIKE reads it, for startswith reads it more narrowly) if the reply
\* that came last was for this filter: rows of an earlier one, and the lines its
\* stream brought, are gone.
RowsOfTheFilter ==
    (\A k \in Loads : load[k].at = "free") /\ last = query =>
        \A l \in Shown : Admitted(query, l)

\* A line is on the page at most twice, once by history and once by the
\* stream: however often the stream is closed and opened again, no two
\* streams feed the page.
OnceByTheStream ==
    \A i, j \in 1..Len(rows) :
        rows[i].line = rows[j].line /\ rows[i].live = rows[j].live => i = j
=============================================================================

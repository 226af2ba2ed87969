------------------------------ MODULE EventStream ------------------------------
(***************************************************************************)
(* How a deploy's events reach its viewers: the writer's side of           *)
(* crates/core/src/deploy/run.rs (store, then publish), the hub of         *)
(* crates/daemon/src/hub.rs (a bounded broadcast ring), and the SSE        *)
(* handler of crates/daemon/src/stream.rs with the page and the browser's  *)
(* EventSource around it.                                                  *)
(*                                                                         *)
(* An event's id is its position in the events table.  The hub is the      *)
(* sequence of ids published since the daemon started; a receiver is a     *)
(* position in it, and what lies more than Capacity behind its end is      *)
(* overwritten.                                                            *)
(***************************************************************************)
EXTENDS Naturals, Sequences, FiniteSets

CONSTANTS
    Deploys,      \* deploy ids
    Viewers,      \* browser tabs and API clients, one connection each
    Foreign,      \* the deploys a CLI process runs, publishing to its NullSink
    Capacity,     \* CAPACITY of the ring
    MaxEvents,    \* bound: rows of the events table
    MaxDrops,     \* bound: connections lost, and daemon deaths
    Refusals      \* BOOLEAN: reserve may refuse a row and end it silently

ASSUME StreamAssumption ==
    /\ Foreign \subseteq Deploys
    /\ Capacity \in Nat \ {0}
    /\ MaxEvents \in Nat /\ MaxDrops \in Nat
    /\ Refusals \in BOOLEAN

VARIABLES
    log,          \* table events: [deploy, finished], in id order
    rows,         \* per deploy: the ids of its rows in it, as events_for reads them
    status,       \* the status column of each deploy's row
    unsent,       \* per deploy: the id its writer has stored and not published
    up,           \* the daemon is listening
    sent,         \* ids published by this daemon
    viewer,       \* per viewer: the connection and what its page shows
    drops         \* drops so far

vars == <<log, rows, status, unsent, up, sent, viewer, drops>>

writerVars == <<log, rows, status, unsent, up, sent>>

------------------------------------------------------------------------------
Id == Nat

Viewer == [deploy : Deploys,
           pc : {"new", "page", "away", "row", "backlog", "yield", "recv",
                 "lagged", "gone"},
           pos : Nat \ {0},            \* next message of `rx`
           terminal : BOOLEAN,         \* already_terminal, from the row read
           queue : Seq(Id),            \* what is left of the rows just read
           last : Id,                  \* last_sent
           header : Id,                \* Last-Event-ID, or the page's ?resume=
           seen : Seq(Id)]             \* the rows the client shows

LastId(ids) == IF ids = <<>> THEN 0 ELSE ids[Len(ids)]

LesserOf(m, n) == IF m < n THEN m ELSE n

IsFinished(i) == log[i].finished

At(v, pc) == viewer[v].pc = pc

Connected(v) == viewer[v].pc \in {"row", "backlog", "yield", "recv", "lagged"}

\* EventSource keeps what it has, and asks again from there.
Closed(rec) == [rec EXCEPT !.pc = "away", !.pos = 1, !.terminal = FALSE,
                           !.queue = <<>>, !.last = 0]

Init ==
    /\ log = <<>>
    /\ rows = [d \in Deploys |-> <<>>]
    /\ status = [d \in Deploys |-> "none"]
    /\ unsent = [d \in Deploys |-> 0]
    /\ up = TRUE
    /\ sent = <<>>
    /\ viewer \in [Viewers -> {[deploy |-> d, pc |-> "new", pos |-> 1,
                                terminal |-> FALSE, queue |-> <<>>, last |-> 0,
                                header |-> 0, seen |-> <<>>] : d \in Deploys}]
    /\ drops = 0

------------------------------------------------------------------------------
(* The writer of a deploy *)

Create(d) ==
    /\ up
    /\ status[d] = "none"
    /\ status' = [status EXCEPT ![d] = "in_progress"]
    /\ UNCHANGED <<log, rows, unsent, up, sent, viewer, drops>>

Running(d) == status[d] = "in_progress" /\ unsent[d] = 0

\* Every unfinished deploy keeps a row of the bound for its ending.
Room == Len(log) + Cardinality({d \in Deploys : status[d] # "ended"}) < MaxEvents

\* Store::append_event.
AppendEvent(d, finished) ==
    /\ log' = Append(log, [deploy |-> d, finished |-> finished])
    /\ rows' = [rows EXCEPT ![d] = Append(@, Len(log'))]

\* The event just stored for d is the daemon's to publish, or nobody's.
Hold(d, id) == unsent' = [unsent EXCEPT ![d] = IF up /\ d \notin Foreign THEN id ELSE 0]

\* Mutant: an id one too far.
StoreEventOffByOne(d) ==
    /\ up
    /\ Running(d)
    /\ Room
    /\ AppendEvent(d, FALSE)
    /\ Hold(d, Len(log') + 1)
    /\ UNCHANGED <<status, up, sent, viewer, drops>>

\* emit, first half.
StoreEvent(d) ==
    /\ up
    /\ Running(d)
    /\ Room
    /\ AppendEvent(d, FALSE)
    /\ Hold(d, Len(log'))
    /\ UNCHANGED <<status, up, sent, viewer, drops>>

\* finished, first half: row and event in one transaction.  The recovery of a
\* starting daemon publishes to a hub nobody has subscribed to yet.
StoreEnding(d) ==
    /\ Running(d)
    /\ status' = [status EXCEPT ![d] = "ended"]
    /\ AppendEvent(d, TRUE)
    /\ Hold(d, Len(log'))
    /\ UNCHANGED <<up, sent, viewer, drops>>

\* reserve's rejection: the row ends and no event says so.
EndSilently(d) ==
    /\ Refusals
    /\ up
    /\ Running(d)
    /\ rows[d] = <<>>
    /\ status' = [status EXCEPT ![d] = "ended"]
    /\ UNCHANGED <<log, rows, unsent, up, sent, viewer, drops>>

\* BroadcastSink::emit.
Publish(d) ==
    /\ unsent[d] # 0
    /\ sent' = Append(sent, unsent[d])
    /\ unsent' = [unsent EXCEPT ![d] = 0]
    /\ UNCHANGED <<log, rows, status, up, viewer, drops>>

\* The hub and every connection die with the daemon; the store stays.
Die ==
    /\ up
    /\ drops < MaxDrops
    /\ drops' = drops + 1
    /\ up' = FALSE
    /\ sent' = <<>>
    /\ unsent' = [d \in Deploys |-> 0]
    /\ viewer' = [v \in Viewers |->
         IF Connected(v) THEN Closed(viewer[v])
         ELSE IF At(v, "page") THEN [viewer[v] EXCEPT !.pc = "new", !.terminal = FALSE]
         ELSE viewer[v]]
    /\ UNCHANGED <<log, rows, status>>

\* serve: nothing is in progress once reconcile has returned.
Listen ==
    /\ ~up
    /\ \A d \in Deploys : status[d] # "in_progress"
    /\ up' = TRUE
    /\ UNCHANGED <<log, rows, status, unsent, sent, viewer, drops>>

------------------------------------------------------------------------------
(* The deploy's page *)

Become(v, rec) == viewer' = [viewer EXCEPT ![v] = rec]

\* deploy_detail, first read: a terminal row's page opens no stream.
OpenPage(v) ==
    /\ up
    /\ At(v, "new")
    /\ status[viewer[v].deploy] # "none"
    /\ Become(v, [viewer[v] EXCEPT
            !.pc = "page", !.terminal = status[viewer[v].deploy] = "ended"])
    /\ UNCHANGED <<writerVars, drops>>

\* Second read: the rows on the page, and the id it resumes from.
RenderPage(v) ==
    /\ At(v, "page")
    /\ LET ids == rows[viewer[v].deploy] IN
       Become(v, [viewer[v] EXCEPT
            !.pc = IF viewer[v].terminal THEN "gone" ELSE "away",
            !.terminal = FALSE,
            !.seen = ids, !.header = LastId(ids)])
    /\ UNCHANGED <<writerVars, drops>>

\* get_deploy makes the same two reads; a client that polls it until the row
\* has ended takes the events of that answer for the whole story.
TellDetail(v) ==
    /\ At(v, "page")
    /\ Become(v, [viewer[v] EXCEPT
            !.pc = IF viewer[v].terminal THEN "gone" ELSE "new",
            !.terminal = FALSE,
            !.seen = rows[viewer[v].deploy]])
    /\ UNCHANGED <<writerVars, drops>>

\* An API client that streams has no page and no resume point.
OpenBare(v) ==
    /\ At(v, "new")
    /\ status[viewer[v].deploy] # "none"
    /\ Become(v, [viewer[v] EXCEPT !.pc = "away", !.seen = <<>>])
    /\ UNCHANGED <<writerVars, drops>>

------------------------------------------------------------------------------
(* events_sse *)

Subscribe(v) ==
    /\ up
    /\ At(v, "away")
    /\ Become(v, [viewer[v] EXCEPT !.pc = "row", !.pos = Len(sent) + 1])
    /\ UNCHANGED <<writerVars, drops>>

ReadRow(v) ==
    /\ At(v, "row")
    /\ Become(v, [viewer[v] EXCEPT
            !.pc = "backlog", !.terminal = status[viewer[v].deploy] = "ended"])
    /\ UNCHANGED <<writerVars, drops>>

\* Mutant: an ended deploy's stream is always 204.
NoHistory(v) ==
    /\ At(v, "backlog")
    /\ LET ids == rows[viewer[v].deploy]
       IN IF viewer[v].terminal
          THEN Become(v, [Closed(viewer[v]) EXCEPT !.pc = "gone"])
          ELSE Become(v, [viewer[v] EXCEPT
                  !.pc = "yield", !.queue = ids,
                  !.last = LesserOf(viewer[v].header, LastId(ids))])
    /\ UNCHANGED <<writerVars, drops>>

\* Mutant: there is no 204.
NeverGone(v) ==
    /\ At(v, "backlog")
    /\ LET ids == rows[viewer[v].deploy]
       IN Become(v, [viewer[v] EXCEPT
                  !.pc = "yield", !.queue = ids,
                  !.last = LesserOf(viewer[v].header, LastId(ids))])
    /\ UNCHANGED <<writerVars, drops>>

\* The resume point is clamped to what the store has; a client that has seen
\* all of an ended deploy gets 204 and does not come back.
ReadBacklog(v) ==
    /\ At(v, "backlog")
    /\ LET ids == rows[viewer[v].deploy]
           resume == LesserOf(viewer[v].header, LastId(ids))
       IN IF viewer[v].terminal /\ resume >= LastId(ids)
          THEN Become(v, [Closed(viewer[v]) EXCEPT !.pc = "gone"])
          ELSE Become(v, [viewer[v] EXCEPT
                  !.pc = "yield", !.queue = ids, !.last = resume])
    /\ UNCHANGED <<writerVars, drops>>

\* An event not yet sent goes to the client; the ending closes the stream.
Deliver(rec, i) ==
    LET told == [rec EXCEPT !.last = i, !.header = i, !.seen = Append(@, i)]
    IN IF IsFinished(i) THEN Closed(told) ELSE told

Yield(v) ==
    /\ At(v, "yield")
    /\ viewer[v].queue # <<>>
    /\ LET i == Head(viewer[v].queue)
           rest == [viewer[v] EXCEPT !.queue = Tail(@)]
       IN Become(v, IF i <= viewer[v].last THEN rest ELSE Deliver(rest, i))
    /\ UNCHANGED <<writerVars, drops>>

\* Mutant: the subscription is taken after the backlog was read.
DrainedThenSubscribed(v) ==
    /\ At(v, "yield")
    /\ viewer[v].queue = <<>>
    /\ Become(v, IF viewer[v].terminal THEN Closed(viewer[v])
                 ELSE [viewer[v] EXCEPT !.pc = "recv", !.pos = Len(sent) + 1])
    /\ UNCHANGED <<writerVars, drops>>

\* Nothing more can come of a deploy that had ended; else listen.
Drained(v) ==
    /\ At(v, "yield")
    /\ viewer[v].queue = <<>>
    /\ Become(v, IF viewer[v].terminal THEN Closed(viewer[v])
                 ELSE [viewer[v] EXCEPT !.pc = "recv"])
    /\ UNCHANGED <<writerVars, drops>>

Oldest == IF Len(sent) > Capacity THEN Len(sent) - Capacity + 1 ELSE 1

Receive(v) ==
    /\ At(v, "recv")
    /\ viewer[v].pos \in Oldest..Len(sent)
    /\ LET i == sent[viewer[v].pos]
           rest == [viewer[v] EXCEPT !.pos = @ + 1]
       IN Become(v, IF log[i].deploy # viewer[v].deploy \/ i <= viewer[v].last
                    THEN rest ELSE Deliver(rest, i))
    /\ UNCHANGED <<writerVars, drops>>

\* RecvError::Lagged moves the receiver to the oldest message kept.
Lagged(v) ==
    /\ At(v, "recv")
    /\ viewer[v].pos < Oldest
    /\ Become(v, [viewer[v] EXCEPT !.pc = "lagged", !.pos = Oldest])
    /\ UNCHANGED <<writerVars, drops>>

ReadMissed(v) ==
    /\ At(v, "lagged")
    /\ Become(v, [viewer[v] EXCEPT !.pc = "yield", !.queue = rows[viewer[v].deploy]])
    /\ UNCHANGED <<writerVars, drops>>

Drop(v) ==
    /\ Connected(v)
    /\ drops < MaxDrops
    /\ drops' = drops + 1
    /\ Become(v, Closed(viewer[v]))
    /\ UNCHANGED writerVars

------------------------------------------------------------------------------
Write(d) == Create(d) \/ StoreEvent(d) \/ StoreEnding(d) \/ EndSilently(d) \/ Publish(d)

\* The server's work on an open connection, and EventSource reconnecting.
View(v) ==
    \/ RenderPage(v) \/ TellDetail(v)
    \/ Subscribe(v) \/ ReadRow(v) \/ ReadBacklog(v) \/ Yield(v) \/ Drained(v)
    \/ Receive(v) \/ Lagged(v) \/ ReadMissed(v)

Next ==
    \/ \E d \in Deploys : Write(d)
    \/ Die \/ Listen
    \/ \E v \in Viewers : OpenPage(v) \/ OpenBare(v) \/ View(v) \/ Drop(v)

Spec == Init /\ [][Next]_vars

\* Attempts end and are published (DeployEngine!EveryAttemptEnds), the daemon
\* is restarted, and connections are served.
StreamFair ==
    /\ \A d \in Deploys : WF_vars(StoreEnding(d)) /\ WF_vars(Publish(d))
    /\ WF_vars(Listen)
    /\ \A v \in Viewers : WF_vars(View(v))

------------------------------------------------------------------------------
\* Every variable keeps its type.
TypeOK ==
    /\ log \in Seq([deploy : Deploys, finished : BOOLEAN])
    /\ rows \in [Deploys -> Seq(Id)]
    /\ status \in [Deploys -> {"none", "in_progress", "ended"}]
    /\ unsent \in [Deploys -> 0..Len(log)]
    /\ up \in BOOLEAN
    /\ sent \in Seq(1..Len(log))
    /\ viewer \in [Viewers -> Viewer]
    /\ drops \in 0..MaxDrops

\* What a client shows is a prefix of its deploy's log: no event missing, none
\* twice, none out of order, across page load, backlog, live events, lag,
\* lost connections and daemon restarts.
NoGapNoRepeat ==
    \A v \in Viewers :
        LET ids == rows[viewer[v].deploy]
        IN viewer[v].seen = SubSeq(ids, 1, Len(viewer[v].seen))

\* A client told not to come back has everything its deploy will ever say: by a
\* 204, by a page without a stream, or by get_deploy's answer that the row has
\* ended (stream.rs:108-122, pages.rs:506-521, api.rs:393-416).
GoneSawAll ==
    \A v \in Viewers : At(v, "gone") =>
        /\ status[viewer[v].deploy] = "ended"
        /\ viewer[v].seen = rows[viewer[v].deploy]

\* What makes the two inductive.  A deploy's rows are its rows, in id order.
RowsInOrder ==
    \A d \in Deploys :
        /\ \A k \in 1..Len(rows[d]) :
             rows[d][k] \in 1..Len(log) /\ log[rows[d][k]].deploy = d
        /\ \A j, k \in 1..Len(rows[d]) : j < k => rows[d][j] < rows[d][k]
        /\ \A i \in 1..Len(log) :
             log[i].deploy = d => \E k \in 1..Len(rows[d]) : rows[d][k] = i

\* The daemon publishes a deploy's events in the order they are stored, and a
\* command's never.
SentInOrder ==
    /\ \A j \in 1..Len(sent) : log[sent[j]].deploy \notin Foreign
    /\ \A j, k \in 1..Len(sent) :
         j < k /\ log[sent[j]].deploy = log[sent[k]].deploy => sent[j] < sent[k]
    /\ \A d \in Deploys : unsent[d] # 0 =>
         /\ d \notin Foreign /\ log[unsent[d]].deploy = d
         /\ \A j \in 1..Len(sent) : log[sent[j]].deploy = d => sent[j] < unsent[d]

\* An event the stream will still come to.
Coming(r, i) ==
    i = unsent[r.deploy] \/ \E j \in 1..Len(sent) : j >= r.pos /\ sent[j] = i

\* The queue is a stretch of the deploy's rows that leaves no gap to what was
\* seen, and what it does not reach is still coming.
LeavesNoGap(r) ==
    \E m \in 0..Len(r.seen) :
        /\ m + Len(r.queue) <= Len(rows[r.deploy])
        /\ \A k \in 1..Len(r.queue) : r.queue[k] = rows[r.deploy][m + k]
        /\ r.deploy \notin Foreign =>
             \A n \in 1..Len(rows[r.deploy]) :
                 n > m + Len(r.queue) /\ n > Len(r.seen) => Coming(r, rows[r.deploy][n])

ViewerKept(r) ==
    /\ Len(r.seen) <= Len(rows[r.deploy])
    /\ \A k \in 1..Len(r.seen) : r.seen[k] = rows[r.deploy][k]
    /\ r.terminal => status[r.deploy] = "ended"
    /\ r.pc \in {"row", "backlog", "yield", "recv", "lagged"} => up /\ r.pos <= Len(sent) + 1
    /\ r.pc \in {"new", "page"} => r.header = 0
    /\ r.pc \in {"away", "row", "backlog", "yield", "recv", "lagged"} =>
         r.header = LastId(r.seen)
    /\ r.pc \in {"yield", "recv", "lagged"} => r.last = r.header
    /\ r.pc # "yield" => r.queue = <<>>
    /\ r.pc \in {"yield", "recv"} => LeavesNoGap(r)
    /\ r.pc = "gone" => status[r.deploy] = "ended" /\ Len(r.seen) = Len(rows[r.deploy])

StreamInv ==
    /\ TypeOK
    /\ RowsInOrder
    /\ SentInOrder
    /\ \A v \in Viewers : ViewerKept(viewer[v])

\* Its log has begun, so reserve did not refuse it, and this daemon publishes
\* the rest.
Announced(d) == rows[d] # <<>> /\ d \notin Foreign

\* A client comes to the end of its deploy's story: no stream stays open, and
\* none is reopened forever, once the deploy has ended (stream.rs:108-113).
StreamsEnd ==
    \A v \in Viewers :
        Connected(v) /\ Announced(viewer[v].deploy) ~> At(v, "gone")
==============================================================================

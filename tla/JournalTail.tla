------------------------------ MODULE JournalTail ------------------------------
(***************************************************************************)
(* An app's page and its followed log: app_detail and app_log_stream of    *)
(* crates/daemon/src/pages.rs, lines_sse of stream.rs, tail and follow of  *)
(* crates/core/src/logs/mod.rs, the journalctl child of exec/local.rs, and *)
(* the browser's EventSource.                                              *)
(*                                                                         *)
(* A journal is the number of lines the app has written; journalctl shows  *)
(* the last Backlog of them, and with -f what comes after.  It may be that *)
(* the daemon cannot read it: journalctl then says so on stderr, succeeds, *)
(* and shows nothing.  What the rest of the page shows, and the text of    *)
(* lines, is left out.                                                     *)
(***************************************************************************)
EXTENDS Naturals

CONSTANTS
    Tabs,          \* browser tabs
    Backlog,       \* LOG_LINES and LOG_STREAM_BACKLOG
    MaxLines,      \* bound: lines of the journal
    MaxMishaps     \* bound: connections lost, reads failed

ASSUME TailAssumption ==
    Backlog \in Nat \ {0} /\ MaxLines \in Nat /\ MaxMishaps \in Nat

VARIABLES
    registered,    \* the app has a registration
    readable,      \* the daemon may read the journal
    journal,       \* lines written
    tab,           \* per tab: what it shows, and its connection
    orphans,       \* per tab: connections it has lost that the server still serves
    mishaps        \* so far

tailVars == <<registered, readable, journal, tab, orphans, mishaps>>

Tab == [shows : {"nothing", "loading", "not found", "store error", "log error",
                 "no output", "lines", "following", "closed"},
        follow : BOOLEAN,                            \* ?follow is in the URL
        source : {"none", "connecting", "open"},     \* EventSource
        server : {"none", "preflight", "open"},      \* its connection's handler
        pos : 0..MaxLines,                           \* lines its journalctl has printed
        last : 0..MaxLines]                          \* the last line on the page

NoTab == [shows |-> "nothing", follow |-> FALSE, source |-> "none", server |-> "none",
          pos |-> 0, last |-> 0]

TailInit ==
    /\ registered \in BOOLEAN /\ readable \in BOOLEAN
    /\ journal = 0
    /\ tab = [t \in Tabs |-> NoTab]
    /\ orphans = [t \in Tabs |-> 0]
    /\ mishaps = 0

Shows(t, what) == tab[t].shows = what

Turn(t, rec) == tab' = [tab EXCEPT ![t] = rec]

Fault == mishaps < MaxMishaps /\ mishaps' = mishaps + 1

\* What journalctl -n prints first comes after this many lines.
Skipped == IF journal > Backlog THEN journal - Backlog ELSE 0

------------------------------------------------------------------------------
(* Around the daemon *)

RegisterApp ==
    /\ ~registered
    /\ registered' = TRUE
    /\ UNCHANGED <<readable, journal, tab, orphans, mishaps>>

LogLine ==
    /\ journal < MaxLines
    /\ journal' = journal + 1
    /\ UNCHANGED <<registered, readable, tab, orphans, mishaps>>

------------------------------------------------------------------------------
(* The page *)

\* app_config: without it there is no page.
Visit(t) ==
    /\ Shows(t, "nothing")
    /\ \E follow \in BOOLEAN :
         \/ Turn(t, [NoTab EXCEPT !.follow = follow,
                        !.shows = IF registered THEN "loading" ELSE "not found"])
            /\ UNCHANGED mishaps
         \/ Turn(t, [NoTab EXCEPT !.follow = follow, !.shows = "store error"]) /\ Fault
    /\ UNCHANGED <<registered, readable, journal, orphans>>

\* tail: nothing on stdout and the hint on stderr are a failure.
TailSucceeds == readable

\* It also fails if journalctl cannot be run, or fails.
PageFails(t) ==
    /\ Shows(t, "loading")
    /\ Turn(t, [tab[t] EXCEPT !.shows = "log error"])
    /\ IF TailSucceeds THEN Fault ELSE UNCHANGED mishaps
    /\ UNCHANGED <<registered, readable, journal, orphans>>

\* A page that follows shows no line itself: its stream will.
Page(t) ==
    /\ Shows(t, "loading")
    /\ TailSucceeds
    /\ Turn(t, IF tab[t].follow
               THEN [tab[t] EXCEPT !.shows = "following", !.source = "connecting"]
               ELSE [tab[t] EXCEPT !.shows = IF journal = 0 THEN "no output" ELSE "lines",
                                   !.last = journal])
    /\ UNCHANGED <<registered, readable, journal, orphans, mishaps>>

------------------------------------------------------------------------------
(* The stream *)

Following(t) == Shows(t, "following")

\* EventSource asks; registration: a registered app stays so.
Connect(t) ==
    /\ Following(t) /\ tab[t].source = "connecting" /\ tab[t].server = "none"
    /\ Turn(t, [tab[t] EXCEPT !.server = "preflight"])
    /\ UNCHANGED <<registered, readable, journal, orphans, mishaps>>

\* follow's own tail fails: a 500, and the page's script asks again.
FollowFails(t) ==
    /\ tab[t].server = "preflight"
    /\ Turn(t, [tab[t] EXCEPT !.server = "none"])
    /\ IF TailSucceeds THEN Fault ELSE UNCHANGED mishaps
    /\ UNCHANGED <<registered, readable, journal, orphans>>

\* Mutant: a stream has no backlog.
FollowNew(t) ==
    /\ tab[t].server = "preflight"
    /\ TailSucceeds
    /\ Turn(t, [tab[t] EXCEPT !.server = "open", !.source = "open", !.pos = journal])
    /\ UNCHANGED <<registered, readable, journal, orphans, mishaps>>

Follow(t) ==
    /\ tab[t].server = "preflight"
    /\ TailSucceeds
    /\ Turn(t, [tab[t] EXCEPT !.server = "open", !.source = "open", !.pos = Skipped])
    /\ UNCHANGED <<registered, readable, journal, orphans, mishaps>>

\* The page appends what comes, lines it has already included.
SendLine(t) ==
    /\ tab[t].server = "open" /\ tab[t].pos < journal
    /\ Turn(t, [tab[t] EXCEPT !.pos = @ + 1, !.last = tab[t].pos + 1])
    /\ UNCHANGED <<registered, readable, journal, orphans, mishaps>>

Ended(rec) ==
    [rec EXCEPT !.server = "none", !.pos = 0,
                !.source = IF @ = "open" THEN "connecting" ELSE @]

\* LOG_STREAM_DEADLINE, or journalctl's stdout ends; the child goes with it.
Deadline(t) ==
    /\ tab[t].server = "open"
    /\ Fault
    /\ Turn(t, Ended(tab[t]))
    /\ UNCHANGED <<registered, readable, journal, orphans>>

\* The tab closes, and hyper drops the handler or the body: kill_on_drop.
Leave(t) ==
    /\ tab[t].shows \notin {"nothing", "closed"}
    /\ Turn(t, [NoTab EXCEPT !.shows = "closed"])
    /\ UNCHANGED <<registered, readable, journal, orphans, mishaps>>

\* The connection dies, and no one tells the server.
HalfDead(t) ==
    /\ tab[t].server = "open"
    /\ Fault
    /\ orphans' = [orphans EXCEPT ![t] = @ + 1]
    /\ \/ Turn(t, Ended(tab[t]))
       \/ Turn(t, [NoTab EXCEPT !.shows = "closed"])
    /\ UNCHANGED <<registered, readable, journal>>

\* Mutant: a stream has no deadline of its own; a line that cannot be
\* delivered ends it.
OrphanWritten(t) ==
    /\ orphans[t] > 0
    /\ journal < MaxLines
    /\ orphans' = [orphans EXCEPT ![t] = @ - 1]
    /\ UNCHANGED <<registered, readable, journal, tab, mishaps>>

\* The deadline is for these.
OrphanEnds(t) ==
    /\ orphans[t] > 0
    /\ orphans' = [orphans EXCEPT ![t] = @ - 1]
    /\ UNCHANGED <<registered, readable, journal, tab, mishaps>>

Served(t) ==
    PageFails(t) \/ Page(t) \/ Connect(t) \/ FollowFails(t) \/ Follow(t) \/ SendLine(t)

TailNext ==
    \/ RegisterApp \/ LogLine
    \/ \E t \in Tabs : Visit(t) \/ Served(t) \/ Deadline(t) \/ Leave(t) \/ HalfDead(t) \/ OrphanEnds(t)

TailSpec == TailInit /\ [][TailNext]_tailVars

\* Requests are served, EventSource and the page's script reconnect, and a
\* deadline comes.
TailFair == \A t \in Tabs : WF_tailVars(Served(t)) /\ WF_tailVars(OrphanEnds(t))

------------------------------------------------------------------------------
\* Every variable keeps its type.
TailTypeOK ==
    /\ registered \in BOOLEAN /\ readable \in BOOLEAN
    /\ journal \in 0..MaxLines
    /\ tab \in [Tabs -> Tab]
    /\ orphans \in [Tabs -> 0..MaxMishaps]
    /\ mishaps \in 0..MaxMishaps

\* A page that is silent about the log, followed or not, is of a journal that
\* the daemon can read (pages.rs:240-246).
UnreadableIsSaid ==
    \A t \in Tabs :
        Shows(t, "no output") \/ Shows(t, "following") => readable /\ registered

\* What makes it inductive: a page that is loading has found its app.
TailInv ==
    /\ TailTypeOK
    /\ UnreadableIsSaid
    /\ \A t \in Tabs : /\ Shows(t, "loading") => registered
                      /\ orphans[t] <= mishaps

\* A page that follows comes to show the newest line, whatever becomes of its
\* connections.
FollowerCatchesUp == \A t \in Tabs : Following(t) ~> (tab[t].last = journal \/ ~Following(t))

\* No journalctl outlives its reader for good (stream.rs:214-218).
FollowersLeave == \A t \in Tabs : orphans[t] > 0 ~> orphans[t] = 0
================================================================================

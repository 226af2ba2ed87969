--------------------------------- MODULE Fleet ---------------------------------
(***************************************************************************)
(* What a question about the host is answered while the host changes:      *)
(* `kuadrat status` and `kuadrat list` (crates/core/src/workloads/         *)
(* query.rs), and the app list of the daemon, which asks for the status of *)
(* one app after another (summarise of crates/daemon/src/api.rs, index of  *)
(* pages.rs).  Each is several reads of files and of systemd, and no lock  *)
(* keeps apply and remove (module Workload) from moving between them.      *)
(*                                                                         *)
(* One request at a time: requests write nothing, so they cannot meet.     *)
(***************************************************************************)
EXTENDS Workload

CONSTANTS MaxRequests     \* bound: requests

\* A unit systemd calls failed is Stopped here: it has no container either.
Label == {"Running", "Stopped", "Not installed", "Unknown"}

VARIABLES
    question,      \* what is asked, and what has been read
    wasSo,        \* per app: the states it has been in since it was asked
    wasOurs,      \* stems that were a unit of kuadrat's since then
    wasNot,       \* stems that were not
    requests      \* requests so far

fleetVars == <<question, wasSo, wasOurs, wasNot, requests>>

ASSUME FleetAssumption == MaxRequests \in Nat

------------------------------------------------------------------------------
OwnFile(file) == file \notin {None, Foreign}

Managed(units) == {s \in Stems : OwnFile(units[s])}

\* The truth a status is held against: a unit file, and a container behind it.
StateIn(units, up, a) ==
    IF units[Main(a)] = None THEN "Not installed"
    ELSE IF up[a] = None THEN "Stopped" ELSE "Running"

State(a) == StateIn(unit, running, a)

NoRow == "no row"

Question == [pc : {"idle", "file", "active", "entry", "told"},
            kind : {"status", "list"},
            apps : SUBSET Apps,                   \* rows still to read
            app : Apps,                           \* the row being read
            rows : [Apps -> Label \cup {NoRow}],
            entries : SUBSET Stems,               \* paths still to read
            names : SUBSET Stems]                 \* names to print

Idle == [pc |-> "idle", kind |-> "status", apps |-> {}, app |-> CHOOSE a \in Apps : TRUE,
         rows |-> [a \in Apps |-> NoRow], entries |-> {}, names |-> {}]

FleetInit ==
    /\ question = Idle
    /\ wasSo = [a \in Apps |-> {}]
    /\ wasOurs = {} /\ wasNot = {}
    /\ requests = 0

Reading == question.pc \notin {"idle", "told"}

\* What is true now has been true during it.
Watch ==
    /\ wasSo' = [a \in Apps |-> wasSo[a] \cup {StateIn(unit', running', a)}]
    /\ wasOurs' = wasOurs \cup Managed(unit')
    /\ wasNot' = wasNot \cup (Stems \ Managed(unit'))

\* Along with every step of the host, while there is something to ask yet.
Watched ==
    /\ question.pc # "told"
    /\ question.pc = "idle" => requests < MaxRequests
    /\ UNCHANGED <<question, requests>>
    /\ IF Reading THEN Watch ELSE UNCHANGED <<wasSo, wasOurs, wasNot>>

HostSame == UNCHANGED vars

Reads(next) == /\ question' = next
              /\ HostSame /\ UNCHANGED <<wasSo, wasOurs, wasNot, requests>>

------------------------------------------------------------------------------
Begin(req) ==
    /\ question.pc = "idle" /\ requests < MaxRequests
    /\ requests' = requests + 1
    /\ question' = req
    /\ HostSame
    /\ wasSo' = [a \in Apps |-> {State(a)}]
    /\ wasOurs' = Managed(unit)
    /\ wasNot' = Stems \ Managed(unit)

\* `kuadrat status <name>`, or the page of one app.
AskStatus(a) == Begin([Idle EXCEPT !.pc = "file", !.app = a])

\* The app list: every registration, one after the other.
AskAll ==
    LET first == CHOOSE a \in Apps : TRUE
    IN Begin([Idle EXCEPT !.pc = "file", !.app = first, !.apps = Apps \ {first}])

\* Mutant: systemd is asked, whether there is a file or not.
InstalledAnyway(a) == TRUE

Installed(a) == unit[Main(a)] # None

\* The row is written, and the next app's is begun.
RowOf(label) ==
    LET told == [question EXCEPT !.rows[question.app] = label]
    IN IF told.apps = {} THEN [told EXCEPT !.pc = "told"]
       ELSE LET next == CHOOSE a \in told.apps : TRUE
            IN [told EXCEPT !.pc = "file", !.app = next, !.apps = @ \ {next}]

\* status, first read.
LookForFile ==
    /\ question.pc = "file"
    /\ Reads(IF Installed(question.app) THEN [question EXCEPT !.pc = "active"]
            ELSE RowOf("Not installed"))

\* Second read: systemctl is-active.
IsActive ==
    /\ question.pc = "active"
    /\ Reads(RowOf(IF running[question.app] # None THEN "Running" ELSE "Stopped"))

\* A read errs, or systemd says a word status does not know: a row of the
\* list says so and the other rows are still read.
CannotTell ==
    /\ question.pc \in {"file", "active"}
    /\ Reads(RowOf("Unknown"))

------------------------------------------------------------------------------
\* list, first read: the paths in the directory.
AskList ==
    Begin([Idle EXCEPT !.kind = "list", !.pc = "entry",
                       !.entries = {s \in Stems : unit[s] # None}])

\* One path is read, and named if it still is a file of kuadrat's; one deleted
\* meanwhile is passed over.
ReadEntry(s) ==
    /\ question.pc = "entry"
    /\ s \in question.entries
    /\ Reads([question EXCEPT !.entries = @ \ {s},
                !.names = IF OwnFile(unit[s]) THEN @ \cup {s} ELSE @])

Printed ==
    /\ question.pc = "entry" /\ question.entries = {}
    /\ Reads([question EXCEPT !.pc = "told"])

\* The answer has been read; or a listing errs, and nothing is printed.
Over ==
    /\ question.pc \in {"entry", "told"}
    /\ question' = Idle
    /\ wasSo' = [a \in Apps |-> {}] /\ wasOurs' = {} /\ wasNot' = {}
    /\ HostSame /\ UNCHANGED requests

Looks ==
    \/ \E a \in Apps : AskStatus(a)
    \/ AskAll \/ AskList
    \/ LookForFile \/ IsActive \/ CannotTell
    \/ \E s \in Stems : ReadEntry(s)
    \/ Printed \/ Over

FleetNext == Looks \/ (Next /\ Watched)

FleetSpec == Init /\ FleetInit /\ [][FleetNext]_<<vars, fleetVars>>

------------------------------------------------------------------------------
(* Invariants *)

\* Every variable keeps its type.
FleetTypeOK ==
    /\ question \in Question
    /\ wasSo \in [Apps -> SUBSET Label]
    /\ wasOurs \subseteq Stems /\ wasNot \subseteq Stems
    /\ requests \in 0..MaxRequests

\* No answer is made up of two moments: the status a row gives, though it is a
\* look for the file and a question to systemd with apply or remove moving in
\* between, was the app's at one moment of the request (query.rs:33-53); and a
\* listing names only units that were kuadrat's during it, and misses none
\* that was so all along (query.rs:59-95).
AnswersWereTrue ==
    question.pc = "told" =>
        IF question.kind = "status"
        THEN \A a \in Apps :
                question.rows[a] \in wasSo[a] \cup {NoRow, "Unknown"}
        ELSE /\ question.names \subseteq wasOurs
             /\ Stems \ question.names \subseteq wasNot

\* What makes it inductive: how far each answer has come, in the terms of what
\* has been true since the question.
WatchHolds ==
    Reading => /\ \A a \in Apps : State(a) \in wasSo[a]
               /\ Managed(unit) \subseteq wasOurs
               /\ Stems \ Managed(unit) \subseteq wasNot

RowsHold ==
    /\ question.pc \in {"file", "active"} => question.kind = "status"
    /\ question.kind = "status" =>
          \A a \in Apps : question.rows[a] \in wasSo[a] \cup {NoRow, "Unknown"}

\* An app that had a file when it was looked for is not told to have had none:
\* whatever systemd says now has been so with a file there.
ActiveHolds ==
    question.pc = "active" =>
        (IF running[question.app] # None THEN "Running" ELSE "Stopped")
            \in wasSo[question.app]

ListingHolds ==
    /\ question.pc = "entry" => question.kind = "list"
    /\ question.kind = "list" =>
          /\ question.names \subseteq wasOurs
          /\ Stems \ (question.names \cup question.entries) \subseteq wasNot
          /\ question.pc = "told" => question.entries = {}

FleetInv == FleetTypeOK /\ WatchHolds /\ RowsHold /\ ActiveHolds /\ ListingHolds
================================================================================

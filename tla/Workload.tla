-------------------------------- MODULE Workload --------------------------------
(***************************************************************************)
(* An app's units on the host: workloads::apply and workloads::remove, of  *)
(* crates/core/src/workloads/apply.rs, as the CLI runs them and as a       *)
(* deploy's Apply stage and its compensation do, with the app's scheduled  *)
(* tasks.  One run at a time; every command and every file write is a step *)
(* of its own, at which the run may fail or the process may die, and any   *)
(* later run starts from what is left.                                     *)
(*                                                                         *)
(* A unit is named by its stem after kuadrat's namespace: the sequence of  *)
(* the words of its slug.  An app's task units share the app's stem and    *)
(* the word "task", and that prefix is all apply knows them by.            *)
(***************************************************************************)
EXTENDS Naturals, Sequences, SequencesExt

CONSTANTS
    Apps,         \* slugs of the apps
    Tasks,        \* slugs of scheduled tasks
    Texts,        \* renderings of a .container file: image and settings
    Schedules,    \* OnCalendar expressions
    Invalid,      \* those systemd-analyze rejects
    Specs,        \* per app: the specs it is applied with
    None,         \* no file, nothing loaded, no container, timer inactive
    Foreign,      \* a file without kuadrat's marker: by hand, or torn
    MaxRuns,      \* bound: runs of apply and remove
    MaxFaults,    \* bound: commands and writes that fail
    MaxCrashes    \* bound: deaths of the process

Main(a) == a
TaskPrefix(a) == a \o <<"task">>
TaskUnit(a, t) == TaskPrefix(a) \o t

Stems == Apps \cup {TaskUnit(a, t) : a \in Apps, t \in Tasks}

\* tasks maps the spec's task names to their schedules.
AppSpec == [text : Texts, tasks : UNION {[T -> Schedules] : T \in SUBSET Tasks}]

\* A slug is what lies between its hyphens.
ASSUME SlugAssumption == \A slug \in Apps \cup Tasks : slug \in Seq(STRING)

ASSUME WorkloadAssumption ==
    /\ Apps # {} /\ Texts # {} /\ Invalid \subseteq Schedules
    /\ Specs \in [Apps -> SUBSET AppSpec]
    /\ None \notin Texts \cup Schedules
    /\ Foreign \notin Texts \cup Schedules
    /\ None # Foreign
    /\ MaxRuns \in Nat /\ MaxFaults \in Nat /\ MaxCrashes \in Nat

VARIABLES
    unit,         \* <quadlet_dir>/kuadrat-<stem>.container
    timer,        \* <systemd_dir>/kuadrat-<stem>.timer
    loaded,       \* the container unit systemd read at daemon-reload
    armed,        \* the schedule systemd runs the timer by
    running,      \* the unit the app's container was started from
    pc,           \* where the run is
    job,          \* its locals, and how the last run ended
    runs, faults, crashes

files == <<unit, timer>>
systemd == <<loaded, armed, running>>
counters == <<runs, faults, crashes>>
vars == <<files, systemd, pc, job, counters>>

UnitText == Texts \cup {None, Foreign}
TimerText == Schedules \cup {None, Foreign}

Job == [op : {"apply", "remove"},
        app : Apps,
        spec : AppSpec,
        todo : SUBSET Tasks,     \* tasks left to write, or to enable
        task : Tasks \cup {None},     \* its container is written, not its timer
        seen : UnitText,         \* the main unit's text before this run
        pruned : BOOLEAN,        \* prune_tasks removed something
        stale : Stems \cup {None},    \* the timer disabled and not yet deleted
        result : {"ok", "failed", "died"}]

\* What a removal keeps: nothing.
NoSpec == [text |-> CHOOSE x \in Texts : TRUE, tasks |-> [t \in {} |-> None]]

Begun(op, a, s) ==
    [op |-> op, app |-> a, spec |-> s, todo |-> DOMAIN s.tasks, task |-> None,
     seen |-> None, pruned |-> FALSE, stale |-> None, result |-> "failed"]

Me == Main(job.app)
Wanted == DOMAIN job.spec.tasks

\* The stems of the spec's own task units.
Keep == {TaskUnit(job.app, t) : t \in Wanted}

At(l) == pc = l /\ UNCHANGED counters

Goto(l) == pc' = l /\ UNCHANGED job

End(result) ==
    /\ pc' = "idle"
    /\ job' = [job EXCEPT !.result = result, !.todo = {}, !.task = None, !.stale = None]

------------------------------------------------------------------------------
\* Mutant: every app's task units are taken for this one's.
AnyStaleIn(dir) == {s \in Stems : dir[s] # None /\ s \notin Apps \cup Keep}

\* What the scan of the two directories turns up beyond the units to keep.
StaleIn(dir) == {s \in Stems : /\ dir[s] # None
                               /\ IsPrefix(TaskPrefix(job.app), s)
                               /\ s \notin Keep}

\* Mutant: the old text is read after the new one is written.
NeverChanged == FALSE

\* A changed unit is restarted, any other is only started.
Changed == job.seen # None /\ job.seen # job.spec.text

Started ==
    [running EXCEPT ![job.app] = IF Changed \/ @ = None THEN loaded[Me] ELSE @]

------------------------------------------------------------------------------
(* apply *)

StartApply(a, s) ==
    /\ pc = "idle" /\ runs < MaxRuns
    /\ runs' = runs + 1
    /\ pc' = "check"
    /\ job' = Begun("apply", a, s)
    /\ UNCHANGED <<files, systemd, faults, crashes>>

\* Mutant: the schedules are not checked beforehand.
RejectedOnlyForeign ==
    \/ unit[Me] = Foreign
    \/ \E s \in Keep : Foreign \in {unit[s], timer[s]}

\* Mutant: nobody looks whose files are there.
RejectedUnparsed == \E t \in Wanted : job.spec.tasks[t] \in Invalid

\* Every schedule is checked and every path looked at before any write.
Rejected ==
    \/ \E t \in Wanted : job.spec.tasks[t] \in Invalid
    \/ unit[Me] = Foreign
    \/ \E s \in Keep : Foreign \in {unit[s], timer[s]}

Preflight ==
    /\ At("check")
    /\ ~Rejected
    /\ pc' = "write"
    /\ job' = [job EXCEPT !.seen = unit[Me]]
    /\ UNCHANGED <<files, systemd>>

AfterWrites(todo) == IF todo = {} THEN "prune" ELSE "tasks"

WriteMain ==
    /\ At("write")
    /\ unit' = [unit EXCEPT ![Me] = job.spec.text]
    /\ Goto(AfterWrites(job.todo))
    /\ UNCHANGED <<timer, systemd>>

WriteTask(t) ==
    /\ At("tasks")
    /\ t \in job.todo
    /\ unit' = [unit EXCEPT ![TaskUnit(job.app, t)] = job.spec.text]
    /\ pc' = "timer"
    /\ job' = [job EXCEPT !.task = t]
    /\ UNCHANGED <<timer, systemd>>

WriteTimer ==
    /\ At("timer")
    /\ timer' = [timer EXCEPT ![TaskUnit(job.app, job.task)] =
                    job.spec.tasks[job.task]]
    /\ pc' = AfterWrites(job.todo \ {job.task})
    /\ job' = [job EXCEPT !.todo = @ \ {job.task}, !.task = None]
    /\ UNCHANGED <<unit, systemd>>

------------------------------------------------------------------------------
(* prune_tasks: the quadlet directory, then the systemd one *)

PruneContainer(s) ==
    /\ At("prune")
    /\ s \in StaleIn(unit) /\ unit[s] # Foreign
    /\ unit' = [unit EXCEPT ![s] = None]
    /\ job' = [job EXCEPT !.pruned = TRUE]
    /\ UNCHANGED <<timer, systemd, pc>>

\* Mutant: the timer is deleted without having been disabled.
DropUndisabled(s) ==
    /\ At("prune")
    /\ StaleIn(unit) = {}
    /\ s \in StaleIn(timer) /\ timer[s] # Foreign
    /\ pc' = "drop"
    /\ job' = [job EXCEPT !.stale = s]
    /\ UNCHANGED <<files, systemd>>

DisableTimer(s) ==
    /\ At("prune")
    /\ StaleIn(unit) = {}
    /\ s \in StaleIn(timer) /\ timer[s] # Foreign
    /\ armed' = [armed EXCEPT ![s] = None]
    /\ pc' = "drop"
    /\ job' = [job EXCEPT !.stale = s]
    /\ UNCHANGED <<files, loaded, running>>

DropTimer ==
    /\ At("drop")
    /\ timer' = [timer EXCEPT ![job.stale] = None]
    /\ pc' = "prune"
    /\ job' = [job EXCEPT !.stale = None, !.pruned = TRUE]
    /\ UNCHANGED <<unit, systemd>>

Pruned ==
    /\ At("prune")
    /\ StaleIn(unit) = {} /\ StaleIn(timer) = {}
    /\ Goto(IF job.op = "apply" THEN "reload" ELSE "stop")
    /\ UNCHANGED <<files, systemd>>

------------------------------------------------------------------------------
(* systemctl *)

\* daemon-reload rereads every unit; an active timer takes its new schedule.
DaemonReload ==
    /\ At("reload")
    /\ loaded' = unit
    /\ armed' = [s \in Stems |-> IF armed[s] = None THEN None ELSE timer[s]]
    /\ IF job.op = "apply" THEN Goto("start") ELSE End("ok")
    /\ UNCHANGED <<files, running>>

Start ==
    /\ At("start")
    /\ running' = Started
    /\ IF Wanted = {} THEN End("ok")
       ELSE pc' = "enable" /\ job' = [job EXCEPT !.todo = Wanted]
    /\ UNCHANGED <<files, loaded, armed>>

\* enable --now of a timer already active changes nothing.
Enabled(t) == [armed EXCEPT ![TaskUnit(job.app, t)] =
                  IF @ = None THEN timer[TaskUnit(job.app, t)] ELSE @]

EnableTimer(t) ==
    /\ At("enable")
    /\ t \in job.todo
    /\ armed' = Enabled(t)
    /\ IF job.todo = {t} THEN End("ok")
       ELSE job' = [job EXCEPT !.todo = @ \ {t}] /\ UNCHANGED pc
    /\ UNCHANGED <<files, loaded, running>>

------------------------------------------------------------------------------
(* remove *)

StartRemove(a) ==
    /\ pc = "idle" /\ runs < MaxRuns
    /\ runs' = runs + 1
    /\ pc' = "prune"
    /\ job' = Begun("remove", a, NoSpec)
    /\ UNCHANGED <<files, systemd, faults, crashes>>

\* Safe if absent; the reload is for the tasks removed.
NothingToRemove ==
    /\ At("stop")
    /\ unit[Me] = None
    /\ IF job.pruned THEN Goto("reload") ELSE End("ok")
    /\ UNCHANGED <<files, systemd>>

\* systemctl stop errs on a unit systemd has not loaded.
Stop ==
    /\ At("stop")
    /\ unit[Me] \notin {None, Foreign}
    /\ loaded[Me] # None
    /\ running' = [running EXCEPT ![job.app] = None]
    /\ Goto("delete")
    /\ UNCHANGED <<files, loaded, armed>>

DeleteMain ==
    /\ At("delete")
    /\ unit' = [unit EXCEPT ![Me] = None]
    /\ Goto("reload")
    /\ UNCHANGED <<timer, systemd>>

------------------------------------------------------------------------------
(* Failures *)

\* The run is refused: by a check before any write, by the ownership guard on
\* a stale file or the main unit, or by systemctl.
Refused ==
    /\ \/ pc = "check" /\ Rejected
       \/ pc = "prune" /\ \E s \in StaleIn(unit) : unit[s] = Foreign
       \/ pc = "prune" /\ StaleIn(unit) = {} /\ \E s \in StaleIn(timer) : timer[s] = Foreign
       \/ pc = "stop" /\ unit[Me] = Foreign
       \/ pc = "stop" /\ unit[Me] # None /\ loaded[Me] = None
    /\ End("failed")
    /\ UNCHANGED <<files, systemd, counters>>

\* fs::write truncates before it writes: cut short, it leaves an empty file,
\* which does not carry the marker.
Torn ==
    \/ /\ pc = "write"
       /\ unit' = [unit EXCEPT ![Me] = Foreign]
       /\ UNCHANGED timer
    \/ \E t \in job.todo :
         /\ pc = "tasks"
         /\ unit' = [unit EXCEPT ![TaskUnit(job.app, t)] = Foreign]
         /\ UNCHANGED timer
    \/ /\ pc = "timer"
       /\ timer' = [timer EXCEPT ![TaskUnit(job.app, job.task)] = Foreign]
       /\ UNCHANGED unit

\* A restart that fails has stopped the old container, and may fail with the
\* new one up; a timer may be armed or disarmed by a command that then fails.
HalfDone ==
    \/ /\ pc = "start"
       /\ running' \in {Started, [running EXCEPT ![job.app] = IF Changed THEN None ELSE @]}
       /\ UNCHANGED <<loaded, armed>>
    \/ \E t \in job.todo :
         /\ pc = "enable"
         /\ armed' = Enabled(t)
         /\ UNCHANGED <<loaded, running>>
    \/ \E s \in StaleIn(timer) :
         /\ pc = "prune" /\ StaleIn(unit) = {} /\ timer[s] # Foreign
         /\ armed' = [armed EXCEPT ![s] = None]
         /\ UNCHANGED <<loaded, running>>

StepFails ==
    /\ pc # "idle" /\ faults < MaxFaults
    /\ faults' = faults + 1
    /\ \/ UNCHANGED <<files, systemd>>
       \/ Torn /\ UNCHANGED systemd
       \/ HalfDone /\ UNCHANGED files
    /\ End("failed")
    /\ UNCHANGED <<runs, crashes>>

Crash ==
    /\ pc # "idle" /\ crashes < MaxCrashes
    /\ crashes' = crashes + 1
    /\ Torn \/ UNCHANGED files
    /\ End("died")
    /\ UNCHANGED <<systemd, runs, faults>>

------------------------------------------------------------------------------
\* A host kuadrat has never applied to; any file there may be hand-written.
Init ==
    /\ unit \in [Stems -> {None, Foreign}] /\ loaded = unit
    /\ timer \in [Stems -> {None, Foreign}] /\ armed = timer
    /\ running = [a \in Apps |-> unit[Main(a)]]
    /\ pc = "idle"
    /\ job = Begun("remove", CHOOSE a \in Apps : TRUE, NoSpec)
    /\ runs = 0 /\ faults = 0 /\ crashes = 0

Prune ==
    \/ \E s \in Stems : PruneContainer(s) \/ DisableTimer(s)
    \/ DropTimer \/ Pruned

Next ==
    \/ \E a \in Apps : StartRemove(a) \/ \E s \in Specs[a] : StartApply(a, s)
    \/ Preflight \/ WriteMain \/ WriteTimer
    \/ \E t \in Tasks : WriteTask(t) \/ EnableTimer(t)
    \/ Prune
    \/ DaemonReload \/ Start
    \/ NothingToRemove \/ Stop \/ DeleteMain
    \/ Refused \/ StepFails \/ Crash

Spec == Init /\ [][Next]_vars

------------------------------------------------------------------------------
(* Invariants *)

\* Every variable keeps its type.
TypeOK ==
    /\ unit \in [Stems -> UnitText] /\ loaded \in [Stems -> UnitText]
    /\ timer \in [Stems -> TimerText] /\ armed \in [Stems -> TimerText]
    /\ running \in [Apps -> UnitText]
    /\ pc \in {"idle", "check", "write", "tasks", "timer", "prune", "drop",
               "reload", "start", "enable", "stop", "delete"}
    /\ job \in Job
    /\ runs \in 0..MaxRuns /\ faults \in 0..MaxFaults /\ crashes \in 0..MaxCrashes

\* A timer that is armed always has its file: whatever fails and wherever the
\* run dies, the next prune finds it and no timer outlives its app unseen
\* (apply.rs:126-128, 152-155).
TimersFindable == \A s \in Stems : armed[s] # None => timer[s] # None

\* No timer is written or armed whose schedule systemd cannot parse: it would
\* never fire, silently (apply.rs:31-33).
NoDeadTimer == \A s \in Stems : Invalid \cap {timer[s], armed[s]} = {}

\* What makes these inductive, and keeps a file kuadrat does not own from being
\* written: past the preflight every schedule is valid, and every path still to
\* be written or deleted is kuadrat's; after the writes every task to enable has
\* its timer; a timer about to be deleted is no longer armed.
PreflightHolds ==
    /\ pc \notin {"idle", "check"} => \A t \in Wanted : job.spec.tasks[t] \notin Invalid
    /\ pc \in {"write", "tasks", "timer"} =>
          /\ unit[Me] # Foreign
          /\ \A s \in Keep : Foreign \notin {unit[s], timer[s]}
    /\ pc = "delete" => unit[Me] # Foreign

HasTimer(t) == timer[TaskUnit(job.app, t)] # None

TasksWritten ==
    /\ job.todo \subseteq Wanted
    /\ pc \in {"check", "write"} => job.todo = Wanted
    /\ pc = "timer" => job.task \in job.todo
    /\ pc \in {"tasks", "timer"} => \A t \in Wanted \ job.todo : HasTimer(t)
    /\ pc \in {"prune", "drop", "reload", "start", "enable", "stop", "delete"} =>
          \A t \in Wanted : HasTimer(t)

Disarmed ==
    pc = "drop" => /\ job.stale \in Stems \ Keep
                   /\ IsPrefix(TaskPrefix(job.app), job.stale)
                   /\ armed[job.stale] = None
                   /\ timer[job.stale] # Foreign

UnitsInv ==
    /\ TypeOK
    /\ TimersFindable
    /\ NoDeadTimer
    /\ PreflightHolds
    /\ TasksWritten
    /\ Disarmed

UnitsOf(a) == {Main(a)} \cup {TaskUnit(a, t) : t \in Tasks}

\* No app's unit looks like a task's of another: there is no `web-task-job`
\* beside `web`.  The code does not see to that.
NamesApart ==
    \A a, b \in Apps : a # b => \A s \in UnitsOf(b) : ~IsPrefix(TaskPrefix(a), s)

TaskUnits(a) == {s \in Stems : IsPrefix(TaskPrefix(a), s)}

Succeeded == pc = "idle" /\ job.result = "ok"

FilesAsAsked ==
    /\ \A s \in TaskUnits(job.app) :
        /\ unit[s] = IF s \in Keep THEN job.spec.text ELSE None
        /\ (timer[s] # None) <=> (s \in Keep)
        /\ armed[s] = timer[s]
        /\ job.op = "apply" => loaded[s] = unit[s]
    /\ \A t \in Wanted : timer[TaskUnit(job.app, t)] = job.spec.tasks[t]
    /\ IF job.op = "remove"
       THEN unit[Me] = None
       ELSE unit[Me] = job.spec.text /\ loaded[Me] = unit[Me]

Restarted ==
    /\ running[job.app] # None
    /\ job.seen # job.spec.text => running[job.app] = job.spec.text

ContainerAsAsked ==
    IF job.op = "remove" THEN running[job.app] = None ELSE Restarted

\* A run that reports success leaves exactly what was asked for, whatever
\* earlier runs failed or died half way: the units and timers of the spec and no
\* others, all read by systemd, the timers armed with their present schedule,
\* and a new container if the unit changed; after a removal, nothing.
SuccessIsExact == Succeeded => FilesAsAsked /\ ContainerAsAsked

\* What makes the part about files and systemd inductive, whatever the apps are
\* called: what the run has done so far is what it was asked for, place by place.
OpKnown ==
    /\ pc # "idle" => job.result # "ok"
    /\ pc \in {"check", "write", "tasks", "timer", "start", "enable"} => job.op = "apply"
    /\ pc \in {"stop", "delete"} => job.op = "remove"
    /\ job.op = "remove" => Wanted = {}

Written(t) ==
    /\ unit[TaskUnit(job.app, t)] = job.spec.text
    /\ timer[TaskUnit(job.app, t)] = job.spec.tasks[t]

FilesSoFar ==
    /\ job.op = "apply" /\ pc \notin {"idle", "check", "write"} => unit[Me] = job.spec.text
    /\ pc \in {"tasks", "timer"} => \A t \in Wanted \ job.todo : Written(t)
    /\ pc = "timer" => unit[TaskUnit(job.app, job.task)] = job.spec.text
    /\ pc \in {"prune", "drop", "reload", "start", "enable"} => \A t \in Wanted : Written(t)
    /\ pc \in {"reload", "start", "enable", "stop", "delete"} =>
          StaleIn(unit) = {} /\ StaleIn(timer) = {}
    /\ pc = "reload" /\ job.op = "remove" => unit[Me] = None

SystemdSoFar ==
    /\ pc \in {"start", "enable"} =>
          loaded = unit /\ \A s \in Stems : armed[s] \in {None, timer[s]}
    /\ pc = "enable" =>
          \A t \in Wanted \ job.todo :
              armed[TaskUnit(job.app, t)] = timer[TaskUnit(job.app, t)]

RunInv == OpKnown /\ FilesSoFar /\ SystemdSoFar /\ (Succeeded => FilesAsAsked)

\* And the part about containers, where names are apart.  There is no container
\* without its unit, so one that was there before the run has a unit that the
\* run has seen.
NoGhost == \A a \in Apps : unit[Main(a)] = None => running[a] = None

ContainerSoFar ==
    /\ job.op = "apply" /\ job.seen = None /\ pc \notin {"idle", "check", "enable"} =>
          running[job.app] = None
    /\ pc = "enable" => Restarted
    /\ pc = "delete" => running[job.app] = None

ContainersKept == NoGhost /\ ContainerSoFar /\ (Succeeded => ContainerAsAsked)

------------------------------------------------------------------------------
(* Action properties *)

\* A file kuadrat does not own is neither overwritten nor deleted, not even one
\* that matches an app's task prefix (apply.rs:152-155, managed.rs).
ForeignFilesKept ==
    [][\A s \in Stems : /\ unit[s] = Foreign => unit'[s] = Foreign
                        /\ timer[s] = Foreign => timer'[s] = Foreign]_vars

\* A run touches no other app's units: the directories scanned hold everyone's.
NeighboursKept ==
    [][\A a \in Apps \ {job'.app} : \A s \in UnitsOf(a) :
         /\ unit'[s] = unit[s] /\ timer'[s] = timer[s]
         /\ (armed'[s] = None) <=> (armed[s] = None)
         /\ running'[a] = running[a]]_vars
================================================================================

----------------------------- MODULE DeployEngine -----------------------------
(***************************************************************************)
(* The deploy state machine of crates/core/src/deploy/run.rs, driven by    *)
(* one kuadrat process at a time against the durable store and the host.   *)
(*                                                                         *)
(* The process runs either `run` (Detect, Build, Secrets, Apply, Route,    *)
(* Healthcheck, then the record of the new spec) or `reconcile`.  Every    *)
(* store call and every effect on the host is a step of its own, so a      *)
(* command may fail at it and the process may die before or after it.      *)
(* Crashing loses the process's locals (pc, job); the store and the host   *)
(* survive.  Concurrent processes and tasks are the subject of Daemon.     *)
(*                                                                         *)
(* A unit file, a Caddy fragment and a running container are each reduced  *)
(* to the version or route they carry.                                     *)
(***************************************************************************)
EXTENDS DeployStore

CONSTANTS
    Versions,     \* renderings of the unit file: image tag and settings
    Routes,       \* domain and port pairs
    None,         \* no file, nothing loaded, no container, no route
    Unowned,      \* a file without kuadrat's marker: by hand, or torn
    Unknown,      \* a host that serves no one spec
    MaxFaults,    \* bound: commands and store writes that fail
    MaxCrashes,   \* bound: deaths of the process
    StoreFaults,  \* BOOLEAN: store writes may fail too
    Tearing       \* BOOLEAN: an interrupted write leaves a truncated file

ASSUME EngineAssumption ==
    /\ Specs \subseteq [version : Versions, route : Routes \cup {None}]
    /\ None \notin Versions \cup Routes
    /\ Unowned \notin Versions \cup Routes
    /\ None # Unowned
    /\ Unknown \notin Specs \cup {NoSpec}
    /\ Apps # {}
    /\ MaxFaults \in Nat /\ MaxCrashes \in Nat
    /\ StoreFaults \in BOOLEAN /\ Tearing \in BOOLEAN

VARIABLES
    host,         \* per app: files, systemd's and Caddy's view, the container
    pc,           \* where the process is
    job,          \* its locals
    faults,       \* failures so far
    crashes       \* crashes so far

vars == <<deploys, locks, specs, events, host, pc, job, faults, crashes>>

------------------------------------------------------------------------------
UnitFile == Versions \cup {None, Unowned}
RouteFile == Routes \cup {None, Unowned}

Host == [unit : UnitFile,          \* <quadlet_dir>/kuadrat-<slug>.container
         loaded : UnitFile,        \* the unit systemd read at daemon-reload
         running : UnitFile,       \* the unit the container was started from
         fragment : RouteFile,     \* <caddy_dir>/<slug>.caddy
         served : RouteFile]       \* the fragment Caddy read at reload

Job == [mode : {"deploy", "reconcile"},
        app : Apps,
        id : 0..MaxDeploys,
        spec : Specs \cup {NoSpec},
        prev : Specs \cup {NoSpec},             \* load_previous
        stage : Stage,
        undo : BOOLEAN,                         \* inside compensate
        seen : UnitFile,                        \* apply's `previous`
        outcome : Terminal,
        todo : SUBSET (1..MaxDeploys)]          \* reconcile's row snapshot

StorePc == {"acquire", "refuse", "load", "begin", "started", "ok", "fail",
            "put_spec", "finish", "release", "next_row"}

\* The store calls of run_stages.
InStages == {"begin", "started", "ok", "fail", "put_spec", "finish"}

HostPc == {"work", "write", "reload", "start", "stop", "delete", "unload",
           "route", "caddy", "health"}

Busy == pc # "idle"

Me == host[job.app]

Set(field, value) == host' = [host EXCEPT ![job.app][field] = value]

Goto(l) == pc' = l /\ UNCHANGED job

\* No process: what `job` holds then is never read.
IdleJob == [mode |-> "deploy", app |-> CHOOSE a \in Apps : TRUE, id |-> 0,
            spec |-> NoSpec, prev |-> NoSpec, stage |-> "detect",
            undo |-> FALSE, seen |-> None, outcome |-> "done", todo |-> {}]

Rest == pc' = "idle" /\ job' = IdleJob

------------------------------------------------------------------------------
\* What follows a stage's Started event.  Without a route the Route stage
\* touches nothing.
WorkPc(stage, spec) ==
    CASE stage = "apply" -> "write"
      [] stage = "route" -> IF spec.route = None THEN "ok" ELSE "route"
      [] stage = "healthcheck" -> "health"
      [] OTHER -> "work"

\* Detect, Build and Secrets never touch the host.
Untouched == {"detect", "build", "secrets"}

\* unwind_apply: re-apply the previous spec, or remove the unit.
UnwindApplyPc(prev) == IF prev = NoSpec THEN "stop" ELSE "write"

\* Mutant: the route is not unwound.
CompensateApplyOnly(stage, prev) ==
    IF stage \in Untouched THEN "finish" ELSE UnwindApplyPc(prev)

\* compensate: undo what was done before the failing stage, backward.
CompensatePc(stage, prev) ==
    CASE stage \in Untouched -> "finish"
      [] stage = "apply" -> UnwindApplyPc(prev)
      [] OTHER -> "route"

StageNumber(stage) == CHOOSE i \in 1..6 : StageOrder[i] = stage

\* The version and the route the current procedure is putting in place.
TargetVersion == IF job.undo THEN job.prev.version ELSE job.spec.version

TargetRoute ==
    IF ~job.undo THEN job.spec.route
    ELSE IF job.prev = NoSpec THEN None ELSE job.prev.route

\* apply(): a changed unit is restarted, any other is only started.
Changed == job.seen # None /\ job.seen # TargetVersion

\* Mutant: a changed unit is only started.
StartedNeverRestarted ==
    [host EXCEPT ![job.app].running = IF @ = None THEN host[job.app].loaded ELSE @]

Started ==
    [host EXCEPT ![job.app].running =
        IF Changed \/ @ = None THEN host[job.app].loaded ELSE @]

\* A host step that erred: the stage fails, or its compensation does.
Abandon ==
    IF job.undo
    THEN /\ job' = [job EXCEPT !.outcome = "failed"]
         /\ pc' = "finish"
    ELSE Goto("fail")

HostStep(at) == pc = at /\ UNCHANGED <<deploys, locks, specs, events, faults, crashes>>

StoreStep(at) == pc = at /\ UNCHANGED <<host, faults, crashes>>

------------------------------------------------------------------------------
(* run and reserve *)

\* create_deploy, the first half of reserve.
Submit(a, s) ==
    /\ StoreStep("idle")
    /\ CreateDeploy(a)
    /\ job' = [IdleJob EXCEPT !.app = a, !.id = Len(deploys) + 1, !.spec = s]
    /\ pc' = "acquire"
    /\ UNCHANGED <<locks, specs>>

Acquire ==
    /\ StoreStep("acquire")
    /\ AcquireLock(job.app, job.id)
    /\ Goto("load")
    /\ UNCHANGED <<deploys, specs, events>>

LockBusy ==
    /\ StoreStep("acquire")
    /\ LockHeld(job.app)
    /\ Goto("refuse")
    /\ UNCHANGED storeVars

\* The refused attempt ends without an event.
Refuse ==
    /\ StoreStep("refuse")
    /\ FinishDeploy(job.id, "failed")
    /\ Rest
    /\ UNCHANGED <<locks, specs, events>>

------------------------------------------------------------------------------
(* run_reserved and run_stages *)

LoadPrevious ==
    /\ StoreStep("load")
    /\ job' = [job EXCEPT !.prev = specs[job.app]]
    /\ pc' = "begin"
    /\ UNCHANGED storeVars

\* Mutant: the stage begins without saying so.
BeginUnannounced ==
    /\ StoreStep("begin")
    /\ AdvanceStage(job.id, job.stage)
    /\ Goto(WorkPc(job.stage, job.spec))
    /\ UNCHANGED <<locks, specs, events>>

BeginStage ==
    /\ StoreStep("begin")
    /\ AdvanceStage(job.id, job.stage)
    /\ Goto("started")
    /\ UNCHANGED <<locks, specs, events>>

EmitStarted ==
    /\ StoreStep("started")
    /\ AppendEvent(job.id, job.stage, "started")
    /\ Goto(WorkPc(job.stage, job.spec))
    /\ UNCHANGED <<deploys, locks, specs>>

\* detect, build and ensure_all: commands that only read, or build an image.
EarlyStage == HostStep("work") /\ Goto("ok") /\ UNCHANGED host

\* The health command runs inside whatever container is up.
Healthy ==
    /\ HostStep("health")
    /\ Me.running # None
    /\ Goto("ok")
    /\ UNCHANGED host

EmitSucceeded ==
    /\ StoreStep("ok")
    /\ AppendEvent(job.id, job.stage, "succeeded")
    /\ IF job.stage = "healthcheck"
       THEN Goto("put_spec")
       ELSE /\ job' = [job EXCEPT !.stage = StageOrder[StageNumber(@) + 1]]
            /\ pc' = "begin"
    /\ UNCHANGED <<deploys, locks, specs>>

\* Mutant: the new spec is not recorded.
RecordNothing ==
    /\ StoreStep("put_spec")
    /\ Goto("finish")
    /\ UNCHANGED storeVars

RecordSpec ==
    /\ StoreStep("put_spec")
    /\ PutSpec(job.app, job.spec)
    /\ Goto("finish")
    /\ UNCHANGED <<deploys, locks, events>>

\* fail: record the stage's failure, then compensate.
EmitFailed ==
    /\ StoreStep("fail")
    /\ AppendEvent(job.id, job.stage, "failed")
    /\ job' = [job EXCEPT !.undo = TRUE, !.outcome = "rolled_back"]
    /\ pc' = CompensatePc(job.stage, job.prev)
    /\ UNCHANGED <<deploys, locks, specs>>

Finish ==
    /\ StoreStep("finish")
    /\ FinishDeployWithEvent(job.id, job.outcome)
    /\ Goto("release")
    /\ UNCHANGED specs

Release ==
    /\ StoreStep("release")
    /\ ReleaseLock(job.app)
    /\ IF job.mode = "deploy" THEN Rest ELSE Goto("next_row")
    /\ UNCHANGED <<deploys, specs, events>>

------------------------------------------------------------------------------
(* workloads::apply *)

\* ensure_owned, the read of the old text, and the write.
WriteUnit ==
    /\ HostStep("write")
    /\ Me.unit # Unowned
    /\ Set("unit", TargetVersion)
    /\ job' = [job EXCEPT !.seen = Me.unit]
    /\ pc' = "reload"

DaemonReload ==
    /\ HostStep("reload")
    /\ Set("loaded", Me.unit)
    /\ Goto("start")

StartUnit ==
    /\ HostStep("start")
    /\ host' = Started
    /\ Goto(IF job.undo THEN "finish" ELSE "ok")

------------------------------------------------------------------------------
(* workloads::remove, as unwind_apply of a first deploy *)

NothingToRemove ==
    /\ HostStep("stop")
    /\ Me.unit = None
    /\ Goto("finish")
    /\ UNCHANGED host

\* systemctl stop errs on a unit systemd has not loaded.
StopUnit ==
    /\ HostStep("stop")
    /\ Me.unit \notin {None, Unowned}
    /\ Me.loaded # None
    /\ Set("running", None)
    /\ Goto("delete")

DeleteUnit ==
    /\ HostStep("delete")
    /\ Set("unit", None)
    /\ Goto("unload")

Unload ==
    /\ HostStep("unload")
    /\ Set("loaded", Me.unit)
    /\ Goto("finish")

------------------------------------------------------------------------------
(* gateway::apply_route and remove_route *)

\* remove_route of an absent fragment returns without reloading Caddy.
WriteFragment ==
    /\ HostStep("route")
    /\ Me.fragment # Unowned
    /\ Set("fragment", TargetRoute)
    /\ Goto(IF TargetRoute = None /\ Me.fragment = None
            THEN UnwindApplyPc(job.prev) ELSE "caddy")

ReloadCaddy ==
    /\ HostStep("caddy")
    /\ Set("served", Me.fragment)
    /\ Goto(IF job.undo THEN UnwindApplyPc(job.prev) ELSE "ok")

------------------------------------------------------------------------------
(* Failures *)

\* The ownership guard, or a command refused for a reason of the host's.
Refusal ==
    \/ pc \in {"write", "stop"} /\ Me.unit = Unowned
    \/ pc = "stop" /\ Me.unit # None /\ Me.loaded = None
    \/ pc = "route" /\ Me.fragment = Unowned
    \/ pc = "health" /\ Me.running = None

Refused ==
    /\ Refusal
    /\ Abandon
    /\ UNCHANGED <<deploys, locks, specs, events, host, faults, crashes>>

\* What an interrupted write leaves behind.
Torn ==
    CASE pc = "write" -> [host EXCEPT ![job.app].unit = Unowned]
      [] pc = "route" /\ (TargetRoute # None) ->
            [host EXCEPT ![job.app].fragment = Unowned]
      [] OTHER -> host

\* The host a failing command may leave.  A restart that fails has stopped
\* the old container; a later `enable` fails with the new one already up.
Damaged ==
    {host} \cup (IF Tearing THEN {Torn} ELSE {})
           \cup (IF pc = "start"
                 THEN {Started,
                       IF Changed THEN [host EXCEPT ![job.app].running = None]
                       ELSE host}
                 ELSE {})

HostStepFails ==
    /\ pc \in HostPc
    /\ ~Refusal
    /\ faults < MaxFaults
    /\ faults' = faults + 1
    /\ host' \in Damaged
    /\ Abandon
    /\ UNCHANGED <<deploys, locks, specs, events, crashes>>

\* `?` on a store call.  run_stages goes to its caller's release_lock;
\* anything before it, release_lock itself and reconcile return at once.
StoreStepFails ==
    /\ StoreFaults
    /\ pc \in StorePc
    /\ faults < MaxFaults
    /\ faults' = faults + 1
    /\ IF job.mode = "deploy" /\ pc \in InStages THEN Goto("release") ELSE Rest
    /\ UNCHANGED <<deploys, locks, specs, events, host, crashes>>

Crash ==
    /\ Busy
    /\ crashes < MaxCrashes
    /\ crashes' = crashes + 1
    /\ host' \in {host} \cup (IF Tearing THEN {Torn} ELSE {})
    /\ Rest
    /\ UNCHANGED <<deploys, locks, specs, events, faults>>

------------------------------------------------------------------------------
(* reconcile *)

\* The work-list is read once; NextRow sets the rest of the job row by row.
StartReconcile ==
    /\ StoreStep("idle")
    /\ job' = [IdleJob EXCEPT !.mode = "reconcile", !.undo = TRUE,
                              !.todo = InProgressDeploys]
    /\ pc' = "next_row"
    /\ UNCHANGED storeVars

\* The lowest id left: ORDER BY id.
NextRow ==
    /\ StoreStep("next_row")
    /\ \E d \in job.todo :
         /\ \A other \in job.todo : d <= other
         /\ LET row == deploys[d] IN
            /\ job' = [job EXCEPT !.id = d, !.app = row.app, !.stage = row.stage,
                                  !.prev = specs[row.app],
                                  !.outcome = "rolled_back", !.todo = @ \ {d}]
            /\ pc' = CompensatePc(row.stage, specs[row.app])
    /\ UNCHANGED storeVars

FinishReconcile ==
    /\ StoreStep("next_row")
    /\ job.todo = {}
    /\ ReleaseOrphanedLocks
    /\ Rest
    /\ UNCHANGED <<deploys, specs, events>>

------------------------------------------------------------------------------
\* A host kuadrat has never deployed to; either file may be hand-written.
Init ==
    /\ StoreInit
    /\ host \in [Apps -> {h \in Host :
                    /\ h.unit \in {None, Unowned} /\ h.loaded = h.unit
                    /\ h.fragment \in {None, Unowned} /\ h.served = h.fragment
                    /\ h.running = h.unit}]
    /\ pc = "idle"
    /\ job = IdleJob
    /\ faults = 0
    /\ crashes = 0

DeployStep ==
    \/ Acquire \/ LockBusy \/ Refuse \/ LoadPrevious \/ BeginStage \/ EmitStarted
    \/ EarlyStage \/ Healthy \/ EmitSucceeded \/ RecordSpec \/ EmitFailed
    \/ Finish \/ Release

HostAction ==
    \/ WriteUnit \/ DaemonReload \/ StartUnit
    \/ NothingToRemove \/ StopUnit \/ DeleteUnit \/ Unload
    \/ WriteFragment \/ ReloadCaddy

Failure == Refused \/ HostStepFails \/ StoreStepFails

\* Whatever the running process does next.
Step == DeployStep \/ HostAction \/ NextRow \/ FinishReconcile \/ Failure

Next ==
    \/ \E a \in Apps, s \in Specs : Submit(a, s)
    \/ StartReconcile
    \/ Step
    \/ Crash

Spec == Init /\ [][Next]_vars

\* A process that is up goes on, and recovery is run again and again: the
\* daemon's unit restarts it, and every start reconciles.
FairSpec == Spec /\ WF_vars(Step) /\ WF_vars(StartReconcile)

------------------------------------------------------------------------------
(* Invariants *)

\* Every variable keeps its type.
TypeOK ==
    /\ StoreTypeOK
    /\ host \in [Apps -> Host]
    /\ pc \in {"idle"} \cup StorePc \cup HostPc
    /\ job \in Job
    /\ job.todo \subseteq DeployIds
    /\ faults \in 0..MaxFaults
    /\ crashes \in 0..MaxCrashes

\* A lock is always held for an unfinished attempt of its own app, whatever
\* fails and wherever the process dies: no terminal row keeps an app locked
\* (the stuck lock release_orphaned_locks was written for, run.rs:148-154).
LockHolderLive ==
    \A a \in Apps : LockHeld(a) =>
        /\ deploys[locks[a]].app = a
        /\ InProgress(locks[a])

\* What makes LockHolderLive and TerminalIsFinal inductive.  The job's row is its
\* app's and unfinished until the job records its ending; an attempt not yet
\* admitted holds nothing; what a recovery has read and not yet handled is
\* unfinished; and there is a spec to write every file from.
AtWork == pc \notin {"idle", "release", "next_row"}

OwnRow ==
    AtWork => /\ job.id \in InProgressDeploys
              /\ deploys[job.id].app = job.app

NothingHeldYet == pc \in {"acquire", "refuse"} => \A a \in Apps : locks[a] # job.id

TodoUnfinished ==
    /\ job.todo \subseteq InProgressDeploys
    /\ AtWork => job.id \notin job.todo

\* Where only a deploy going forward can be.
Forward == {"acquire", "refuse", "load", "begin", "started", "ok", "fail",
            "put_spec", "work", "health"}

SpecsKnown ==
    /\ pc \in Forward => ~job.undo
    /\ Busy /\ ~job.undo => job.spec \in Specs
    /\ pc = "write" /\ job.undo => job.prev \in Specs

LockInv ==
    /\ TypeOK
    /\ LockHolderLive
    /\ OwnRow
    /\ NothingHeldYet
    /\ TodoUnfinished
    /\ SpecsKnown

Endings(d) == {i \in DOMAIN events[d] : events[d][i].stage = "deploy"}

\* A reader of the row and of the event log sees them agree about where the
\* deploy's story ends: in progress and no terminal event, or a terminal row
\* with exactly one, last, naming the row's status.  Only an attempt refused
\* before its first stage ends without an event (run.rs:272-283).
RowLogAgree ==
    \A d \in DeployIds :
        IF InProgress(d) THEN Endings(d) = {}
        ELSE \/ deploys[d].status = "failed" /\ events[d] = <<>>
             \/ /\ Endings(d) = {Len(events[d])}
                /\ events[d][Len(events[d])].status = deploys[d].status

\* The stage a log's i-th entry is of, and whether it starts that stage.
StageAt(i) == StageOrder[(i + 1) \div 2]

Starts(i) == i % 2 = 1

\* The log of an attempt is a prefix of the pipeline: stages in order, each
\* started before it succeeds or fails, nothing but the ending after a failed
\* stage, and "done" only when all six stages succeeded.
LogInOrder ==
    \A d \in DeployIds :
        LET log == events[d] IN
        /\ \A i \in DOMAIN log \ Endings(d) :
            /\ log[i].stage = StageAt(i)
            /\ (log[i].status = "started") <=> Starts(i)
            /\ log[i].status = "failed" => (i + 1 .. Len(log)) \subseteq Endings(d)
        /\ deploys[d].status = "done" =>
            Len(log) = 13 /\ log[12].status = "succeeded"

\* What makes the two inductive.  The first n entries of a log are the first
\* of the pipeline, and nothing follows a failure.
InPipeline(log, n) ==
    /\ n \in 0..12
    /\ \A i \in 1..n :
         /\ log[i].stage = StageAt(i)
         /\ (log[i].status = "started") <=> Starts(i)
         /\ log[i].status = "failed" => i = n

WellLogged(d) ==
    LET log == events[d]
        n == Len(log)
    IN IF InProgress(d) THEN InPipeline(log, n)
       ELSE \/ deploys[d].status = "failed" /\ log = <<>>
            \/ /\ n > 0 /\ InPipeline(log, n - 1)
               /\ log[n] = [stage |-> "deploy", status |-> deploys[d].status]
               /\ deploys[d].status = "done" => n = 13 /\ log[12].status = "succeeded"

\* Between a stage's Started and what ends it.
InStage == {"work", "write", "reload", "start", "route", "caddy", "health", "ok", "fail"}

\* How far the log of a deploy going forward is, and what may yet be recorded.
JobLogged ==
    LET log == events[job.id]
        k == StageNumber(job.stage)
    IN
    /\ AtWork /\ ~job.undo =>
         /\ job.outcome = "done"
         /\ pc \in {"acquire", "refuse", "load"} => log = <<>> /\ job.stage = "detect"
         /\ pc \in {"begin", "started"} => Len(log) = 2 * k - 2
         /\ pc \in InStage => Len(log) = 2 * k - 1
         /\ pc \in {"put_spec", "finish"} => Len(log) = 12
         /\ log # <<>> => log[Len(log)].status # "failed"
         /\ pc \notin {"stop", "delete", "unload"}
         /\ pc = "route" => job.spec.route # None
    /\ AtWork /\ job.undo => job.outcome # "done"
    /\ pc = "next_row" => job.mode = "reconcile"
    /\ job.mode = "reconcile" => job.undo

LogInv == (\A d \in DeployIds : WellLogged(d)) /\ JobLogged

\* Attempts that ran and ended `failed` leave the host in an unknown state.
Wrecked(a) ==
    \E d \in DeployIds : /\ deploys[d].app = a
                         /\ deploys[d].status = "failed"
                         /\ events[d] # <<>>

\* No attempt of the app is unfinished and no process is at work.
Quiet(a) ==
    /\ ~Busy
    /\ \A d \in InProgressDeploys : deploys[d].app # a

\* What the host as a whole serves: a spec, nothing, or some mixture.
HostSpec(a) ==
    LET h == host[a]
        uniform == h.unit = h.loaded /\ h.unit = h.running /\ h.fragment = h.served
    IN IF uniform /\ h.unit \in Versions /\ h.fragment \in Routes \cup {None}
       THEN [version |-> h.unit, route |-> h.fragment]
       ELSE IF uniform /\ h.unit \in {None, Unowned} /\ h.fragment \in {None, Unowned}
       THEN NoSpec ELSE Unknown

\* With no attempt under way and none ever `failed`, the host serves exactly
\* the last good spec: unit file, systemd, container, fragment and Caddy.
LastGoodServed == \A a \in Apps : Quiet(a) /\ ~Wrecked(a) => HostSpec(a) = specs[a]

\* What is left of that when the process may die at any step: the files on
\* disk are those of the last good spec, and systemd and Caddy have read them
\* if there is a spec to serve.  The container may lag, since an unchanged file
\* is only started, and a removal cut short before its reload is not noticed by
\* the next one.
FilesLastGood ==
    \A a \in Apps : Quiet(a) /\ ~Wrecked(a) =>
        LET h == host[a] IN
        IF specs[a] = NoSpec
        THEN h.unit \in {None, Unowned} /\ h.fragment \in {None, Unowned}
        ELSE /\ h.unit = specs[a].version /\ h.loaded = h.unit
             /\ h.fragment = specs[a].route /\ h.served = h.fragment

\* Every spec has a route: a cleared one is not unwound (engine_route_cleared).
RoutesKept == \A s \in Specs : s.route # None

\* What makes LastGoodServed inductive where nothing cuts a process short.
\* There is one attempt at a time, its row is unfinished until it is recorded,
\* and no recovery finds work.
OneAttempt ==
    /\ InProgressDeploys = IF AtWork THEN {job.id} ELSE {}
    /\ job.todo = {}
    /\ job.mode = "reconcile" => pc = "next_row"

UnitServes(a, s) ==
    LET h == host[a] IN
    /\ h.unit = h.loaded /\ h.unit = h.running
    /\ IF s = NoSpec THEN h.unit \in {None, Unowned} ELSE h.unit = s.version

RouteServes(a, s) ==
    LET h == host[a] IN
    /\ h.fragment = h.served
    /\ IF s = NoSpec THEN h.fragment \in {None, Unowned} ELSE h.fragment = s.route

\* The stages of run_stages, and who is in them.
InRun == pc \in HostPc \cup InStages

OthersServed ==
    \A a \in Apps : ~Wrecked(a) /\ ~(InRun /\ job.app = a) =>
        UnitServes(a, specs[a]) /\ RouteServes(a, specs[a])

\* Which stage's procedure the job is in, and which spec it would go back to.
JobPlace ==
    InRun =>
        /\ IF pc = "finish" /\ ~job.undo THEN specs[job.app] = job.spec
           ELSE specs[job.app] = job.prev
        /\ pc \in {"put_spec", "health"} => job.stage = "healthcheck"
        /\ pc = "work" => job.stage \in Untouched
        /\ pc \in {"write", "reload", "start"} =>
             IF job.undo THEN job.stage \notin Untouched /\ job.prev # NoSpec
             ELSE job.stage = "apply"
        /\ pc \in {"route", "caddy"} =>
             IF job.undo THEN job.stage \in {"route", "healthcheck"} ELSE job.stage = "route"
        /\ pc \in {"stop", "delete", "unload"} =>
             job.undo /\ job.stage \notin Untouched /\ job.prev = NoSpec
        /\ pc = "finish" /\ ~job.undo => job.stage = "healthcheck"

\* unwind_apply would bring the unit back: it sees that the file has changed if
\* the container has.
UnitUndoable ==
    IF job.prev = NoSpec
    THEN Me.unit = None => Me.loaded = None /\ Me.running = None
    ELSE /\ Me.unit \notin {None, Unowned}
         /\ Me.unit = job.prev.version => Me.running \in {None, job.prev.version}

\* remove_route would bring the fragment back.
RouteUndoable == job.prev = NoSpec /\ Me.fragment = None => Me.served = None

GoesForward ==
    LET unitAsBefore == \/ job.stage \in Untouched
                        \/ job.stage = "apply" /\ pc \in {"begin", "started", "write"}
        routeAsBefore == \/ job.stage \in Untouched \cup {"apply"}
                         \/ job.stage = "route" /\ pc \in {"begin", "started", "route"}
        unitDone == \/ job.stage \in {"route", "healthcheck"}
                    \/ job.stage = "apply" /\ pc = "ok"
        routeDone == \/ job.stage = "healthcheck"
                     \/ job.stage = "route" /\ pc = "ok"
    IN
    /\ unitAsBefore => UnitServes(job.app, job.prev)
    /\ pc \in {"reload", "start"} =>
         /\ Me.unit = job.spec.version /\ job.seen = Me.running
         /\ Me.running = IF job.prev = NoSpec THEN None ELSE job.prev.version
         /\ pc = "start" => Me.loaded = Me.unit
    /\ job.stage = "apply" /\ pc = "fail" => UnitUndoable
    /\ unitDone => /\ Me.unit = job.spec.version
                   /\ Me.loaded = Me.unit /\ Me.running = Me.unit
    /\ routeAsBefore => RouteServes(job.app, job.prev)
    /\ pc = "caddy" => Me.fragment = job.spec.route
    /\ job.stage = "route" /\ pc = "fail" => RouteUndoable
    /\ routeDone => Me.fragment = job.spec.route /\ Me.served = Me.fragment

GoesBack ==
    /\ pc \in {"route", "caddy", "write", "stop"} => UnitUndoable
    /\ pc \in {"reload", "start"} =>
         /\ Me.unit = job.prev.version /\ job.seen # None
         /\ job.seen = job.prev.version => Me.running \in {None, job.prev.version}
         /\ pc = "start" => Me.loaded = Me.unit
    /\ pc \in {"delete", "unload"} => Me.running = None
    /\ pc = "unload" => Me.unit = None
    /\ pc = "finish" => UnitServes(job.app, job.prev)
    /\ pc = "route" => RouteUndoable
    /\ pc = "caddy" => Me.fragment = TargetRoute
    /\ pc \notin {"route", "caddy"} => RouteServes(job.app, job.prev)

JobServes ==
    InRun /\ ~Wrecked(job.app) =>
        /\ ~job.undo => GoesForward
        /\ job.undo /\ job.outcome # "failed" => GoesBack

ServedInv == OneAttempt /\ OthersServed /\ JobPlace /\ JobServes

\* What makes FilesLastGood inductive, wherever the process dies: files that are
\* not those of the last good spec are the work of an unfinished attempt that
\* its row shows to have come far enough.
UnitKept(a) ==
    LET h == host[a] IN
    IF specs[a] = NoSpec THEN h.unit \in {None, Unowned}
    ELSE h.unit = specs[a].version /\ h.loaded = h.unit

RouteKept(a) ==
    LET h == host[a] IN
    IF specs[a] = NoSpec THEN h.fragment \in {None, Unowned}
    ELSE h.fragment = specs[a].route /\ h.served = h.fragment

Owed(a, stages) ==
    \E d \in InProgressDeploys : deploys[d].app = a /\ deploys[d].stage \in stages

ChangesOwed ==
    \A a \in Apps : ~Wrecked(a) =>
        /\ UnitKept(a) \/ Owed(a, {"apply", "route", "healthcheck"})
        /\ RouteKept(a) \/ Owed(a, {"route", "healthcheck"})

\* The row is at the job's stage, or about to be.
RowPlace ==
    LET s == deploys[job.id].stage IN
    AtWork =>
        IF pc = "begin"
        THEN /\ s \in {"apply", "route", "healthcheck"} => job.stage \notin Untouched
             /\ s \in {"route", "healthcheck"} => job.stage \in {"route", "healthcheck"}
        ELSE s = job.stage

\* What the job has written, and undone.
FilesForward ==
    LET unitDone == \/ job.stage \in {"route", "healthcheck"}
                    \/ job.stage = "apply" /\ pc = "ok"
        routeDone == \/ job.stage = "healthcheck"
                     \/ job.stage = "route" /\ pc = "ok"
    IN
    /\ pc \in {"reload", "start"} \/ unitDone => Me.unit = job.spec.version
    /\ pc = "start" \/ unitDone => Me.loaded = Me.unit
    /\ pc = "caddy" \/ routeDone => Me.fragment = job.spec.route
    /\ routeDone => Me.served = Me.fragment

FilesBack ==
    /\ pc \in {"reload", "start"} => Me.unit = job.prev.version
    /\ pc = "start" => Me.loaded = Me.unit
    /\ pc = "unload" => Me.unit = None
    /\ pc = "finish" /\ job.stage \notin Untouched => UnitKept(job.app)
    /\ pc = "caddy" => Me.fragment = TargetRoute
    /\ job.stage \in {"route", "healthcheck"} /\ pc \notin {"route", "caddy"} =>
         RouteKept(job.app)

JobFiles ==
    InRun => /\ ~job.undo => FilesForward
             /\ job.undo /\ job.outcome # "failed" => FilesBack

FilesInv == ChangesOwed /\ RowPlace /\ JobPlace /\ JobFiles

------------------------------------------------------------------------------
(* Action properties *)

\* An attempt ends once: a terminal row is never touched again.
TerminalIsFinal ==
    [][\A d \in DeployIds : ~InProgress(d) => deploys'[d] = deploys[d]]_vars

------------------------------------------------------------------------------
(* Liveness *)

\* Every attempt that got a row ends, whatever crashed under it: the running
\* process finishes it or a later recovery does.
EveryAttemptEnds ==
    \A d \in 1..MaxDeploys :
        d \in DeployIds ~> (d \in DeployIds /\ ~InProgress(d))

------------------------------------------------------------------------------
(* Refinement: between its first stage and its recorded outcome an attempt    *)
(* shows the world what the app served before it.                            *)

Outcome == [d \in DeployIds |-> deploys[d].status]

MidDeploy(a) ==
    /\ pc \in HostPc \cup InStages
    /\ job.app = a

Serving ==
    [a \in Apps |->
        IF Wrecked(a) THEN Unknown
        ELSE IF MidDeploy(a) THEN job.prev
        ELSE HostSpec(a)]

Promise == INSTANCE AtomicDeploy WITH
    outcome <- Outcome, serving <- Serving

\* Without crashes and store failures, every deploy is atomic to an observer.
DeploysAreAtomic == Promise!Spec
==============================================================================

----------------------------- MODULE WorkloadProofs -----------------------------
(***************************************************************************)
(* What apply and remove guarantee about a host, for every set of apps and *)
(* task names and any number of runs, failures and crashes, and what a     *)
(* question about the host is answered meanwhile (module Fleet).  What     *)
(* needs apps whose names do not collide says so (NamesApart).             *)
(***************************************************************************)
EXTENDS Fleet, SequenceTheorems, TLAPS

\* The unit of an app, and of a task of it, has a stem.
LEMMA UnitsAreStems ==
  /\ \A a \in Apps : Main(a) \in Stems
  /\ \A a \in Apps, t \in Tasks : TaskUnit(a, t) \in Stems
BY DEF Stems, Main

\* A spec's task table is a function from some of the task names.
LEMMA SpecTasks ==
  ASSUME NEW s \in AppSpec
  PROVE  /\ DOMAIN s.tasks \subseteq Tasks
         /\ \A t \in DOMAIN s.tasks : s.tasks[t] \in Schedules
         /\ s.text \in Texts
BY DEF AppSpec

\* A run begins well typed, with all of its tasks to do.
LEMMA BegunType ==
  ASSUME NEW op \in {"apply", "remove"}, NEW a \in Apps, NEW s \in AppSpec
  PROVE  /\ Begun(op, a, s) \in Job
         /\ Begun(op, a, s).spec = s
         /\ Begun(op, a, s).todo = DOMAIN s.tasks
BY SpecTasks DEF Begun, Job, UnitText

\* The spec of a removal: one that has no tasks.
LEMMA NoSpecType ==
  /\ NoSpec \in AppSpec
  /\ DOMAIN NoSpec.tasks = {}
<1>1. (CHOOSE x \in Texts : TRUE) \in Texts
  BY WorkloadAssumption
<1>2. [t \in {} |-> None] \in [{} -> Schedules]
  OBVIOUS
<1> QED
  BY <1>1, <1>2 DEF NoSpec, AppSpec

\* The invariant's facts about the run under way, unfolded once.
LEMMA RunType ==
  ASSUME UnitsInv
  PROVE  /\ job.app \in Apps /\ Me \in Stems /\ job.spec \in AppSpec
         /\ Wanted \subseteq Tasks
         /\ \A t \in Tasks : TaskUnit(job.app, t) \in Stems
         /\ \A t \in Wanted : job.spec.tasks[t] \in Schedules
         /\ Keep \subseteq Stems
<1>1. job.app \in Apps /\ job.spec \in AppSpec
  BY DEF UnitsInv, TypeOK, Job
<1> QED
  BY <1>1, SpecTasks, UnitsAreStems DEF Wanted, Keep, Me

\* Ending a run leaves the invariant's claims about a run in progress void.
LEMMA EndKeeps ==
  ASSUME UnitsInv, NEW r \in {"ok", "failed", "died"}, End(r)
  PROVE  /\ job' \in Job /\ pc' = "idle"
         /\ PreflightHolds' /\ TasksWritten' /\ Disarmed'
<1>1. job' \in Job /\ job'.todo = {} /\ pc' = "idle"
  BY DEF UnitsInv, TypeOK, Job, End
<1> QED
  BY <1>1 DEF PreflightHolds, TasksWritten, HasTimer, Disarmed

\* There is nothing on the host at first.
LEMMA UnitsInit == Init => UnitsInv
<1> SUFFICES ASSUME Init PROVE UnitsInv
  OBVIOUS
<1>1. (CHOOSE a \in Apps : TRUE) \in Apps
  BY WorkloadAssumption
<1>2. job \in Job /\ job.todo = {} /\ DOMAIN job.spec.tasks = {}
  BY <1>1, BegunType, NoSpecType DEF Init
<1>3. TypeOK
  BY <1>2, WorkloadAssumption, UnitsAreStems DEF Init, TypeOK, UnitText, TimerText
<1>4. TimersFindable /\ NoDeadTimer
  BY WorkloadAssumption DEF Init, TimersFindable, NoDeadTimer
<1> QED
  BY <1>2, <1>3, <1>4
     DEF Init, UnitsInv, PreflightHolds, TasksWritten, HasTimer, Disarmed

------------------------------------------------------------------------------
(* Every step keeps the invariant *)

\* A run begins: nothing is written yet.
LEMMA BeginKeeps ==
  ASSUME UnitsInv, UNCHANGED <<files, systemd>>, UNCHANGED <<faults, crashes>>,
         runs < MaxRuns, runs' = runs + 1,
         NEW op \in {"apply", "remove"}, NEW a \in Apps, NEW s \in AppSpec,
         job' = Begun(op, a, s),
         \/ pc' = "check"
         \/ pc' = "prune" /\ DOMAIN s.tasks = {}
  PROVE  UnitsInv'
<1>1. job' \in Job /\ job'.spec = s /\ job'.todo = DOMAIN s.tasks
  BY BegunType
<1>2. TypeOK'
  BY <1>1, WorkloadAssumption DEF UnitsInv, TypeOK, files, systemd
<1>3. TimersFindable' /\ NoDeadTimer'
  BY DEF UnitsInv, TimersFindable, NoDeadTimer, files, systemd
<1>4. PreflightHolds' /\ TasksWritten' /\ Disarmed'
  BY <1>1 DEF PreflightHolds, TasksWritten, HasTimer, Disarmed, Wanted
<1> QED
  BY <1>2, <1>3, <1>4 DEF UnitsInv

\* A run that ends where no file and no timer has changed for the worse.
LEMMA EndingKeeps ==
  ASSUME UnitsInv, NEW r \in {"ok", "failed", "died"}, End(r),
         unit' \in [Stems -> UnitText], loaded' \in [Stems -> UnitText],
         timer' \in [Stems -> TimerText], armed' \in [Stems -> TimerText],
         running' \in [Apps -> UnitText],
         runs' \in 0..MaxRuns, faults' \in 0..MaxFaults, crashes' \in 0..MaxCrashes,
         TimersFindable', NoDeadTimer'
  PROVE  UnitsInv'
<1>1. /\ job' \in Job /\ pc' = "idle"
      /\ PreflightHolds' /\ TasksWritten' /\ Disarmed'
  BY EndKeeps
<1>2. TypeOK'
  BY <1>1 DEF TypeOK
<1> QED
  BY <1>1, <1>2 DEF UnitsInv

\* The check before the first write: no foreign file is in the way.
LEMMA PreflightKeeps == UnitsInv /\ Preflight => UnitsInv'
<1> SUFFICES ASSUME UnitsInv, Preflight PROVE UnitsInv'
  OBVIOUS
<1> USE RunType DEF Preflight, At, files, systemd, counters
<1>1. TypeOK'
  BY DEF UnitsInv, TypeOK, Job
<1>2. Me' = Me /\ Keep' = Keep /\ Wanted' = Wanted
  BY DEF UnitsInv, TypeOK, Job, Me, Keep, Wanted
<1>3. job'.spec = job.spec /\ job'.todo = job.todo /\ pc' = "write"
  BY DEF UnitsInv, TypeOK, Job
<1>4. TimersFindable' /\ NoDeadTimer'
  BY DEF UnitsInv, TimersFindable, NoDeadTimer
<1>5. PreflightHolds'
  BY <1>2, <1>3 DEF PreflightHolds, Rejected
<1>6. TasksWritten' /\ Disarmed'
  BY <1>2, <1>3 DEF UnitsInv, TasksWritten, HasTimer, Disarmed
<1> QED
  BY <1>1, <1>4, <1>5, <1>6 DEF UnitsInv

\* The app's own unit is written.
LEMMA WriteMainKeeps == UnitsInv /\ WriteMain => UnitsInv'
<1> SUFFICES ASSUME UnitsInv, WriteMain PROVE UnitsInv'
  OBVIOUS
<1> USE RunType DEF WriteMain, At, Goto, AfterWrites, systemd, counters
<1>1. job.spec.text \in Texts /\ job.spec.text # Foreign
  BY SpecTasks, WorkloadAssumption
<1>2. TypeOK'
  BY <1>1 DEF UnitsInv, TypeOK, UnitText
<1>3. Me' = Me /\ Keep' = Keep /\ Wanted' = Wanted
  BY DEF Me, Keep, Wanted
<1>4. TimersFindable' /\ NoDeadTimer' /\ Disarmed'
  BY DEF UnitsInv, TimersFindable, NoDeadTimer, Disarmed
<1>5. PreflightHolds'
  BY <1>1, <1>3 DEF UnitsInv, TypeOK, PreflightHolds
<1>6. TasksWritten'
  BY <1>3 DEF UnitsInv, TasksWritten, HasTimer
<1> QED
  BY <1>2, <1>4, <1>5, <1>6 DEF UnitsInv
\* Two apps' units may share a stem, so that a write may be to any stem of Keep.
LEMMA KeepStem ==
  ASSUME UnitsInv, NEW t \in Wanted
  PROVE  TaskUnit(job.app, t) \in Keep /\ TaskUnit(job.app, t) \in Stems
BY RunType DEF Keep

\* A task's unit is written before its timer.
LEMMA WriteTaskKeeps ==
  ASSUME UnitsInv, NEW t \in Tasks, WriteTask(t)
  PROVE  UnitsInv'
<1> USE RunType DEF WriteTask, At, systemd, counters
<1>1. job.spec.text \in Texts /\ job.spec.text # Foreign
  BY SpecTasks, WorkloadAssumption
<1>2. job' \in Job
  BY DEF UnitsInv, TypeOK, Job
<1>3. /\ job'.spec = job.spec /\ job'.app = job.app /\ job'.todo = job.todo
      /\ job'.task = t /\ pc' = "timer"
  BY DEF UnitsInv, TypeOK, Job
<1>4. TypeOK'
  BY <1>1, <1>2 DEF UnitsInv, TypeOK, UnitText
<1>5. Me' = Me /\ Keep' = Keep /\ Wanted' = Wanted
  BY <1>3 DEF Me, Keep, Wanted
<1>6. TimersFindable' /\ NoDeadTimer' /\ Disarmed'
  BY <1>3 DEF UnitsInv, TimersFindable, NoDeadTimer, Disarmed
<1>7. PreflightHolds'
  BY <1>1, <1>3, <1>5 DEF UnitsInv, TypeOK, PreflightHolds
<1>8. TasksWritten'
  BY <1>3, <1>5 DEF UnitsInv, TasksWritten, HasTimer
<1> QED
  BY <1>4, <1>6, <1>7, <1>8 DEF UnitsInv

\* A timer is written where its unit already is.
LEMMA WriteTimerKeeps == UnitsInv /\ WriteTimer => UnitsInv'
<1> SUFFICES ASSUME UnitsInv, WriteTimer PROVE UnitsInv'
  OBVIOUS
<1> DEFINE u == TaskUnit(job.app, job.task)
           x == job.spec.tasks[job.task]
<1> USE RunType DEF WriteTimer, At, AfterWrites, systemd, counters
<1>1. job.task \in job.todo /\ job.task \in Wanted
  BY DEF UnitsInv, TasksWritten
<1>2. u \in Keep /\ u \in Stems
  BY <1>1, KeepStem
<1>3. x \in Schedules /\ x \notin Invalid /\ x # Foreign /\ x # None
  BY <1>1, WorkloadAssumption DEF UnitsInv, PreflightHolds
<1>4. job' \in Job
  BY DEF UnitsInv, TypeOK, Job
<1>5. /\ job'.spec = job.spec /\ job'.app = job.app
      /\ job'.todo = job.todo \ {job.task}
      /\ pc' = IF job'.todo = {} THEN "prune" ELSE "tasks"
  BY DEF UnitsInv, TypeOK, Job
<1>6. timer' = [timer EXCEPT ![u] = x]
  OBVIOUS
<1> HIDE DEF u, x
<1>7. TypeOK'
  BY <1>3, <1>4, <1>5, <1>6 DEF UnitsInv, TypeOK, TimerText
<1>8. Me' = Me /\ Keep' = Keep /\ Wanted' = Wanted
  BY <1>5 DEF Me, Keep, Wanted
<1>9. TimersFindable' /\ NoDeadTimer' /\ Disarmed'
  BY <1>2, <1>3, <1>5, <1>6
     DEF UnitsInv, TypeOK, TimersFindable, NoDeadTimer, Disarmed
<1>10. PreflightHolds'
  BY <1>3, <1>5, <1>6, <1>8 DEF UnitsInv, TypeOK, PreflightHolds
<1>11. TasksWritten'
  <2>1. \A t \in Wanted \ job.todo : HasTimer(t)
    BY DEF UnitsInv, TasksWritten
  <2>2. \A t \in Wanted \ job'.todo : timer'[TaskUnit(job.app, t)] # None
    BY <1>2, <1>3, <1>5, <1>6, <2>1, KeepStem DEF UnitsInv, TypeOK, HasTimer, u
  <2>3. job'.todo \subseteq Wanted
    BY <1>5 DEF UnitsInv, TasksWritten
  <2> QED
    BY <1>5, <1>8, <2>2, <2>3 DEF TasksWritten, HasTimer
<1> QED
  BY <1>7, <1>9, <1>10, <1>11 DEF UnitsInv

\* A stale unit without a timer goes.
LEMMA PruneContainerKeeps ==
  ASSUME UnitsInv, NEW s \in Stems, PruneContainer(s)
  PROVE  UnitsInv'
<1> USE RunType DEF PruneContainer, At, systemd, counters
<1>1. /\ job' \in Job /\ job'.spec = job.spec /\ job'.app = job.app
      /\ job'.todo = job.todo /\ pc' = "prune"
  BY DEF UnitsInv, TypeOK, Job
<1>2. TypeOK'
  BY <1>1 DEF UnitsInv, TypeOK, UnitText
<1>3. Keep' = Keep /\ Wanted' = Wanted
  BY <1>1 DEF Keep, Wanted
<1>4. TimersFindable' /\ NoDeadTimer' /\ Disarmed'
  BY <1>1 DEF UnitsInv, TimersFindable, NoDeadTimer, Disarmed
<1>5. PreflightHolds' /\ TasksWritten'
  BY <1>1, <1>3 DEF UnitsInv, PreflightHolds, TasksWritten, HasTimer
<1> QED
  BY <1>2, <1>4, <1>5 DEF UnitsInv

\* A stale timer is disarmed before its file goes.
LEMMA DisableTimerKeeps ==
  ASSUME UnitsInv, NEW s \in Stems, DisableTimer(s)
  PROVE  UnitsInv'
<1> USE RunType DEF DisableTimer, At, files, counters
<1>1. /\ job' \in Job /\ job'.spec = job.spec /\ job'.app = job.app
      /\ job'.todo = job.todo /\ job'.stale = s /\ pc' = "drop"
  BY DEF UnitsInv, TypeOK, Job
<1>2. TypeOK'
  BY <1>1 DEF UnitsInv, TypeOK, TimerText
<1>3. Keep' = Keep /\ Wanted' = Wanted
  BY <1>1 DEF Keep, Wanted
<1>4. TimersFindable' /\ NoDeadTimer'
  BY WorkloadAssumption DEF UnitsInv, TypeOK, TimersFindable, NoDeadTimer
<1>5. PreflightHolds' /\ TasksWritten'
  BY <1>1, <1>3 DEF UnitsInv, PreflightHolds, TasksWritten, HasTimer
<1>6. Disarmed'
  BY <1>1, <1>3 DEF UnitsInv, TypeOK, Disarmed, StaleIn
<1> QED
  BY <1>2, <1>4, <1>5, <1>6 DEF UnitsInv

\* The file of a disarmed timer goes.
LEMMA DropTimerKeeps == UnitsInv /\ DropTimer => UnitsInv'
<1> SUFFICES ASSUME UnitsInv, DropTimer PROVE UnitsInv'
  OBVIOUS
<1> USE RunType DEF DropTimer, At, systemd, counters
<1>1. /\ job' \in Job /\ job'.spec = job.spec /\ job'.app = job.app
      /\ job'.todo = job.todo /\ pc' = "prune"
  BY DEF UnitsInv, TypeOK, Job
<1>2. job.stale \in Stems \ Keep /\ armed[job.stale] = None
  BY DEF UnitsInv, Disarmed
<1>3. TypeOK'
  BY <1>1 DEF UnitsInv, TypeOK, TimerText
<1>4. Keep' = Keep /\ Wanted' = Wanted
  BY <1>1 DEF Keep, Wanted
<1>5. TimersFindable' /\ NoDeadTimer' /\ Disarmed'
  BY <1>1, <1>2, WorkloadAssumption
     DEF UnitsInv, TypeOK, TimersFindable, NoDeadTimer, Disarmed
<1>6. PreflightHolds'
  BY <1>1, <1>4 DEF UnitsInv, PreflightHolds
<1>7. \A t \in Wanted : timer'[TaskUnit(job.app, t)] = timer[TaskUnit(job.app, t)]
  BY <1>2, KeepStem DEF UnitsInv, TypeOK
<1>8. TasksWritten'
  BY <1>1, <1>4, <1>7 DEF UnitsInv, TasksWritten, HasTimer
<1> QED
  BY <1>3, <1>5, <1>6, <1>8 DEF UnitsInv

\* Nothing stale is left.
LEMMA PrunedKeeps == UnitsInv /\ Pruned => UnitsInv'
<1> SUFFICES ASSUME UnitsInv, Pruned PROVE UnitsInv'
  OBVIOUS
<1> USE DEF Pruned, At, Goto, files, systemd, counters
<1>1. TypeOK' /\ TimersFindable' /\ NoDeadTimer' /\ Disarmed'
  BY DEF UnitsInv, TypeOK, TimersFindable, NoDeadTimer, Disarmed
<1>2. PreflightHolds' /\ TasksWritten'
  BY DEF UnitsInv, PreflightHolds, TasksWritten, HasTimer, Wanted, Keep, Me
<1> QED
  BY <1>1, <1>2 DEF UnitsInv

\* systemd reads the unit files again.
LEMMA DaemonReloadKeeps == UnitsInv /\ DaemonReload => UnitsInv'
<1> SUFFICES ASSUME UnitsInv, DaemonReload PROVE UnitsInv'
  OBVIOUS
<1> USE DEF DaemonReload, At, files, counters
<1>1. /\ armed' \in [Stems -> TimerText] /\ loaded' \in [Stems -> UnitText]
      /\ TimersFindable' /\ NoDeadTimer'
  BY WorkloadAssumption DEF UnitsInv, TypeOK, TimersFindable, NoDeadTimer, TimerText
<1>2. CASE job.op = "apply"
  <2>1. TypeOK' /\ Disarmed'
    BY <1>1, <1>2 DEF UnitsInv, TypeOK, Disarmed, Goto
  <2>2. PreflightHolds' /\ TasksWritten'
    BY <1>2 DEF UnitsInv, PreflightHolds, TasksWritten, HasTimer, Wanted, Goto
  <2> QED
    BY <1>1, <2>1, <2>2 DEF UnitsInv
<1>3. CASE job.op # "apply"
  BY <1>1, <1>3, EndingKeeps DEF UnitsInv, TypeOK
<1> QED
  BY <1>2, <1>3

\* What starts is a unit.
LEMMA StartedType == UnitsInv => Started \in [Apps -> UnitText]
BY RunType DEF UnitsInv, TypeOK, Started

\* The app is started, or left alone for its timers.
LEMMA StartKeeps == UnitsInv /\ Start => UnitsInv'
<1> SUFFICES ASSUME UnitsInv, Start PROVE UnitsInv'
  OBVIOUS
<1> USE RunType, StartedType DEF Start, At, files, counters
<1>1. TimersFindable' /\ NoDeadTimer'
  BY DEF UnitsInv, TimersFindable, NoDeadTimer
<1>2. CASE Wanted = {}
  BY <1>1, <1>2, EndingKeeps DEF UnitsInv, TypeOK
<1>3. CASE Wanted # {}
  <2>1. /\ job' \in Job /\ job'.spec = job.spec /\ job'.app = job.app
        /\ job'.todo = Wanted /\ pc' = "enable"
    BY <1>3 DEF UnitsInv, TypeOK, Job
  <2>2. Wanted' = Wanted
    BY <2>1 DEF Wanted
  <2>3. TypeOK' /\ Disarmed'
    BY <2>1 DEF UnitsInv, TypeOK, Disarmed
  <2>4. PreflightHolds' /\ TasksWritten'
    BY <2>1, <2>2 DEF UnitsInv, PreflightHolds, TasksWritten, HasTimer
  <2> QED
    BY <1>1, <2>3, <2>4 DEF UnitsInv
<1> QED
  BY <1>2, <1>3

\* Arming a task whose timer file is there.
LEMMA EnabledKeeps ==
  ASSUME UnitsInv, NEW t \in job.todo, pc = "enable",
         armed' = Enabled(t), UNCHANGED timer
  PROVE  armed' \in [Stems -> TimerText] /\ TimersFindable' /\ NoDeadTimer'
<1>1. t \in Wanted /\ HasTimer(t)
  BY DEF UnitsInv, TasksWritten
<1>2. TaskUnit(job.app, t) \in Stems
  BY <1>1, KeepStem
<1> QED
  BY <1>1, <1>2
     DEF UnitsInv, TypeOK, TimersFindable, NoDeadTimer, Enabled, HasTimer

\* A wanted timer is armed.
LEMMA EnableTimerKeeps ==
  ASSUME UnitsInv, NEW t \in Tasks, EnableTimer(t)
  PROVE  UnitsInv'
<1> USE RunType DEF EnableTimer, At, files, counters
<1>1. armed' \in [Stems -> TimerText] /\ TimersFindable' /\ NoDeadTimer'
  BY EnabledKeeps
<1>2. CASE job.todo = {t}
  BY <1>1, <1>2, EndingKeeps DEF UnitsInv, TypeOK
<1>3. CASE job.todo # {t}
  <2>1. /\ job' \in Job /\ job'.spec = job.spec /\ job'.app = job.app
        /\ job'.todo = job.todo \ {t} /\ pc' = "enable"
    BY <1>3 DEF UnitsInv, TypeOK, Job
  <2>2. Wanted' = Wanted
    BY <2>1 DEF Wanted
  <2>3. TypeOK' /\ Disarmed'
    BY <1>1, <2>1 DEF UnitsInv, TypeOK, Disarmed
  <2>4. PreflightHolds' /\ TasksWritten'
    BY <2>1, <2>2 DEF UnitsInv, PreflightHolds, TasksWritten, HasTimer
  <2> QED
    BY <1>1, <2>3, <2>4 DEF UnitsInv
<1> QED
  BY <1>2, <1>3

\* The app's own unit is stopped and deleted.
LEMMA RemoveKeeps ==
  UnitsInv /\ (NothingToRemove \/ Stop \/ DeleteMain) => UnitsInv'
<1> SUFFICES ASSUME UnitsInv, NothingToRemove \/ Stop \/ DeleteMain
             PROVE  UnitsInv'
  OBVIOUS
<1> USE RunType DEF At, Goto, files, systemd, counters
<1>1. TimersFindable' /\ NoDeadTimer'
  BY DEF NothingToRemove, Stop, DeleteMain, UnitsInv, TimersFindable, NoDeadTimer
<1>2. CASE NothingToRemove
  <2>1. CASE job.pruned
    BY <1>1, <1>2, <2>1
       DEF NothingToRemove, UnitsInv, TypeOK, PreflightHolds, TasksWritten, Disarmed,
           Wanted, HasTimer
  <2>2. CASE ~job.pruned
    BY <1>1, <1>2, <2>2, EndingKeeps DEF NothingToRemove, UnitsInv, TypeOK
  <2> QED
    BY <2>1, <2>2
<1>3. CASE Stop
  BY <1>1, <1>3
     DEF Stop, UnitsInv, TypeOK, UnitText, PreflightHolds, TasksWritten, Disarmed,
         Wanted, Me, HasTimer
<1>4. CASE DeleteMain
  BY <1>1, <1>4
     DEF DeleteMain, UnitsInv, TypeOK, UnitText, PreflightHolds, TasksWritten, Disarmed,
         Wanted, HasTimer
<1> QED
  BY <1>2, <1>3, <1>4

\* An empty file is still a file, and no schedule.
LEMMA TornKeeps ==
  ASSUME UnitsInv, Torn, UNCHANGED systemd
  PROVE  /\ unit' \in [Stems -> UnitText] /\ timer' \in [Stems -> TimerText]
         /\ TimersFindable' /\ NoDeadTimer'
BY WorkloadAssumption
   DEF Torn, systemd, UnitsInv, TypeOK, UnitText, TimerText, TimersFindable, NoDeadTimer

\* A systemctl command that fails may have done its work.
LEMMA HalfDoneKeeps ==
  ASSUME UnitsInv, HalfDone, UNCHANGED files
  PROVE  /\ loaded' \in [Stems -> UnitText] /\ armed' \in [Stems -> TimerText]
         /\ running' \in [Apps -> UnitText]
         /\ TimersFindable' /\ NoDeadTimer'
<1> USE DEF files, UnitsInv, TypeOK
<1>1. CASE pc = "start"
  BY <1>1, StartedType, WorkloadAssumption
     DEF HalfDone, UnitText, TimersFindable, NoDeadTimer
<1>2. CASE pc = "enable"
  BY <1>2, EnabledKeeps DEF HalfDone
<1>3. CASE pc = "prune"
  BY <1>3, WorkloadAssumption DEF HalfDone, TimerText, TimersFindable, NoDeadTimer
<1> QED
  BY <1>1, <1>2, <1>3 DEF HalfDone

\* A refusal, a failing step or a crash ends the run where it is.
LEMMA FailureKeeps == UnitsInv /\ (Refused \/ StepFails \/ Crash) => UnitsInv'
<1> SUFFICES ASSUME UnitsInv, Refused \/ StepFails \/ Crash PROVE UnitsInv'
  OBVIOUS
<1>1. /\ unit' \in [Stems -> UnitText] /\ timer' \in [Stems -> TimerText]
      /\ loaded' \in [Stems -> UnitText] /\ armed' \in [Stems -> TimerText]
      /\ running' \in [Apps -> UnitText]
      /\ TimersFindable' /\ NoDeadTimer'
  <2>1. CASE UNCHANGED <<files, systemd>>
    BY <2>1 DEF UnitsInv, TypeOK, TimersFindable, NoDeadTimer, files, systemd
  <2>2. CASE Torn /\ UNCHANGED systemd
    BY <2>2, TornKeeps DEF UnitsInv, TypeOK, systemd
  <2>3. CASE HalfDone /\ UNCHANGED files
    BY <2>3, HalfDoneKeeps DEF UnitsInv, TypeOK, files
  <2> QED
    BY <2>1, <2>2, <2>3 DEF Refused, StepFails, Crash
<1>2. /\ runs' \in 0..MaxRuns /\ faults' \in 0..MaxFaults /\ crashes' \in 0..MaxCrashes
  BY WorkloadAssumption DEF UnitsInv, TypeOK, Refused, StepFails, Crash, counters
<1>3. PICK r \in {"ok", "failed", "died"} : End(r)
  BY DEF Refused, StepFails, Crash
<1> QED
  BY <1>1, <1>2, <1>3, EndingKeeps

\* UnitsInv is inductive.
LEMMA UnitsNext == UnitsInv /\ [Next]_vars => UnitsInv'
<1> SUFFICES ASSUME UnitsInv, [Next]_vars PROVE UnitsInv'
  OBVIOUS
<1>1. CASE \E a \in Apps : StartRemove(a)
  BY <1>1, BeginKeeps, NoSpecType DEF StartRemove
<1>2. CASE \E a \in Apps : \E s \in Specs[a] : StartApply(a, s)
  <2>1. PICK a \in Apps : \E s \in Specs[a] : StartApply(a, s)
    BY <1>2
  <2>2. PICK s \in Specs[a] : StartApply(a, s)
    BY <2>1
  <2>3. s \in AppSpec
    BY <2>2, WorkloadAssumption
  <2> QED
    BY <2>2, <2>3, BeginKeeps DEF StartApply
<1>3. CASE Preflight \/ WriteMain \/ WriteTimer
  BY <1>3, PreflightKeeps, WriteMainKeeps, WriteTimerKeeps
<1>4. CASE \E t \in Tasks : WriteTask(t) \/ EnableTimer(t)
  BY <1>4, WriteTaskKeeps, EnableTimerKeeps
<1>5. CASE Prune
  BY <1>5, PruneContainerKeeps, DisableTimerKeeps, DropTimerKeeps, PrunedKeeps DEF Prune
<1>6. CASE DaemonReload \/ Start
  BY <1>6, DaemonReloadKeeps, StartKeeps
<1>7. CASE NothingToRemove \/ Stop \/ DeleteMain
  BY <1>7, RemoveKeeps
<1>8. CASE Refused \/ StepFails \/ Crash
  BY <1>8, FailureKeeps
<1>9. CASE UNCHANGED vars
  BY <1>9
     DEF vars, files, systemd, counters, UnitsInv, TypeOK, TimersFindable, NoDeadTimer,
         PreflightHolds, TasksWritten, HasTimer, Disarmed, Wanted, Keep, Me
<1> QED
  BY <1>1, <1>2, <1>3, <1>4, <1>5, <1>6, <1>7, <1>8, <1>9 DEF Next

\* Whatever fails and wherever a run dies, a timer that is armed has its file, so
\* that the next apply or remove of its app finds it.
THEOREM TimersStayFindable == Spec => []TimersFindable
<1>1. UnitsInv => TimersFindable
  BY DEF UnitsInv
<1> QED
  BY <1>1, UnitsInit, UnitsNext, PTL DEF Spec

\* The preflight is enough: no timer systemd cannot parse is ever written.
THEOREM TimersFire == Spec => []NoDeadTimer
<1>1. UnitsInv => NoDeadTimer
  BY DEF UnitsInv
<1> QED
  BY <1>1, UnitsInit, UnitsNext, PTL DEF Spec

------------------------------------------------------------------------------
(* Files by hand *)

ForeignKept == \A s \in Stems : /\ unit[s] = Foreign => unit'[s] = Foreign
                                /\ timer[s] = Foreign => timer'[s] = Foreign

\* The writes and deletions of a run are of files the preflight or the ownership
\* guard has seen to be kuadrat's.
LEMMA RunKeepsForeign == UnitsInv /\ Next => ForeignKept
<1> SUFFICES ASSUME UnitsInv, Next PROVE ForeignKept
  OBVIOUS
<1> USE DEF At, ForeignKept, files
<1>1. unit \in [Stems -> UnitText] /\ timer \in [Stems -> TimerText]
  BY DEF UnitsInv, TypeOK
<1>2. CASE WriteMain
  BY <1>1, <1>2 DEF WriteMain, UnitsInv, PreflightHolds
<1>3. CASE \E t \in Tasks : WriteTask(t)
  BY <1>1, <1>3, KeepStem DEF WriteTask, UnitsInv, PreflightHolds, TasksWritten
<1>4. CASE WriteTimer
  <2>1. TaskUnit(job.app, job.task) \in Keep
    BY <1>4, KeepStem DEF WriteTimer, UnitsInv, TasksWritten
  <2> QED
    BY <1>1, <1>4, <2>1 DEF WriteTimer, UnitsInv, PreflightHolds
<1>5. CASE \E s \in Stems : PruneContainer(s)
  BY <1>1, <1>5 DEF PruneContainer
<1>6. CASE DropTimer
  BY <1>1, <1>6 DEF DropTimer, UnitsInv, Disarmed
<1>7. CASE DeleteMain
  BY <1>1, <1>7 DEF DeleteMain, UnitsInv, PreflightHolds
<1>8. CASE Torn
  BY <1>1, <1>8 DEF Torn
<1>9. CASE UNCHANGED files
  BY <1>9
<1> QED
  BY <1>2, <1>3, <1>4, <1>5, <1>6, <1>7, <1>8, <1>9
     DEF Next, Prune, StartRemove, StartApply, Preflight, EnableTimer, DisableTimer,
         Pruned, DaemonReload, Start, NothingToRemove, Stop, Refused, StepFails, Crash

\* A file the operator wrote is neither overwritten nor deleted, at any path an
\* app's units or its neighbours' may share with it.
THEOREM ForeignSafe == Spec => ForeignFilesKept
<1>1. UnitsInv /\ [Next]_vars => [ForeignKept]_vars
  BY RunKeepsForeign
<1> QED
  BY <1>1, UnitsInit, UnitsNext, PTL DEF Spec, ForeignFilesKept, ForeignKept

------------------------------------------------------------------------------
(* Stems *)

\* A task's unit has its app's prefix, which the app's own unit has not, and its
\* name after it.
LEMMA StemsOf ==
  ASSUME NEW a \in Apps
  PROVE  /\ ~IsPrefix(TaskPrefix(a), Main(a))
         /\ \A t \in Tasks : IsPrefix(TaskPrefix(a), TaskUnit(a, t))
         /\ \A t \in Tasks : TaskUnit(a, t) # Main(a)
         /\ \A t, u \in Tasks : TaskUnit(a, t) = TaskUnit(a, u) => t = u
<1> DEFINE p == TaskPrefix(a)
           Words == STRING \cup {"task"}
<1>0. \A s \in Seq(STRING) : s \in Seq(Words)
  BY SeqMonotonic
<1>1. a \in Seq(Words) /\ <<"task">> \in Seq(Words) /\ Len(<<"task">>) = 1
  <2>1. a \in Seq(Words)
    BY <1>0, SlugAssumption
  <2>2. "task" \in Words
    OBVIOUS
  <2> HIDE DEF Words
  <2>3. <<"task">> \in Seq(Words) /\ Len(<<"task">>) = 1
    BY <2>2
  <2> QED
    BY <2>1, <2>3
<1> HIDE DEF Words
<1>2. p \in Seq(Words) /\ Len(p) = Len(a) + 1 /\ Len(a) \in Nat
  BY <1>1, ConcatProperties, LenProperties DEF TaskPrefix
<1> HIDE DEF p
<1>3. ~IsPrefix(p, Main(a))
  BY <1>2 DEF IsPrefix, Main
<1>4. ASSUME NEW t \in Tasks PROVE IsPrefix(p, TaskUnit(a, t))
  <2>1. t \in Seq(Words) /\ Len(t) \in Nat
    BY <1>0, SlugAssumption, LenProperties
  <2>2. TaskUnit(a, t) = p \o t /\ Len(p \o t) = Len(p) + Len(t)
    BY <2>1, <1>2, ConcatProperties DEF TaskUnit, p
  <2>3. Len(p) \in 1..Len(p) /\ 1 \in 1..Len(p) /\ Len(p) <= Len(p) + Len(t)
    BY <1>2, <2>1
  <2>4. SubSeq(p \o t, 1, Len(p)) = SubSeq(p, 1, Len(p))
    BY <1>2, <2>1, <2>3, SubSeqOfConcat1
  <2> QED
    BY <2>2, <2>3, <2>4 DEF IsPrefix
<1>5. ASSUME NEW t \in Tasks, NEW u \in Tasks, TaskUnit(a, t) = TaskUnit(a, u)
      PROVE  t = u
  <2>1. t \in Seq(Words) /\ u \in Seq(Words)
    BY <1>0, SlugAssumption
  <2>2. p \o t = p \o u
    BY <1>5 DEF TaskUnit, p
  <2> QED
    BY <2>1, <2>2, <1>2, ConcatSimplifications
<1> QED
  BY <1>3, <1>4, <1>5 DEF p

\* The stems of this run's app.
Own(s) == s = Me \/ IsPrefix(TaskPrefix(job.app), s)

LEMMA OwnApart ==
  ASSUME NamesApart, job.app \in Apps, NEW a \in Apps \ {job.app}, NEW s \in UnitsOf(a)
  PROVE  ~Own(s)
<1>1. ~IsPrefix(TaskPrefix(job.app), s)
  BY DEF NamesApart
<1>2. CASE s = Main(a)
  BY <1>1, <1>2 DEF Own, Me, Main
<1>3. ASSUME NEW t \in Tasks, s = TaskUnit(a, t) PROVE ~Own(s)
  <2>1. Me \in UnitsOf(job.app)
    BY DEF UnitsOf, Me
  <2>2. ~IsPrefix(TaskPrefix(a), Me)
    BY <2>1 DEF NamesApart
  <2> QED
    BY <1>1, <1>3, <2>2, StemsOf DEF Own
<1> QED
  BY <1>2, <1>3 DEF UnitsOf

------------------------------------------------------------------------------
(* Neighbours *)

\* What a step leaves alone: the files, timers and containers of others.
OthersKept ==
    /\ \A s \in Stems : ~Own(s) => /\ unit'[s] = unit[s] /\ timer'[s] = timer[s]
                                   /\ (armed'[s] = None) <=> (armed[s] = None)
    /\ \A a \in Apps \ {job.app} : running'[a] = running[a]

\* The scan of the directories turns up units of this app only.
LEMMA StepKeepsOthers == UnitsInv /\ Next => OthersKept \/ UNCHANGED <<files, systemd>>
<1> SUFFICES ASSUME UnitsInv, Next PROVE OthersKept \/ UNCHANGED <<files, systemd>>
  OBVIOUS
<1> USE DEF At, files, systemd
<1>1. /\ unit \in [Stems -> UnitText] /\ timer \in [Stems -> TimerText]
      /\ armed \in [Stems -> TimerText] /\ running \in [Apps -> UnitText]
  BY DEF UnitsInv, TypeOK
<1>2. Own(Me) /\ \A t \in Tasks : Own(TaskUnit(job.app, t))
  BY RunType, StemsOf DEF Own
<1>3. \A s \in StaleIn(unit) \cup StaleIn(timer) : Own(s)
  BY DEF StaleIn, Own
<1>4. job.todo \subseteq Tasks
  BY DEF UnitsInv, TypeOK, Job
<1>5. pc = "timer" => job.task \in Tasks
  BY <1>4 DEF UnitsInv, TasksWritten
<1>6. pc = "drop" => Own(job.stale)
  BY DEF UnitsInv, Disarmed, Own
<1>7. CASE WriteMain
  BY <1>1, <1>2, <1>7 DEF WriteMain, OthersKept
<1>8. CASE \E t \in Tasks : WriteTask(t)
  BY <1>1, <1>2, <1>8 DEF WriteTask, OthersKept
<1>9. CASE WriteTimer
  BY <1>1, <1>2, <1>5, <1>9 DEF WriteTimer, OthersKept
<1>10. CASE \E s \in Stems : PruneContainer(s)
  BY <1>1, <1>3, <1>10 DEF PruneContainer, OthersKept
<1>11. CASE \E s \in Stems : DisableTimer(s)
  BY <1>1, <1>3, <1>11 DEF DisableTimer, OthersKept
<1>12. CASE DropTimer
  BY <1>1, <1>6, <1>12 DEF DropTimer, OthersKept
<1>13. CASE DaemonReload
  BY <1>1, <1>13 DEF DaemonReload, OthersKept, UnitsInv, TimersFindable
<1>14. CASE Start
  BY <1>1, <1>14 DEF Start, Started, OthersKept
<1>15. CASE \E t \in Tasks : EnableTimer(t)
  BY <1>1, <1>2, <1>15 DEF EnableTimer, Enabled, OthersKept
<1>16. CASE Stop
  BY <1>1, <1>16 DEF Stop, OthersKept
<1>17. CASE DeleteMain
  BY <1>1, <1>2, <1>17 DEF DeleteMain, OthersKept
<1>18. CASE Torn /\ UNCHANGED systemd
  BY <1>1, <1>2, <1>4, <1>5, <1>18 DEF Torn, OthersKept
<1>19. CASE HalfDone /\ UNCHANGED files
  <2>1. CASE pc = "start"
    BY <1>1, <1>19, <2>1 DEF HalfDone, Started, OthersKept
  <2>2. CASE pc = "enable"
    BY <1>1, <1>2, <1>4, <1>19, <2>2 DEF HalfDone, Enabled, OthersKept
  <2>3. CASE pc = "prune"
    BY <1>1, <1>3, <1>19, <2>3 DEF HalfDone, OthersKept, StaleIn
  <2> QED
    BY <1>19, <2>1, <2>2, <2>3 DEF HalfDone
<1>20. CASE UNCHANGED <<files, systemd>>
  BY <1>20
<1> QED
  BY <1>7, <1>8, <1>9, <1>10, <1>11, <1>12, <1>13, <1>14, <1>15, <1>16, <1>17, <1>18,
     <1>19, <1>20
     DEF Next, Prune, StartRemove, StartApply, Preflight, Pruned, NothingToRemove,
         Refused, StepFails, Crash

\* A run works on one app from its first step to its last.
LEMMA SameApp == UnitsInv /\ Next => job'.app = job.app \/ UNCHANGED <<files, systemd>>
<1> SUFFICES ASSUME UnitsInv, Next PROVE job'.app = job.app \/ UNCHANGED <<files, systemd>>
  OBVIOUS
<1>1. job \in Job
  BY DEF UnitsInv, TypeOK
<1> QED
  BY <1>1
     DEF Next, Prune, StartRemove, StartApply, Preflight, Pruned, NothingToRemove,
         Refused, StepFails, Crash, WriteMain, WriteTask, WriteTimer, PruneContainer,
         DisableTimer, DropTimer, DaemonReload, Start, EnableTimer, Stop, DeleteMain,
         End, Goto, Job, files, systemd

NeighboursSafe ==
    \A a \in Apps \ {job'.app} : \A s \in UnitsOf(a) :
         /\ unit'[s] = unit[s] /\ timer'[s] = timer[s]
         /\ (armed'[s] = None) <=> (armed[s] = None)
         /\ running'[a] = running[a]

\* Where no app's unit looks like another's task, a run touches nothing of its
\* neighbours, although the directories it scans hold everyone's units
\* (apply.rs:137-175).
THEOREM NeighboursLeftAlone ==
  ASSUME NamesApart
  PROVE  Spec => NeighboursKept
<1>1. UnitsInv /\ [Next]_vars => [NeighboursSafe]_vars
  <2> SUFFICES ASSUME UnitsInv, Next PROVE NeighboursSafe
    OBVIOUS
  <2>1. CASE UNCHANGED <<files, systemd>>
    BY <2>1 DEF NeighboursSafe, files, systemd
  <2>2. CASE OthersKept /\ job'.app = job.app
    <3> SUFFICES ASSUME NEW a \in Apps \ {job.app}, NEW s \in UnitsOf(a)
                 PROVE  /\ unit'[s] = unit[s] /\ timer'[s] = timer[s]
                        /\ (armed'[s] = None) <=> (armed[s] = None)
                        /\ running'[a] = running[a]
      BY <2>2 DEF NeighboursSafe
    <3>1. s \in Stems
      BY UnitsAreStems DEF UnitsOf
    <3>2. ~Own(s)
      BY OwnApart, RunType
    <3> QED
      BY <2>2, <3>1, <3>2 DEF OthersKept
  <2> QED
    BY <2>1, <2>2, StepKeepsOthers, SameApp
<1> QED
  BY <1>1, UnitsInit, UnitsNext, PTL DEF Spec, NeighboursKept, NeighboursSafe

------------------------------------------------------------------------------
(* What a run leaves on disk and in systemd, whatever the apps are called *)

FilesInv == UnitsInv /\ RunInv

\* A run touches, of others' files, timers and containers, at most units whose
\* stems start with its own app's task prefix, whatever the apps are called
\* (apply.rs:137-175).
THEOREM RunKeepsToItsPrefix ==
  Spec => [][(OthersKept /\ job'.app = job.app) \/ UNCHANGED <<files, systemd>>]_vars
<1>1. UnitsInv /\ [Next]_vars =>
        [(OthersKept /\ job'.app = job.app) \/ UNCHANGED <<files, systemd>>]_vars
  BY StepKeepsOthers, SameApp
<1> QED
  BY <1>1, UnitsInit, UnitsNext, PTL DEF Spec

\* The stems of the spec, and what a run never takes for stale.
LEMMA RunStems ==
  ASSUME UnitsInv
  PROVE  /\ \A t \in Wanted : TaskUnit(job.app, t) \in Keep /\ TaskUnit(job.app, t) # Me
         /\ \A t, u \in Tasks : TaskUnit(job.app, t) = TaskUnit(job.app, u) => t = u
         /\ \A t \in Tasks : TaskUnit(job.app, t) \in Stems /\ TaskUnit(job.app, t) # Me
         /\ Keep \subseteq TaskUnits(job.app)
         /\ Me \notin TaskUnits(job.app)
BY RunType, StemsOf DEF Keep, Me, TaskUnits

\* How a run ends leaves what it was asked for in its locals.
LEMMA Ending ==
  ASSUME UnitsInv, NEW r \in {"ok", "failed", "died"}, End(r)
  PROVE  /\ pc' = "idle" /\ job'.result = r
         /\ job'.op = job.op /\ job'.app = job.app /\ job'.spec = job.spec
         /\ job'.seen = job.seen
<1>1. job \in Job
  BY DEF UnitsInv, TypeOK
<1> QED
  BY <1>1 DEF End, Job

\* A run that ends badly owes nothing.
LEMMA EndsBadly ==
  ASSUME FilesInv, NEW r \in {"failed", "died"}, End(r)
  PROVE  RunInv'
<1>1. /\ pc' = "idle" /\ job'.result = r
      /\ job'.op = job.op /\ job'.spec = job.spec
  BY Ending DEF FilesInv
<1>2. OpKnown'
  BY <1>1 DEF FilesInv, RunInv, OpKnown, Wanted
<1> QED
  BY <1>1, <1>2 DEF RunInv, FilesSoFar, SystemdSoFar, Succeeded

\* What is on the host when the scans find nothing stale and every task has its
\* files.
LEMMA FilesExact ==
  ASSUME UnitsInv, StaleIn(unit) = {}, StaleIn(timer) = {}, \A t \in Wanted : Written(t)
  PROVE  /\ \A s \in TaskUnits(job.app) :
              /\ unit[s] = IF s \in Keep THEN job.spec.text ELSE None
              /\ (timer[s] # None) <=> (s \in Keep)
              /\ s \notin Keep => armed[s] = None
         /\ \A t \in Wanted : timer[TaskUnit(job.app, t)] = job.spec.tasks[t]
<1>1. \A t \in Wanted : job.spec.tasks[t] # None
  BY RunType, WorkloadAssumption
<1>2. \A t \in Wanted : timer[TaskUnit(job.app, t)] = job.spec.tasks[t]
  BY DEF Written
<1>3. ASSUME NEW s \in TaskUnits(job.app), s \in Keep
      PROVE  unit[s] = job.spec.text /\ timer[s] # None
  BY <1>1, <1>3 DEF Keep, Written
<1>4. ASSUME NEW s \in TaskUnits(job.app), s \notin Keep
      PROVE  unit[s] = None /\ timer[s] = None /\ armed[s] = None
  <2>1. unit[s] = None /\ timer[s] = None
    BY <1>4 DEF StaleIn, TaskUnits
  <2> QED
    BY <2>1 DEF UnitsInv, TimersFindable, TaskUnits
<1> QED
  BY <1>2, <1>3, <1>4

\* A run begins.
LEMMA BeginFiles ==
  ASSUME FilesInv, NEW a \in Apps, NEW s \in AppSpec,
         \/ pc' = "check" /\ job' = Begun("apply", a, s)
         \/ pc' = "prune" /\ job' = Begun("remove", a, NoSpec)
  PROVE  RunInv'
<1>1. /\ job'.result = "failed"
      /\ pc' = "check" => job'.op = "apply"
      /\ pc' = "prune" => job'.op = "remove"
      /\ pc' = "prune" => Wanted' = {}
      /\ pc' \in {"check", "prune"}
  BY NoSpecType DEF Begun, Wanted
<1>2. job'.op = "remove" => Wanted' = {}
  BY <1>1
<1> QED
  BY <1>1, <1>2 DEF RunInv, OpKnown, FilesSoFar, SystemdSoFar, Succeeded

LEMMA PreflightFiles == FilesInv /\ Preflight => RunInv'
<1> SUFFICES ASSUME FilesInv, Preflight PROVE RunInv'
  OBVIOUS
<1>1. job \in Job
  BY DEF FilesInv, UnitsInv, TypeOK
<1>2. /\ pc = "check" /\ pc' = "write"
      /\ job'.op = job.op /\ job'.spec = job.spec /\ job'.result = job.result
  BY <1>1 DEF Preflight, At, Job
<1>3. OpKnown'
  BY <1>2 DEF FilesInv, RunInv, OpKnown, Wanted
<1> QED
  BY <1>2, <1>3 DEF RunInv, FilesSoFar, SystemdSoFar, Succeeded

\* The main unit is written; no task is yet.
LEMMA WriteMainFiles == FilesInv /\ WriteMain => RunInv'
<1> SUFFICES ASSUME FilesInv, WriteMain PROVE RunInv'
  OBVIOUS
<1>1. /\ pc = "write" /\ job' = job /\ pc' \in {"prune", "tasks"}
      /\ pc' = "prune" => job.todo = {}
  BY DEF WriteMain, At, Goto, AfterWrites
<1>2. unit'[Me] = job.spec.text
  BY RunType DEF WriteMain, FilesInv, UnitsInv, TypeOK
<1>3. job.todo = Wanted
  BY <1>1 DEF FilesInv, UnitsInv, TasksWritten
<1>4. OpKnown'
  BY <1>1 DEF FilesInv, RunInv, OpKnown, Wanted
<1>5. FilesSoFar'
  BY <1>1, <1>2, <1>3 DEF FilesSoFar, Wanted, Me
<1> QED
  BY <1>1, <1>4, <1>5 DEF RunInv, SystemdSoFar, Succeeded

\* A task's unit is written, beside the others' and the main unit.
LEMMA WriteTaskFiles ==
  ASSUME FilesInv, NEW t \in Tasks, WriteTask(t)
  PROVE  RunInv'
<1>0. job \in Job /\ UnitsInv
  BY DEF FilesInv, UnitsInv, TypeOK
<1>1. /\ pc = "tasks" /\ pc' = "timer" /\ t \in job.todo /\ UNCHANGED <<timer, systemd>>
      /\ job'.task = t /\ job'.op = job.op /\ job'.app = job.app
      /\ job'.spec = job.spec /\ job'.result = job.result /\ job'.todo = job.todo
  BY <1>0 DEF WriteTask, At, Job
<1>2. TaskUnit(job.app, t) \in Stems /\ TaskUnit(job.app, t) # Me
  BY <1>0, RunStems
<1>3. /\ unit'[TaskUnit(job.app, t)] = job.spec.text
      /\ \A s \in Stems : s # TaskUnit(job.app, t) => unit'[s] = unit[s]
  BY <1>2 DEF WriteTask, FilesInv, UnitsInv, TypeOK
<1>4. OpKnown'
  BY <1>1 DEF FilesInv, RunInv, OpKnown, Wanted
<1>5. FilesSoFar'
  <2>1. unit'[Me] = unit[Me]
    BY <1>2, <1>3, RunType DEF FilesInv
  <2>2. ASSUME NEW u \in Wanted \ job.todo PROVE Written(u)'
    <3>1. u \in Tasks /\ u # t /\ TaskUnit(job.app, u) \in Stems
      BY <1>0, <1>1, RunType, RunStems
    <3>2. TaskUnit(job.app, u) # TaskUnit(job.app, t)
      BY <1>0, <3>1, RunStems
    <3>3. Written(u)
      BY <1>1 DEF FilesInv, RunInv, FilesSoFar
    <3> QED
      BY <1>1, <1>3, <3>1, <3>2, <3>3 DEF Written
  <2> QED
    BY <1>1, <1>3, <2>1, <2>2 DEF FilesInv, RunInv, FilesSoFar, Wanted, Me
<1> QED
  BY <1>1, <1>4, <1>5 DEF RunInv, SystemdSoFar, Succeeded

\* And its timer.
LEMMA WriteTimerFiles == FilesInv /\ WriteTimer => RunInv'
<1> SUFFICES ASSUME FilesInv, WriteTimer PROVE RunInv'
  OBVIOUS
<1>0. job \in Job /\ UnitsInv
  BY DEF FilesInv, UnitsInv, TypeOK
<1>1. /\ pc = "timer" /\ pc' \in {"tasks", "prune"} /\ UNCHANGED <<unit, systemd>>
      /\ job'.op = job.op /\ job'.app = job.app
      /\ job'.spec = job.spec /\ job'.result = job.result
      /\ job'.todo = job.todo \ {job.task}
      /\ pc' = "prune" => job.todo \ {job.task} = {}
  BY <1>0 DEF WriteTimer, At, Job, AfterWrites
<1>2. job.task \in Tasks /\ job.task \in Wanted /\ TaskUnit(job.app, job.task) \in Stems
  BY <1>0, <1>1, RunType, RunStems DEF UnitsInv, TasksWritten
<1>3. /\ timer'[TaskUnit(job.app, job.task)] = job.spec.tasks[job.task]
      /\ \A s \in Stems : s # TaskUnit(job.app, job.task) => timer'[s] = timer[s]
  BY <1>2 DEF WriteTimer, FilesInv, UnitsInv, TypeOK
<1>4. ASSUME NEW u \in Wanted \ (job.todo \ {job.task}) PROVE Written(u)'
  <2>1. CASE u = job.task
    BY <2>1, <1>1, <1>3 DEF FilesInv, RunInv, FilesSoFar, Written
  <2>2. CASE u # job.task
    <3>1. u \in Tasks /\ TaskUnit(job.app, u) \in Stems
          /\ TaskUnit(job.app, u) # TaskUnit(job.app, job.task)
      BY <1>0, <1>2, <2>2, RunType, RunStems
    <3>2. Written(u)
      BY <1>1, <2>2 DEF FilesInv, RunInv, FilesSoFar
    <3> QED
      BY <1>1, <1>3, <3>1, <3>2 DEF Written
  <2> QED
    BY <2>1, <2>2
<1>5. OpKnown'
  BY <1>1 DEF FilesInv, RunInv, OpKnown, Wanted
<1>6. FilesSoFar'
  BY <1>1, <1>4 DEF FilesInv, RunInv, FilesSoFar, Wanted, Me
<1> QED
  BY <1>1, <1>5, <1>6 DEF RunInv, SystemdSoFar, Succeeded

\* A stale container unit is deleted: one under this app's prefix, and so not its
\* main unit, and not one of its spec.
LEMMA PruneContainerFiles ==
  ASSUME FilesInv, NEW s \in Stems, PruneContainer(s)
  PROVE  RunInv'
<1>0. job \in Job /\ UnitsInv /\ job.app \in Apps
  BY DEF FilesInv, UnitsInv, TypeOK, Job
<1>1. /\ pc = "prune" /\ pc' = "prune" /\ UNCHANGED <<timer, systemd>>
      /\ job'.op = job.op /\ job'.app = job.app
      /\ job'.spec = job.spec /\ job'.result = job.result
  BY <1>0 DEF PruneContainer, At, Job
<1>2. s \in TaskUnits(job.app) /\ s \notin Keep
  BY DEF PruneContainer, StaleIn, TaskUnits
<1>3. \A u \in Stems : u # s => unit'[u] = unit[u]
  BY DEF PruneContainer, FilesInv, UnitsInv, TypeOK
<1>4. \A t \in Wanted : unit'[TaskUnit(job.app, t)] = unit[TaskUnit(job.app, t)]
  BY <1>0, <1>2, <1>3, RunStems, RunType
<1>5. unit'[Me] = unit[Me]
  BY <1>0, <1>2, <1>3, RunStems, RunType
<1>6. OpKnown'
  BY <1>1 DEF FilesInv, RunInv, OpKnown, Wanted
<1>7. FilesSoFar'
  <2>1. \A t \in Wanted : Written(t)'
    BY <1>1, <1>4 DEF FilesInv, RunInv, FilesSoFar, Written
  <2> QED
    BY <1>1, <1>5, <2>1 DEF FilesInv, RunInv, FilesSoFar, Wanted, Me
<1> QED
  BY <1>1, <1>6, <1>7 DEF RunInv, SystemdSoFar, Succeeded

\* A stale timer is disabled.
LEMMA DisableTimerFiles ==
  ASSUME FilesInv, NEW s \in Stems, DisableTimer(s)
  PROVE  RunInv'
<1>0. job \in Job
  BY DEF FilesInv, UnitsInv, TypeOK
<1>1. /\ pc = "prune" /\ pc' = "drop" /\ UNCHANGED files
      /\ job'.op = job.op /\ job'.app = job.app
      /\ job'.spec = job.spec /\ job'.result = job.result
  BY <1>0 DEF DisableTimer, At, Job
<1>2. OpKnown'
  BY <1>1 DEF FilesInv, RunInv, OpKnown, Wanted
<1>3. FilesSoFar'
  BY <1>1 DEF FilesInv, RunInv, FilesSoFar, Wanted, Me, Written, files
<1> QED
  BY <1>1, <1>2, <1>3 DEF RunInv, SystemdSoFar, Succeeded

\* And deleted.
LEMMA DropTimerFiles == FilesInv /\ DropTimer => RunInv'
<1> SUFFICES ASSUME FilesInv, DropTimer PROVE RunInv'
  OBVIOUS
<1>0. job \in Job /\ UnitsInv
  BY DEF FilesInv, UnitsInv, TypeOK
<1>1. /\ pc = "drop" /\ pc' = "prune" /\ UNCHANGED <<unit, systemd>>
      /\ job'.op = job.op /\ job'.app = job.app
      /\ job'.spec = job.spec /\ job'.result = job.result
  BY <1>0 DEF DropTimer, At, Job
<1>2. job.stale \notin Keep /\ \A u \in Stems : u # job.stale => timer'[u] = timer[u]
  BY <1>0, <1>1 DEF DropTimer, UnitsInv, TypeOK, Disarmed
<1>3. \A t \in Wanted : Written(t)'
  <2> SUFFICES ASSUME NEW t \in Wanted PROVE Written(t)'
    OBVIOUS
  <2>1. timer'[TaskUnit(job.app, t)] = timer[TaskUnit(job.app, t)]
    BY <1>0, <1>2, RunStems, RunType
  <2> QED
    BY <1>1, <2>1 DEF FilesInv, RunInv, FilesSoFar, Written
<1>4. OpKnown'
  BY <1>1 DEF FilesInv, RunInv, OpKnown, Wanted
<1>5. FilesSoFar'
  BY <1>1, <1>3 DEF FilesInv, RunInv, FilesSoFar, Wanted, Me
<1> QED
  BY <1>1, <1>4, <1>5 DEF RunInv, SystemdSoFar, Succeeded

\* Nothing stale is left.
LEMMA PrunedFiles == FilesInv /\ Pruned => RunInv'
<1> SUFFICES ASSUME FilesInv, Pruned PROVE RunInv'
  OBVIOUS
<1>0. job.op \in {"apply", "remove"}
  BY DEF FilesInv, UnitsInv, TypeOK, Job
<1>1. /\ pc = "prune" /\ job' = job /\ UNCHANGED <<files, systemd>>
      /\ StaleIn(unit) = {} /\ StaleIn(timer) = {}
      /\ pc' \in {"reload", "stop"}
      /\ pc' = "reload" => job.op = "apply"
      /\ pc' = "stop" => job.op = "remove"
  BY <1>0 DEF Pruned, At, Goto
<1>2. OpKnown'
  BY <1>1 DEF FilesInv, RunInv, OpKnown, Wanted
<1>3. StaleIn(unit)' = {} /\ StaleIn(timer)' = {}
  BY <1>1 DEF StaleIn, Keep, Wanted, files
<1>4. FilesSoFar'
  BY <1>1, <1>3 DEF FilesInv, RunInv, FilesSoFar, Wanted, Me, Written, files
<1> QED
  BY <1>1, <1>2, <1>4 DEF RunInv, SystemdSoFar, Succeeded

\* A removal that ends well leaves nothing: what it has pruned is neither on disk
\* nor armed.
LEMMA RemovedFiles ==
  ASSUME FilesInv, End("ok"), job.op = "remove",
         StaleIn(unit) = {}, StaleIn(timer) = {}, unit[Me] = None,
         UNCHANGED files,
         \A s \in Stems : armed[s] = None => armed'[s] = None
  PROVE  RunInv'
<1>1. UnitsInv /\ Wanted = {} /\ Keep = {}
  BY DEF FilesInv, RunInv, OpKnown, Keep
<1>2. /\ pc' = "idle" /\ job'.op = "remove" /\ job'.app = job.app /\ job'.spec = job.spec
  BY <1>1, Ending
<1>3. \A s \in TaskUnits(job.app) : unit[s] = None /\ timer[s] = None /\ armed[s] = None
  BY <1>1, FilesExact
<1>4. FilesAsAsked'
  <2>1. Keep' = {} /\ Wanted' = {} /\ Me' = Me
    BY <1>1, <1>2 DEF Keep, Wanted, Me
  <2>2. \A s \in TaskUnits(job.app) : unit'[s] = None /\ timer'[s] = None /\ armed'[s] = None
    BY <1>3 DEF files, TaskUnits
  <2>3. unit'[Me] = None
    BY DEF files
  <2> QED
    BY <1>2, <2>1, <2>2, <2>3 DEF FilesAsAsked
<1>5. OpKnown'
  BY <1>1, <1>2 DEF OpKnown, Wanted
<1> QED
  BY <1>2, <1>4, <1>5 DEF RunInv, FilesSoFar, SystemdSoFar

\* systemd reads what is on disk.
LEMMA DaemonReloadFiles == FilesInv /\ DaemonReload => RunInv'
<1> SUFFICES ASSUME FilesInv, DaemonReload PROVE RunInv'
  OBVIOUS
<1>0. job.op \in {"apply", "remove"}
  BY DEF FilesInv, UnitsInv, TypeOK, Job
<1>1. /\ pc = "reload" /\ loaded' = unit /\ UNCHANGED files
      /\ armed' = [s \in Stems |-> IF armed[s] = None THEN None ELSE timer[s]]
      /\ StaleIn(unit) = {} /\ StaleIn(timer) = {}
  BY DEF DaemonReload, At, FilesInv, RunInv, FilesSoFar
<1>2. CASE job.op = "remove"
  <2>1. End("ok")
    BY <1>2 DEF DaemonReload
  <2>2. unit[Me] = None
    BY <1>1, <1>2 DEF FilesInv, RunInv, FilesSoFar
  <2> QED
    BY <1>1, <1>2, <2>1, <2>2, RemovedFiles
<1>3. CASE job.op = "apply"
  <2>1. pc' = "start" /\ job' = job
    BY <1>3 DEF DaemonReload, Goto
  <2>2. OpKnown'
    BY <1>1, <1>3, <2>1 DEF FilesInv, RunInv, OpKnown, Wanted
  <2>3. StaleIn(unit)' = {} /\ StaleIn(timer)' = {}
    BY <1>1, <2>1 DEF StaleIn, Keep, Wanted, files
  <2>4. FilesSoFar'
    BY <1>1, <1>3, <2>1, <2>3 DEF FilesInv, RunInv, FilesSoFar, Wanted, Me, Written, files
  <2>5. SystemdSoFar'
    BY <1>1, <2>1 DEF SystemdSoFar, files
  <2> QED
    BY <2>1, <2>2, <2>4, <2>5 DEF RunInv, Succeeded
<1> QED
  BY <1>0, <1>2, <1>3

\* An apply that ends well leaves the spec, every task armed by its timer.
LEMMA AppliedFiles ==
  ASSUME FilesInv, End("ok"), job.op = "apply",
         StaleIn(unit) = {}, StaleIn(timer) = {}, \A t \in Wanted : Written(t),
         unit[Me] = job.spec.text, loaded = unit, UNCHANGED <<files, loaded>>,
         \A s \in Stems : armed[s] = None => armed'[s] \in {None, timer[s]},
         \A t \in Wanted : armed'[TaskUnit(job.app, t)] = timer[TaskUnit(job.app, t)]
  PROVE  RunInv'
<1>1. UnitsInv
  BY DEF FilesInv
<1>2. /\ pc' = "idle" /\ job'.op = "apply" /\ job'.app = job.app /\ job'.spec = job.spec
  BY <1>1, Ending
<1>3. Keep' = Keep /\ Wanted' = Wanted /\ Me' = Me
  BY <1>2 DEF Keep, Wanted, Me
<1>4. /\ \A s \in TaskUnits(job.app) :
            /\ unit[s] = IF s \in Keep THEN job.spec.text ELSE None
            /\ (timer[s] # None) <=> (s \in Keep)
            /\ s \notin Keep => armed[s] = None
      /\ \A t \in Wanted : timer[TaskUnit(job.app, t)] = job.spec.tasks[t]
  BY <1>1, FilesExact
<1>5. \A s \in TaskUnits(job.app) : armed'[s] = timer[s]
  BY <1>4 DEF Keep, TaskUnits
<1>6. FilesAsAsked'
  <2>1. \A s \in TaskUnits(job.app) :
            /\ unit'[s] = IF s \in Keep THEN job.spec.text ELSE None
            /\ (timer'[s] # None) <=> (s \in Keep)
            /\ armed'[s] = timer'[s]
            /\ loaded'[s] = unit'[s]
    BY <1>4, <1>5 DEF files
  <2>2. \A t \in Wanted : timer'[TaskUnit(job.app, t)] = job.spec.tasks[t]
    BY <1>4 DEF files
  <2>3. unit'[Me] = job.spec.text /\ loaded'[Me] = unit'[Me]
    BY DEF files
  <2> QED
    BY <1>2, <1>3, <2>1, <2>2, <2>3 DEF FilesAsAsked
<1>7. OpKnown'
  BY <1>2 DEF OpKnown
<1> QED
  BY <1>2, <1>6, <1>7 DEF RunInv, FilesSoFar, SystemdSoFar

LEMMA StartFiles == FilesInv /\ Start => RunInv'
<1> SUFFICES ASSUME FilesInv, Start PROVE RunInv'
  OBVIOUS
<1>0. job \in Job /\ UnitsInv
  BY DEF FilesInv, UnitsInv, TypeOK
<1>1. pc = "start" /\ UNCHANGED <<files, loaded, armed>>
  BY DEF Start, At
<1>2. /\ job.op = "apply" /\ unit[Me] = job.spec.text /\ loaded = unit
      /\ StaleIn(unit) = {} /\ StaleIn(timer) = {} /\ \A t \in Wanted : Written(t)
      /\ \A s \in Stems : armed[s] \in {None, timer[s]}
  BY <1>1 DEF FilesInv, RunInv, OpKnown, FilesSoFar, SystemdSoFar
<1>3. CASE Wanted = {}
  <2>1. End("ok")
    BY <1>3 DEF Start
  <2> QED
    BY <1>1, <1>2, <1>3, <2>1, AppliedFiles
<1>4. CASE Wanted # {}
  <2>1. /\ pc' = "enable" /\ job'.todo = Wanted
        /\ job'.op = job.op /\ job'.app = job.app
        /\ job'.spec = job.spec /\ job'.result = job.result
    BY <1>0, <1>4 DEF Start, Job
  <2>2. OpKnown'
    BY <1>1, <2>1 DEF FilesInv, RunInv, OpKnown, Wanted
  <2>3. StaleIn(unit)' = {} /\ StaleIn(timer)' = {}
    BY <1>1, <1>2, <2>1 DEF StaleIn, Keep, Wanted, files
  <2>4. FilesSoFar'
    BY <1>1, <1>2, <2>1, <2>3 DEF FilesSoFar, Wanted, Me, Written, files
  <2>5. SystemdSoFar'
    BY <1>1, <1>2, <2>1 DEF SystemdSoFar, Wanted, files
  <2> QED
    BY <2>1, <2>2, <2>4, <2>5 DEF RunInv, Succeeded
<1> QED
  BY <1>3, <1>4

\* A timer is enabled; the last one ends the run.
LEMMA EnableTimerFiles ==
  ASSUME FilesInv, NEW t \in Tasks, EnableTimer(t)
  PROVE  RunInv'
<1>0. job \in Job /\ UnitsInv
  BY DEF FilesInv, UnitsInv, TypeOK
<1>1. /\ pc = "enable" /\ t \in job.todo /\ armed' = Enabled(t)
      /\ UNCHANGED <<files, loaded, running>>
  BY DEF EnableTimer, At
<1>2. /\ job.op = "apply" /\ unit[Me] = job.spec.text /\ loaded = unit
      /\ StaleIn(unit) = {} /\ StaleIn(timer) = {} /\ \A u \in Wanted : Written(u)
      /\ \A s \in Stems : armed[s] \in {None, timer[s]}
      /\ \A u \in Wanted \ job.todo :
           armed[TaskUnit(job.app, u)] = timer[TaskUnit(job.app, u)]
  BY <1>1 DEF FilesInv, RunInv, OpKnown, FilesSoFar, SystemdSoFar
<1>3. /\ armed'[TaskUnit(job.app, t)] = timer[TaskUnit(job.app, t)]
      /\ \A s \in Stems : s # TaskUnit(job.app, t) => armed'[s] = armed[s]
  BY <1>0, <1>1, <1>2, RunStems DEF Enabled, UnitsInv, TypeOK
<1>4. \A s \in Stems : armed'[s] \in {None, timer[s]}
  BY <1>2, <1>3
<1>5. \A u \in Wanted \ (job.todo \ {t}) :
        armed'[TaskUnit(job.app, u)] = timer[TaskUnit(job.app, u)]
  <2> SUFFICES ASSUME NEW u \in Wanted \ job.todo, u # t
               PROVE  armed'[TaskUnit(job.app, u)] = timer[TaskUnit(job.app, u)]
    BY <1>3
  <2>1. u \in Tasks /\ TaskUnit(job.app, u) # TaskUnit(job.app, t)
        /\ TaskUnit(job.app, u) \in Stems
    BY <1>0, RunStems, RunType
  <2> QED
    BY <1>2, <1>3, <2>1
<1>6. CASE job.todo = {t}
  <2>1. End("ok")
    BY <1>6 DEF EnableTimer
  <2>2. \A u \in Wanted : armed'[TaskUnit(job.app, u)] = timer[TaskUnit(job.app, u)]
    BY <1>5, <1>6
  <2> QED
    BY <1>1, <1>2, <1>4, <2>1, <2>2, AppliedFiles
<1>7. CASE job.todo # {t}
  <2>1. /\ pc' = "enable" /\ job'.todo = job.todo \ {t}
        /\ job'.op = job.op /\ job'.app = job.app
        /\ job'.spec = job.spec /\ job'.result = job.result
    BY <1>0, <1>1, <1>7 DEF EnableTimer, Job
  <2>2. OpKnown'
    BY <1>1, <2>1 DEF FilesInv, RunInv, OpKnown, Wanted
  <2>3. StaleIn(unit)' = {} /\ StaleIn(timer)' = {}
    BY <1>1, <1>2, <2>1 DEF StaleIn, Keep, Wanted, files
  <2>4. FilesSoFar'
    BY <1>1, <1>2, <2>1, <2>3 DEF FilesSoFar, Wanted, Me, Written, files
  <2>5. SystemdSoFar'
    BY <1>1, <1>2, <1>4, <1>5, <2>1 DEF SystemdSoFar, Wanted, files
  <2> QED
    BY <2>1, <2>2, <2>4, <2>5 DEF RunInv, Succeeded
<1> QED
  BY <1>6, <1>7

\* A removal stops the container, if there is a unit, and deletes the unit.
LEMMA RemoveFiles ==
  ASSUME FilesInv, NothingToRemove \/ Stop \/ DeleteMain
  PROVE  RunInv'
<1>0. UnitsInv /\ Me \in Stems /\ unit \in [Stems -> UnitText]
  BY RunType DEF FilesInv, UnitsInv, TypeOK
<1>1. /\ pc \in {"stop", "delete"} /\ job.op = "remove" /\ Wanted = {}
      /\ StaleIn(unit) = {} /\ StaleIn(timer) = {}
  BY DEF NothingToRemove, Stop, DeleteMain, At, FilesInv, RunInv, OpKnown, FilesSoFar
<1>2. CASE NothingToRemove /\ ~job.pruned
  BY <1>1, <1>2, RemovedFiles DEF NothingToRemove, systemd
<1>3. ASSUME job' = job, pc' \in {"reload", "delete"}, UNCHANGED timer,
             \A s \in Stems : unit'[s] # None => unit[s] # None,
             pc' = "reload" => unit'[Me] = None
      PROVE  RunInv'
  <2>1. StaleIn(unit)' = {} /\ StaleIn(timer)' = {}
    BY <1>1, <1>3 DEF StaleIn, Keep, Wanted
  <2>2. OpKnown'
    BY <1>1, <1>3 DEF FilesInv, RunInv, OpKnown, Wanted
  <2>3. FilesSoFar'
    BY <1>1, <1>3, <2>1 DEF FilesSoFar, Wanted, Me
  <2> QED
    BY <1>3, <2>2, <2>3 DEF RunInv, SystemdSoFar, Succeeded
<1>4. CASE NothingToRemove /\ job.pruned
  BY <1>3, <1>4 DEF NothingToRemove, Goto, files
<1>5. CASE Stop
  BY <1>3, <1>5 DEF Stop, Goto, files
<1>6. CASE DeleteMain
  BY <1>0, <1>3, <1>6 DEF DeleteMain, Goto
<1> QED
  BY <1>2, <1>4, <1>5, <1>6

LEMMA FilesNext == FilesInv /\ [Next]_vars => FilesInv'
<1> SUFFICES ASSUME FilesInv, [Next]_vars PROVE RunInv'
  BY UnitsNext DEF FilesInv
<1>1. CASE \E a \in Apps : StartRemove(a) \/ \E s \in Specs[a] : StartApply(a, s)
  <2>1. \A a \in Apps : Specs[a] \subseteq AppSpec
    BY WorkloadAssumption
  <2>2. ASSUME NEW a \in Apps, StartRemove(a) PROVE RunInv'
    BY <2>2, BeginFiles, NoSpecType DEF StartRemove
  <2>3. ASSUME NEW a \in Apps, NEW s \in Specs[a], StartApply(a, s) PROVE RunInv'
    BY <2>1, <2>3, BeginFiles DEF StartApply
  <2> QED
    BY <1>1, <2>2, <2>3
<1>2. CASE \E t \in Tasks : WriteTask(t) \/ EnableTimer(t)
  BY <1>2, WriteTaskFiles, EnableTimerFiles
<1>3. CASE Prune
  BY <1>3, PruneContainerFiles, DisableTimerFiles, DropTimerFiles, PrunedFiles DEF Prune
<1>4. CASE Preflight \/ WriteMain \/ WriteTimer \/ DaemonReload \/ Start
  BY <1>4, PreflightFiles, WriteMainFiles, WriteTimerFiles, DaemonReloadFiles, StartFiles
<1>5. CASE NothingToRemove \/ Stop \/ DeleteMain
  BY <1>5, RemoveFiles
<1>6. CASE Refused \/ StepFails \/ Crash
  BY <1>6, EndsBadly DEF Refused, StepFails, Crash
<1>7. CASE UNCHANGED vars
  BY <1>7
     DEF vars, files, systemd, counters, FilesInv, RunInv, OpKnown, FilesSoFar, SystemdSoFar,
         Succeeded, FilesAsAsked, Wanted, Keep, Me, Written, StaleIn
<1> QED
  BY <1>1, <1>2, <1>3, <1>4, <1>5, <1>6, <1>7 DEF Next

LEMMA FilesInit == Init => FilesInv
<1> SUFFICES ASSUME Init PROVE RunInv
  BY UnitsInit DEF FilesInv
<1>1. pc = "idle" /\ job.op = "remove" /\ job.result = "failed" /\ Wanted = {}
  BY NoSpecType DEF Init, Begun, Wanted
<1> QED
  BY <1>1 DEF RunInv, OpKnown, FilesSoFar, SystemdSoFar, Succeeded

\* A run that reports success leaves on disk, in systemd and among the timers
\* exactly what was asked for, after any runs that failed or died half way and
\* whatever the apps are called (apply.rs:97-135, 178-217).
THEOREM SuccessLeavesTheFiles == Spec => [](Succeeded => FilesAsAsked)
<1>1. FilesInv => (Succeeded => FilesAsAsked)
  BY DEF FilesInv, RunInv
<1> QED
  BY <1>1, FilesInit, FilesNext, PTL DEF Spec

------------------------------------------------------------------------------
(* And which container *)

ExactInv == FilesInv /\ ContainersKept

\* No app's main unit is among another's tasks.
LEMMA MainsApart ==
  ASSUME NamesApart, NEW a \in Apps, NEW b \in Apps
  PROVE  Main(b) \notin TaskUnits(a)
<1>1. CASE a = b
  BY <1>1, StemsOf DEF TaskUnits
<1>2. CASE a # b
  BY <1>2 DEF NamesApart, UnitsOf, TaskUnits
<1> QED
  BY <1>1, <1>2

\* A step within a run that touches no container and deletes no main unit.
LEMMA NoContainerMoved ==
  ASSUME ContainersKept, UNCHANGED running,
         \A a \in Apps : unit'[Main(a)] = None => unit[Main(a)] = None,
         job'.op = job.op, job'.app = job.app, job'.seen = job.seen,
         pc \notin {"idle", "check", "enable"}, pc' \notin {"idle", "enable", "delete"}
  PROVE  ContainersKept'
BY DEF ContainersKept, NoGhost, ContainerSoFar, Succeeded

\* A run that ends badly owes nothing but that no container lost its unit.
LEMMA FailsKept ==
  ASSUME UnitsInv, NEW r \in {"failed", "died"}, End(r), NoGhost'
  PROVE  ContainersKept'
<1>1. pc' = "idle" /\ job'.result = r
  BY Ending
<1> QED
  BY <1>1 DEF ContainersKept, ContainerSoFar, Succeeded

LEMMA BeginKept ==
  ASSUME ContainersKept, UNCHANGED <<files, systemd>>,
         NEW a \in Apps, NEW s \in AppSpec,
         \/ pc' = "check" /\ job' = Begun("apply", a, s)
         \/ pc' = "prune" /\ job' = Begun("remove", a, NoSpec)
  PROVE  ContainersKept'
<1>1. NoGhost'
  BY DEF ContainersKept, NoGhost, files, systemd
<1>2. pc' \in {"check", "prune"} /\ pc' = "prune" => job'.op = "remove"
  BY DEF Begun
<1> QED
  BY <1>1, <1>2 DEF ContainersKept, ContainerSoFar, Succeeded, Begun

\* The old text is read: none, and there is no container.
LEMMA PreflightKept == ExactInv /\ Preflight => ContainersKept'
<1> SUFFICES ASSUME ExactInv, Preflight PROVE ContainersKept'
  OBVIOUS
<1>1. job \in Job /\ job.app \in Apps
  BY DEF ExactInv, FilesInv, UnitsInv, TypeOK, Job
<1>2. /\ pc' = "write" /\ UNCHANGED <<files, systemd>>
      /\ job'.seen = unit[Me] /\ job'.app = job.app
  BY <1>1 DEF Preflight, Job
<1>3. NoGhost'
  BY <1>2 DEF ExactInv, ContainersKept, NoGhost, files, systemd
<1>4. unit[Me] = None => running[job.app] = None
  BY <1>1 DEF ExactInv, ContainersKept, NoGhost, Me
<1> QED
  BY <1>2, <1>3, <1>4 DEF ContainersKept, ContainerSoFar, Succeeded, systemd

\* Files are written.
LEMMA WriteKept ==
  ASSUME ExactInv, WriteMain \/ WriteTimer \/ \E t \in Tasks : WriteTask(t)
  PROVE  ContainersKept'
<1>1. /\ UnitsInv /\ job \in Job /\ unit \in [Stems -> UnitText] /\ job.spec.text # None
  BY SpecTasks, RunType, WorkloadAssumption DEF ExactInv, FilesInv, UnitsInv, TypeOK
<1>2. \A a \in Apps : unit'[Main(a)] \in {unit[Main(a)], job.spec.text}
  BY <1>1, UnitsAreStems DEF WriteMain, WriteTimer, WriteTask
<1>3. /\ UNCHANGED running
      /\ job'.op = job.op /\ job'.app = job.app /\ job'.seen = job.seen
      /\ pc \in {"write", "timer", "tasks"} /\ pc' \in {"prune", "tasks", "timer"}
  BY <1>1 DEF WriteMain, WriteTimer, WriteTask, At, Goto, AfterWrites, Job, systemd
<1> QED
  BY <1>1, <1>2, <1>3, NoContainerMoved DEF ExactInv

\* What is stale is deleted: no other app's main unit, where names are apart.
LEMMA PruneKept ==
  ASSUME NamesApart, ExactInv, Prune
  PROVE  ContainersKept'
<1>1. /\ UnitsInv /\ job \in Job /\ job.app \in Apps /\ unit \in [Stems -> UnitText]
  BY DEF ExactInv, FilesInv, UnitsInv, TypeOK, Job
<1>2. \A a \in Apps : unit'[Main(a)] = unit[Main(a)]
  <2>1. ASSUME NEW s \in Stems, PruneContainer(s), NEW a \in Apps
        PROVE  unit'[Main(a)] = unit[Main(a)]
    <3>1. s \in TaskUnits(job.app)
      BY <2>1 DEF PruneContainer, StaleIn, TaskUnits
    <3>2. s # Main(a)
      BY <1>1, <3>1, MainsApart
    <3> QED
      BY <1>1, <2>1, <3>2, UnitsAreStems DEF PruneContainer
  <2> QED
    BY <2>1 DEF Prune, DisableTimer, DropTimer, Pruned, files
<1>3. /\ UNCHANGED running
      /\ job'.op = job.op /\ job'.app = job.app /\ job'.seen = job.seen
      /\ pc \in {"prune", "drop"} /\ pc' \in {"prune", "drop", "reload", "stop"}
  BY <1>1 DEF Prune, PruneContainer, DisableTimer, DropTimer, Pruned, At, Goto, Job, systemd
<1> QED
  BY <1>2, <1>3, NoContainerMoved DEF ExactInv

\* A removal has ended well: without its unit the app has no container.
LEMMA RemovedKept ==
  ASSUME ExactInv, End("ok"), job.op = "remove", unit[Me] = None,
         UNCHANGED <<files, running>>
  PROVE  ContainersKept'
<1>1. UnitsInv
  BY DEF ExactInv, FilesInv
<1>2. pc' = "idle" /\ job'.op = "remove" /\ job'.app = job.app
  BY <1>1, Ending
<1>3. running[job.app] = None
  BY <1>1, RunType DEF ExactInv, ContainersKept, NoGhost, Me
<1>4. NoGhost'
  BY DEF ExactInv, ContainersKept, NoGhost, files
<1> QED
  BY <1>2, <1>3, <1>4 DEF ContainersKept, ContainerSoFar, ContainerAsAsked

LEMMA DaemonReloadKept == ExactInv /\ DaemonReload => ContainersKept'
<1> SUFFICES ASSUME ExactInv, DaemonReload PROVE ContainersKept'
  OBVIOUS
<1>1. job.op \in {"apply", "remove"}
  BY DEF ExactInv, FilesInv, UnitsInv, TypeOK, Job
<1>2. pc = "reload" /\ UNCHANGED <<files, running>>
  BY DEF DaemonReload, At
<1>3. CASE job.op = "remove"
  BY <1>2, <1>3, RemovedKept DEF DaemonReload, ExactInv, FilesInv, RunInv, FilesSoFar
<1>4. CASE job.op = "apply"
  BY <1>2, <1>4, NoContainerMoved DEF DaemonReload, Goto, ExactInv, files
<1> QED
  BY <1>1, <1>3, <1>4

\* The container is started, or restarted if the unit changed.
LEMMA StartedExact ==
  ASSUME ExactInv, pc = "start"
  PROVE  /\ Started[job.app] # None
         /\ job.seen # job.spec.text => Started[job.app] = job.spec.text
         /\ \A a \in Apps \ {job.app} : Started[a] = running[a]
<1>0. UnitsInv /\ job.app \in Apps /\ running \in [Apps -> UnitText]
  BY DEF ExactInv, FilesInv, UnitsInv, TypeOK, Job
<1>1. job.spec.text # None
  BY <1>0, SpecTasks, RunType, WorkloadAssumption
<1>2. /\ job.op = "apply" /\ unit[Me] = job.spec.text /\ loaded = unit
      /\ job.seen = None => running[job.app] = None
  BY DEF ExactInv, FilesInv, RunInv, OpKnown, FilesSoFar, SystemdSoFar, ContainersKept,
         ContainerSoFar
<1> QED
  BY <1>0, <1>1, <1>2 DEF Started, Changed

LEMMA StartKept == ExactInv /\ Start => ContainersKept'
<1> SUFFICES ASSUME ExactInv, Start PROVE ContainersKept'
  OBVIOUS
<1>1. UnitsInv /\ job \in Job /\ job.spec.text # None
  BY SpecTasks, RunType, WorkloadAssumption DEF ExactInv, FilesInv, UnitsInv, TypeOK
<1>2. /\ pc = "start" /\ running' = Started /\ UNCHANGED files
      /\ job.op = "apply" /\ unit[Me] = job.spec.text
  BY DEF Start, At, ExactInv, FilesInv, RunInv, OpKnown, FilesSoFar
<1>3. /\ job'.op = job.op /\ job'.app = job.app /\ job'.spec = job.spec
      /\ job'.seen = job.seen /\ pc' \in {"idle", "enable"}
  BY <1>1, Ending DEF Start, Job
<1>4. Restarted'
  BY <1>2, <1>3, StartedExact DEF Restarted
<1>5. NoGhost'
  <2> SUFFICES ASSUME NEW a \in Apps, unit'[Main(a)] = None PROVE running'[a] = None
    BY DEF NoGhost
  <2>1. a # job.app
    BY <1>1, <1>2 DEF Me, files
  <2> QED
    BY <1>2, <2>1, StartedExact DEF ExactInv, ContainersKept, NoGhost, files
<1> QED
  BY <1>2, <1>3, <1>4, <1>5 DEF ContainersKept, ContainerSoFar, ContainerAsAsked

LEMMA EnableTimerKept ==
  ASSUME ExactInv, NEW t \in Tasks, EnableTimer(t)
  PROVE  ContainersKept'
<1>1. UnitsInv /\ job \in Job
  BY DEF ExactInv, FilesInv, UnitsInv, TypeOK
<1>2. /\ pc = "enable" /\ UNCHANGED <<files, running>> /\ job.op = "apply" /\ Restarted
  BY DEF EnableTimer, At, ExactInv, FilesInv, RunInv, OpKnown, ContainersKept, ContainerSoFar
<1>3. /\ job'.op = job.op /\ job'.app = job.app /\ job'.spec = job.spec
      /\ job'.seen = job.seen /\ pc' \in {"idle", "enable"}
  BY <1>1, <1>2, Ending DEF EnableTimer, Job
<1>4. Restarted' /\ NoGhost'
  BY <1>2, <1>3 DEF Restarted, ExactInv, ContainersKept, NoGhost, files
<1> QED
  BY <1>2, <1>3, <1>4 DEF ContainersKept, ContainerSoFar, ContainerAsAsked

\* A removal stops the container before it deletes the unit.
LEMMA RemoveKept ==
  ASSUME ExactInv, NothingToRemove \/ Stop \/ DeleteMain
  PROVE  ContainersKept'
<1>1. UnitsInv /\ job.app \in Apps /\ Me \in Stems /\ running \in [Apps -> UnitText]
      /\ unit \in [Stems -> UnitText]
  BY RunType DEF ExactInv, FilesInv, UnitsInv, TypeOK
<1>2. pc \in {"stop", "delete"} /\ job.op = "remove"
  BY DEF NothingToRemove, Stop, DeleteMain, At, ExactInv, FilesInv, RunInv, OpKnown
<1>3. CASE NothingToRemove /\ ~job.pruned
  BY <1>2, <1>3, RemovedKept DEF NothingToRemove, systemd
<1>4. CASE NothingToRemove /\ job.pruned
  BY <1>2, <1>4, NoContainerMoved DEF NothingToRemove, Goto, ExactInv, files, systemd
<1>5. CASE Stop
  <2>1. /\ pc' = "delete" /\ job' = job /\ UNCHANGED files
        /\ running'[job.app] = None
        /\ \A a \in Apps : a # job.app => running'[a] = running[a]
    BY <1>1, <1>5 DEF Stop, Goto
  <2>2. NoGhost'
    BY <2>1 DEF ExactInv, ContainersKept, NoGhost, files
  <2> QED
    BY <1>2, <2>1, <2>2 DEF ContainersKept, ContainerSoFar, Succeeded
<1>6. CASE DeleteMain
  <2>1. /\ pc = "delete" /\ pc' = "reload" /\ job' = job /\ UNCHANGED running
        /\ \A s \in Stems : s # Me => unit'[s] = unit[s]
    BY <1>1, <1>6 DEF DeleteMain, Goto, At, systemd
  <2>2. running[job.app] = None
    BY <2>1 DEF ExactInv, ContainersKept, ContainerSoFar
  <2>3. NoGhost'
    BY <2>1, <2>2, UnitsAreStems DEF ExactInv, ContainersKept, NoGhost, Me, Main
  <2> QED
    BY <1>2, <2>1, <2>3 DEF ContainersKept, ContainerSoFar, Succeeded
<1> QED
  BY <1>3, <1>4, <1>5, <1>6

\* A file cut short is still a file, and a container that is up has its unit.
LEMMA FailureKept == ExactInv /\ (Refused \/ StepFails \/ Crash) => ContainersKept'
<1> SUFFICES ASSUME ExactInv, Refused \/ StepFails \/ Crash PROVE ContainersKept'
  OBVIOUS
<1>0. /\ UnitsInv /\ job.app \in Apps /\ Me \in Stems /\ running \in [Apps -> UnitText]
      /\ unit \in [Stems -> UnitText] /\ job.todo \subseteq Tasks /\ NoGhost
  BY RunType DEF ExactInv, FilesInv, UnitsInv, TypeOK, Job, ContainersKept
<1>1. PICK r \in {"failed", "died"} : End(r)
  BY DEF Refused, StepFails, Crash
<1> SUFFICES NoGhost'
  BY <1>0, <1>1, FailsKept
<1>2. CASE UNCHANGED <<files, systemd>>
  BY <1>0, <1>2 DEF NoGhost, files, systemd
<1>3. CASE Torn /\ UNCHANGED systemd
  <2>1. \A s \in Stems : unit'[s] \in {unit[s], Foreign}
    BY <1>0, <1>3 DEF Torn
  <2> QED
    BY <1>0, <1>3, <2>1, UnitsAreStems, WorkloadAssumption DEF NoGhost, systemd
<1>4. CASE HalfDone /\ UNCHANGED files
  <2>1. CASE pc = "start"
    <3>1. job.spec.text # None /\ unit[Me] = job.spec.text
      BY <1>0, <2>1, SpecTasks, RunType, WorkloadAssumption
      DEF ExactInv, FilesInv, RunInv, OpKnown, FilesSoFar
    <3>2. \A a \in Apps : a # job.app => running'[a] = running[a]
      BY <1>0, <1>4, <2>1, StartedExact DEF HalfDone
    <3> QED
      BY <1>0, <1>4, <3>1, <3>2 DEF NoGhost, files, Me
  <2>2. CASE pc # "start"
    <3>1. running' = running
      BY <1>4, <2>2 DEF HalfDone
    <3> QED
      BY <1>0, <1>4, <3>1 DEF NoGhost, files
  <2> QED
    BY <2>1, <2>2
<1> QED
  BY <1>2, <1>3, <1>4 DEF Refused, StepFails, Crash

LEMMA ExactNext ==
  ASSUME NamesApart
  PROVE  ExactInv /\ [Next]_vars => ExactInv'
<1> SUFFICES ASSUME ExactInv, [Next]_vars PROVE ContainersKept'
  BY FilesNext DEF ExactInv
<1>1. CASE \E a \in Apps : StartRemove(a) \/ \E s \in Specs[a] : StartApply(a, s)
  <2>1. \A a \in Apps : Specs[a] \subseteq AppSpec
    BY WorkloadAssumption
  <2>2. ASSUME NEW a \in Apps, StartRemove(a) PROVE ContainersKept'
    BY <2>2, BeginKept, NoSpecType DEF StartRemove, ExactInv
  <2>3. ASSUME NEW a \in Apps, NEW s \in Specs[a], StartApply(a, s) PROVE ContainersKept'
    BY <2>1, <2>3, BeginKept DEF StartApply, ExactInv
  <2> QED
    BY <1>1, <2>2, <2>3
<1>2. CASE \E t \in Tasks : WriteTask(t) \/ EnableTimer(t)
  BY <1>2, WriteKept, EnableTimerKept
<1>3. CASE Prune
  BY <1>3, PruneKept
<1>4. CASE Preflight \/ WriteMain \/ WriteTimer \/ DaemonReload \/ Start
  BY <1>4, PreflightKept, WriteKept, DaemonReloadKept, StartKept
<1>5. CASE NothingToRemove \/ Stop \/ DeleteMain
  BY <1>5, RemoveKept
<1>6. CASE Refused \/ StepFails \/ Crash
  BY <1>6, FailureKept
<1>7. CASE UNCHANGED vars
  BY <1>7
     DEF vars, files, systemd, ExactInv, ContainersKept, NoGhost, ContainerSoFar, Succeeded,
         ContainerAsAsked, Restarted
<1> QED
  BY <1>1, <1>2, <1>3, <1>4, <1>5, <1>6, <1>7 DEF Next

LEMMA ExactInit == Init => ExactInv
<1> SUFFICES ASSUME Init PROVE ContainersKept
  BY FilesInit DEF ExactInv
<1>1. /\ pc = "idle" /\ job.result = "failed"
      /\ \A a \in Apps : running[a] = unit[Main(a)]
  BY DEF Init, Begun
<1> QED
  BY <1>1 DEF ContainersKept, NoGhost, ContainerSoFar, Succeeded

\* Where no app's unit looks like another's task, a run that reports success
\* leaves exactly what was asked for, the container included, after any runs that
\* failed or died half way, for any apps, specs and tasks (apply.rs:97-135, 178-217).
THEOREM SuccessStaysExact ==
  ASSUME NamesApart
  PROVE  Spec => []SuccessIsExact
<1>1. ExactInv => SuccessIsExact
  BY DEF ExactInv, FilesInv, RunInv, ContainersKept, SuccessIsExact
<1> QED
  BY <1>1, ExactInit, ExactNext, PTL DEF Spec

------------------------------------------------------------------------------
(* Fleet: questions while the host changes *)

LEMMA FleetTypes ==
  ASSUME FleetTypeOK
  PROVE  /\ question.pc \in {"idle", "file", "active", "entry", "told"}
         /\ question.kind \in {"status", "list"}
         /\ question.app \in Apps /\ question.apps \subseteq Apps
         /\ question.rows \in [Apps -> Label \cup {NoRow}]
         /\ question.entries \subseteq Stems /\ question.names \subseteq Stems
BY DEF FleetTypeOK, Question

LEMMA SomeApp == (CHOOSE a \in Apps : TRUE) \in Apps
BY WorkloadAssumption

LEMMA IdleType ==
  /\ Idle \in Question
  /\ Idle.pc = "idle" /\ Idle.kind = "status" /\ Idle.names = {}
  /\ \A a \in Apps : Idle.rows[a] = NoRow
BY SomeApp DEF Idle, Question

LEMMA Labels ==
  ASSUME NEW u, NEW r, NEW a
  PROVE  StateIn(u, r, a) \in Label
BY DEF StateIn, Label

\* A question that has just been asked has read nothing, and what is true now is
\* all that has been true.
LEMMA BeginTrue ==
  ASSUME FleetInv, NEW req \in Question, Begin(req),
         req.pc \in {"file", "entry"}, req.names = {},
         \A a \in Apps : req.rows[a] = NoRow,
         req.pc = "file" <=> req.kind = "status",
         req.kind = "list" => req.entries = {s \in Stems : unit[s] # None}
  PROVE  FleetInv'
<1> USE DEF Begin, HostSame, vars, files, systemd
<1>1. FleetTypeOK'
  <2>1. requests' \in 0..MaxRequests
    BY FleetAssumption DEF FleetInv, FleetTypeOK
  <2>2. wasSo' \in [Apps -> SUBSET Label]
    BY Labels DEF State
  <2> QED
    BY <2>1, <2>2 DEF FleetTypeOK, Managed
<1>2. WatchHolds'
  BY DEF WatchHolds, State, Managed, StateIn
<1>3. RowsHold' /\ ActiveHolds'
  BY DEF RowsHold, ActiveHolds
<1>4. ListingHolds'
  <2>1. req.kind \in {"status", "list"}
    BY DEF Question
  <2> QED
    BY <2>1 DEF ListingHolds, Managed, OwnFile
<1> QED
  BY <1>1, <1>2, <1>3, <1>4 DEF FleetInv

LEMMA AskTrue ==
  ASSUME FleetInv, \/ \E a \in Apps : AskStatus(a)
                   \/ AskAll \/ AskList
  PROVE  FleetInv'
<1>1. ASSUME NEW a \in Apps, AskStatus(a) PROVE FleetInv'
  <2> DEFINE req == [Idle EXCEPT !.pc = "file", !.app = a]
  <2>1. /\ req \in Question /\ req.pc = "file" /\ req.kind = "status" /\ req.names = {}
        /\ req.rows = Idle.rows
    BY IdleType DEF Question
  <2>2. Begin(req)
    BY <1>1 DEF AskStatus
  <2> HIDE DEF req
  <2> QED
    BY <2>1, <2>2, BeginTrue, IdleType
<1>2. CASE AskAll
  <2> DEFINE first == CHOOSE a \in Apps : TRUE
             req == [Idle EXCEPT !.pc = "file", !.app = first, !.apps = Apps \ {first}]
  <2>1. /\ req \in Question /\ req.pc = "file" /\ req.kind = "status" /\ req.names = {}
        /\ req.rows = Idle.rows
    BY IdleType, SomeApp DEF Question
  <2>2. Begin(req)
    BY <1>2 DEF AskAll
  <2> HIDE DEF req
  <2> QED
    BY <2>1, <2>2, BeginTrue, IdleType
<1>3. CASE AskList
  <2> DEFINE req == [Idle EXCEPT !.kind = "list", !.pc = "entry",
                                 !.entries = {s \in Stems : unit[s] # None}]
  <2>1. /\ req \in Question /\ req.pc = "entry" /\ req.kind = "list" /\ req.names = {}
        /\ req.rows = Idle.rows /\ req.entries = {s \in Stems : unit[s] # None}
    BY IdleType DEF Question
  <2>2. Begin(req)
    BY <1>3 DEF AskList
  <2> HIDE DEF req
  <2> QED
    BY <2>1, <2>2, BeginTrue, IdleType
<1> QED
  BY <1>1, <1>2, <1>3

\* Writing a row that is true, or that says it is not known, and going on.
LEMMA RowTrue ==
  ASSUME FleetInv, NEW label \in Label,
         question.pc \in {"file", "active"},
         label \in wasSo[question.app] \cup {"Unknown"},
         Reads(RowOf(label))
  PROVE  FleetInv'
<1> DEFINE told == [question EXCEPT !.rows[question.app] = label]
           next == CHOOSE a \in told.apps : TRUE
<1>1. /\ question \in Question /\ question.kind = "status" /\ question.app \in Apps
      /\ question.rows \in [Apps -> Label \cup {NoRow}] /\ question.apps \subseteq Apps
  BY FleetTypes DEF FleetInv, RowsHold, FleetTypeOK
<1>2. /\ told \in Question /\ told.kind = "status" /\ told.apps = question.apps
      /\ told.names = question.names /\ told.pc = question.pc
      /\ told.rows = [question.rows EXCEPT ![question.app] = label]
  BY <1>1 DEF Question
<1>3. /\ question' \in Question /\ question'.kind = "status"
      /\ question'.pc \in {"told", "file"} /\ question'.rows = told.rows
  <2>1. question' = IF told.apps = {} THEN [told EXCEPT !.pc = "told"]
                    ELSE [told EXCEPT !.pc = "file", !.app = next, !.apps = @ \ {next}]
    BY DEF Reads, RowOf
  <2>2. CASE told.apps = {}
    <3> HIDE DEF told
    <3> QED
      BY <1>2, <2>1, <2>2 DEF Question
  <2>3. CASE told.apps # {}
    <3>1. next \in Apps
      BY <1>1, <1>2, <2>3
    <3> HIDE DEF told, next
    <3> QED
      BY <1>2, <2>1, <2>3, <3>1 DEF Question
  <2> QED
    BY <2>2, <2>3
<1> HIDE DEF told, next
<1>4. \A a \in Apps : question'.rows[a] \in wasSo[a] \cup {NoRow, "Unknown"}
  BY <1>1, <1>2, <1>3 DEF FleetInv, RowsHold
<1>5. UNCHANGED <<vars, wasSo, wasOurs, wasNot, requests>> /\ Reading
  BY DEF Reads, HostSame, Reading
<1>6. FleetTypeOK' /\ RowsHold' /\ ActiveHolds' /\ ListingHolds'
  BY <1>3, <1>4, <1>5 DEF FleetInv, FleetTypeOK, RowsHold, ActiveHolds, ListingHolds
<1>7. WatchHolds'
  BY <1>5 DEF FleetInv, WatchHolds, State, StateIn, Managed, vars, files, systemd
<1> QED
  BY <1>6, <1>7 DEF FleetInv

LEMMA ReadTrue ==
  ASSUME FleetInv, LookForFile \/ IsActive \/ CannotTell
  PROVE  FleetInv'
<1>1. /\ question \in Question /\ question.app \in Apps
      /\ {"Unknown", "Running", "Stopped", "Not installed"} \subseteq Label
  BY FleetTypes DEF FleetInv, FleetTypeOK, Label
<1>2. question.pc \in {"file", "active"}
  BY DEF LookForFile, IsActive, CannotTell
<1>3. State(question.app) \in wasSo[question.app]
  BY <1>1, <1>2 DEF FleetInv, WatchHolds, Reading
<1>4. CASE LookForFile /\ ~Installed(question.app)
  <2>1. "Not installed" \in wasSo[question.app] /\ Reads(RowOf("Not installed"))
    BY <1>3, <1>4 DEF LookForFile, State, StateIn, Installed
  <2> QED
    BY <1>1, <1>2, <2>1, RowTrue
<1>5. CASE LookForFile /\ Installed(question.app)
  <2>1. /\ question' = [question EXCEPT !.pc = "active"]
        /\ UNCHANGED <<vars, wasSo, wasOurs, wasNot, requests>> /\ question.pc = "file"
    BY <1>5 DEF LookForFile, Reads, HostSame
  <2>2. /\ question' \in Question /\ question'.pc = "active"
        /\ question'.kind = question.kind /\ question'.app = question.app
        /\ question'.rows = question.rows
    BY <1>1, <2>1 DEF Question
  <2>3. ActiveHolds'
    BY <1>3, <1>5, <2>1, <2>2 DEF ActiveHolds, State, StateIn, Installed, vars, systemd
  <2>4. FleetTypeOK' /\ RowsHold' /\ ListingHolds'
    BY <2>1, <2>2 DEF FleetInv, FleetTypeOK, RowsHold, ListingHolds
  <2>5. WatchHolds'
    BY <2>1 DEF FleetInv, WatchHolds, Reading, State, StateIn, Managed, vars, files, systemd
  <2> QED
    BY <2>3, <2>4, <2>5 DEF FleetInv
<1>6. CASE IsActive
  <2> DEFINE label == IF running[question.app] # None THEN "Running" ELSE "Stopped"
  <2>1. label \in wasSo[question.app] /\ Reads(RowOf(label)) /\ label \in Label
    BY <1>1, <1>6 DEF IsActive, FleetInv, ActiveHolds
  <2> HIDE DEF label
  <2> QED
    BY <1>2, <2>1, RowTrue
<1>7. CASE CannotTell
  BY <1>1, <1>2, <1>7, RowTrue DEF CannotTell
<1> QED
  BY <1>4, <1>5, <1>6, <1>7

LEMMA ListTrue ==
  ASSUME FleetInv, (\E s \in Stems : ReadEntry(s)) \/ Printed \/ Over
  PROVE  FleetInv'
<1>1. question \in Question
  BY DEF FleetInv, FleetTypeOK
<1>2. ASSUME NEW s \in Stems, ReadEntry(s) PROVE FleetInv'
  <2> DEFINE named == IF OwnFile(unit[s]) THEN question.names \cup {s} ELSE question.names
  <2>1. /\ question' = [question EXCEPT !.entries = @ \ {s}, !.names = named]
        /\ UNCHANGED <<vars, wasSo, wasOurs, wasNot, requests>> /\ question.pc = "entry"
    BY <1>1, <1>2 DEF ReadEntry, Reads, HostSame, Question
  <2>2. /\ question' \in Question /\ question'.pc = "entry"
        /\ question'.kind = question.kind
        /\ question'.names = named /\ question'.entries = question.entries \ {s}
    BY <1>1, <2>1 DEF Question
  <2>3. /\ question.kind = "list" /\ Managed(unit) \subseteq wasOurs
        /\ Stems \ Managed(unit) \subseteq wasNot
        /\ question.names \subseteq wasOurs
        /\ Stems \ (question.names \cup question.entries) \subseteq wasNot
    BY <2>1 DEF FleetInv, WatchHolds, Reading, ListingHolds
  <2>4. ListingHolds'
    <3>1. s \in wasOurs \/ ~OwnFile(unit[s])
      BY <2>3 DEF Managed
    <3>2. s \in wasNot \/ OwnFile(unit[s])
      BY <2>3 DEF Managed
    <3> QED
      BY <2>1, <2>2, <2>3, <3>1, <3>2 DEF ListingHolds
  <2>5. FleetTypeOK' /\ RowsHold' /\ ActiveHolds'
    BY <2>1, <2>2, <2>3 DEF FleetInv, FleetTypeOK, RowsHold, ActiveHolds
  <2>6. WatchHolds'
    BY <2>1 DEF FleetInv, WatchHolds, Reading, State, StateIn, Managed, vars, files, systemd
  <2> QED
    BY <2>4, <2>5, <2>6 DEF FleetInv
<1>3. CASE Printed
  <2>1. /\ question' = [question EXCEPT !.pc = "told"]
        /\ UNCHANGED <<vars, wasSo, wasOurs, wasNot, requests>>
        /\ question.pc = "entry" /\ question.entries = {}
    BY <1>3 DEF Printed, Reads, HostSame
  <2>2. /\ question' \in Question /\ question'.pc = "told"
        /\ question'.kind = question.kind
        /\ question'.names = question.names /\ question'.entries = question.entries
    BY <1>1, <2>1 DEF Question
  <2>3. question.kind = "list"
    BY <2>1 DEF FleetInv, ListingHolds
  <2> QED
    BY <2>1, <2>2, <2>3
       DEF FleetInv, FleetTypeOK, WatchHolds, Reading, RowsHold, ActiveHolds, ListingHolds
<1>4. CASE Over
  <2>1. /\ question' = Idle /\ wasSo' = [a \in Apps |-> {}] /\ wasOurs' = {} /\ wasNot' = {}
        /\ UNCHANGED requests
    BY <1>4 DEF Over
  <2> QED
    BY <2>1, IdleType
       DEF FleetInv, FleetTypeOK, WatchHolds, Reading, RowsHold, ActiveHolds, ListingHolds
<1> QED
  BY <1>2, <1>3, <1>4

\* A container that a step starts, stops or restarts has its unit file after the
\* step.
LEMMA FileBehind ==
  ASSUME FilesInv, Next, NEW a \in Apps, running'[a] # running[a]
  PROVE  unit'[Main(a)] # None
<1> USE DEF files, systemd
<1>1. /\ UnitsInv /\ running \in [Apps -> UnitText] /\ job.spec.text # None
  BY SpecTasks, RunType, WorkloadAssumption DEF FilesInv, UnitsInv, TypeOK
<1>2. CASE Stop
  BY <1>1, <1>2 DEF Stop, Me
<1>3. CASE pc = "start" /\ UNCHANGED unit /\ \A b \in Apps \ {job.app} : running'[b] = running[b]
  BY <1>1, <1>3 DEF FilesInv, RunInv, OpKnown, FilesSoFar, Me
<1>4. CASE Start
  BY <1>1, <1>3, <1>4 DEF Start, Started, At
<1>5. CASE Refused \/ StepFails \/ Crash
  BY <1>1, <1>3, <1>5 DEF Refused, StepFails, Crash, HalfDone, Started
<1>6. CASE \E b \in Apps : StartRemove(b) \/ \E s \in Specs[b] : StartApply(b, s)
  BY <1>6 DEF StartRemove, StartApply
<1>7. CASE \E t \in Tasks : WriteTask(t) \/ EnableTimer(t)
  BY <1>7 DEF WriteTask, EnableTimer
<1>8. CASE Prune
  BY <1>8 DEF Prune, PruneContainer, DisableTimer, DropTimer, Pruned
<1>9. CASE Preflight \/ WriteMain \/ WriteTimer \/ DaemonReload \/ NothingToRemove \/ DeleteMain
  BY <1>9 DEF Preflight, WriteMain, WriteTimer, DaemonReload, NothingToRemove, DeleteMain
<1> QED
  BY <1>2, <1>4, <1>5, <1>6, <1>7, <1>8, <1>9 DEF Next

\* The host moves under a question: what is true afterwards is added to what has
\* been, and nothing that has been read becomes untrue.
LEMMA HostTrue ==
  ASSUME FilesInv, FleetInv, Next, Watched
  PROVE  FleetInv'
<1>1. question \in Question /\ question.pc # "told" /\ UNCHANGED <<question, requests>>
      /\ question.app \in Apps
  BY FleetTypes DEF FleetInv, FleetTypeOK, Watched
<1>2. CASE ~Reading
  <2>1. UNCHANGED <<wasSo, wasOurs, wasNot>>
    BY <1>2 DEF Watched
  <2> QED
    BY <1>1, <1>2, <2>1
       DEF FleetInv, FleetTypeOK, WatchHolds, Reading, RowsHold, ActiveHolds, ListingHolds
<1>3. CASE Reading
  <2>1. /\ wasSo' = [a \in Apps |-> wasSo[a] \cup {StateIn(unit', running', a)}]
        /\ wasOurs' = wasOurs \cup Managed(unit')
        /\ wasNot' = wasNot \cup (Stems \ Managed(unit'))
    BY <1>3 DEF Watched, Watch
  <2>2. \A a \in Apps : wasSo[a] \subseteq wasSo'[a] /\ StateIn(unit', running', a) \in wasSo'[a]
    BY <2>1
  <2>3. FleetTypeOK'
    BY <1>1, <2>1, Labels DEF FleetInv, FleetTypeOK, Managed
  <2>4. WatchHolds'
    BY <2>1, <2>2 DEF WatchHolds, State, Managed
  <2>5. RowsHold'
    BY <1>1, <2>2 DEF FleetInv, RowsHold
  <2>6. ListingHolds'
    BY <1>1, <2>1 DEF FleetInv, ListingHolds
  <2>7. ActiveHolds'
    <3> SUFFICES ASSUME question.pc = "active"
                 PROVE  (IF running'[question.app] # None THEN "Running" ELSE "Stopped")
                            \in wasSo'[question.app]
      BY <1>1 DEF ActiveHolds
    <3>1. (IF running[question.app] # None THEN "Running" ELSE "Stopped")
              \in wasSo[question.app]
      BY DEF FleetInv, ActiveHolds
    <3>2. CASE running'[question.app] = running[question.app]
      BY <1>1, <2>2, <3>1, <3>2
    <3>3. CASE running'[question.app] # running[question.app]
      BY <1>1, <2>2, <3>3, FileBehind DEF StateIn
    <3> QED
      BY <3>2, <3>3
  <2> QED
    BY <2>3, <2>4, <2>5, <2>6, <2>7 DEF FleetInv
<1> QED
  BY <1>2, <1>3

LEMMA FleetInvInit == FleetInit => FleetInv
BY IdleType, FleetAssumption
   DEF FleetInit, FleetInv, FleetTypeOK, WatchHolds, Reading, RowsHold, ActiveHolds, ListingHolds

\* A question moves nothing of the host.
LEMMA HostMoves == [FleetNext]_<<vars, fleetVars>> => [Next]_vars
BY DEF FleetNext, Looks, AskStatus, AskAll, AskList, Begin, LookForFile, IsActive, CannotTell,
       ReadEntry, Printed, Over, Reads, HostSame

LEMMA FleetInvNext ==
  ASSUME FilesInv, FleetInv, [FleetNext]_<<vars, fleetVars>>
  PROVE  FilesInv' /\ FleetInv'
<1>1. FilesInv'
  BY HostMoves, FilesNext
<1> SUFFICES FleetInv'
  BY <1>1
<1>2. CASE Looks
  BY <1>2, AskTrue, ReadTrue, ListTrue DEF Looks
<1>3. CASE Next /\ Watched
  BY <1>3, HostTrue
<1>4. CASE UNCHANGED <<vars, fleetVars>>
  BY <1>4
     DEF vars, files, systemd, fleetVars, FleetInv, FleetTypeOK, WatchHolds, Reading, RowsHold,
         ActiveHolds, ListingHolds, State, StateIn, Managed
<1> QED
  BY <1>2, <1>3, <1>4 DEF FleetNext

LEMMA FleetAnswers == FleetInv => AnswersWereTrue
<1> SUFFICES ASSUME FleetInv, question.pc = "told" PROVE AnswersWereTrue
  BY DEF AnswersWereTrue
<1>1. question.kind \in {"status", "list"}
  BY FleetTypes DEF FleetInv
<1> QED
  BY <1>1 DEF AnswersWereTrue, FleetInv, RowsHold, ListingHolds

\* No answer is made up of two moments, for any apps, names that collide
\* included, and whatever apply and remove do between its reads (query.rs:33-53,
\* 59-95).
THEOREM AnswersStayTrue == FleetSpec => []AnswersWereTrue
<1> DEFINE Inv == FilesInv /\ FleetInv
<1>1. Init /\ FleetInit => Inv
  BY FilesInit, FleetInvInit
<1>2. Inv /\ [FleetNext]_<<vars, fleetVars>> => Inv'
  BY FleetInvNext
<1>3. Inv => AnswersWereTrue
  BY FleetAnswers
<1> HIDE DEF Inv
<1> QED
  BY <1>1, <1>2, <1>3, PTL DEF FleetSpec
==============================================================================

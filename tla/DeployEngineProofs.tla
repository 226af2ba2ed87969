-------------------------- MODULE DeployEngineProofs --------------------------
(***************************************************************************)
(* Safety of the deploy engine for every set of apps and specs, every      *)
(* table size and any number of faults and crashes: who holds the locks,   *)
(* the endings, the rows and their logs, and the files on the host.  Where *)
(* no process is cut short, also all else the host serves, and that the    *)
(* engine implements AtomicDeploy.                                         *)
(***************************************************************************)
EXTENDS DeployEngine, DeployStoreProofs

------------------------------------------------------------------------------
(* Typing of the helpers *)

\* A stage other than the last has a successor.
LEMMA NextStage ==
  ASSUME NEW s \in Stage, s # "healthcheck"
  PROVE  StageOrder[StageNumber(s) + 1] \in Stage
<1>1. PICK i \in 1..6 : StageOrder[i] = s
  BY DEF Stage, StageOrder
<1>2. StageNumber(s) \in 1..6 /\ StageOrder[StageNumber(s)] = s
  BY <1>1 DEF StageNumber
<1>3. StageNumber(s) \in 1..5
  BY <1>2 DEF StageOrder
<1> QED
  BY <1>3 DEF StageOrder, Stage

\* The job of no process is well typed.
LEMMA IdleJobType ==
  /\ IdleJob \in Job
  /\ IdleJob.todo = {} /\ IdleJob.mode = "deploy"
<1>1. (CHOOSE a \in Apps : TRUE) \in Apps
  BY EngineAssumption
<1>2. 0 \in 0..MaxDeploys
  BY StoreAssumption
<1> QED
  BY <1>1, <1>2 DEF IdleJob, Job, UnitFile, Terminal, Stage

\* Writing a field of the app's host state keeps the host well typed.
LEMMA SetType ==
  ASSUME host \in [Apps -> Host], job \in Job,
         NEW f \in {"unit", "loaded", "running", "fragment", "served"}, NEW x,
         f \in {"unit", "loaded", "running"} => x \in UnitFile,
         f \in {"fragment", "served"} => x \in RouteFile
  PROVE  [host EXCEPT ![job.app][f] = x] \in [Apps -> Host]
<1>1. job.app \in Apps /\ host[job.app] \in Host
  BY DEF Job
<1>2. [host[job.app] EXCEPT ![f] = x] \in Host
  BY <1>1 DEF Host
<1> QED
  BY <1>1, <1>2

\* The fields of an app's host state are of their types.
LEMMA HostFields ==
  ASSUME host \in [Apps -> Host], job \in Job
  PROVE  /\ Me.unit \in UnitFile /\ Me.loaded \in UnitFile /\ Me.running \in UnitFile
         /\ Me.fragment \in RouteFile /\ Me.served \in RouteFile
BY DEF Me, Host, Job

\* Whatever a failing host command leaves behind is well typed.
LEMMA DamagedType ==
  ASSUME host \in [Apps -> Host], job \in Job
  PROVE  /\ Damaged \subseteq [Apps -> Host]
         /\ Torn \in [Apps -> Host]
         /\ Started \in [Apps -> Host]
<1>1. /\ None \in UnitFile /\ None \in RouteFile
      /\ Unowned \in UnitFile /\ Unowned \in RouteFile
  BY DEF UnitFile, RouteFile
<1>2. Torn \in [Apps -> Host]
  BY <1>1, SetType DEF Torn
<1>3. Started = [host EXCEPT ![job.app].running =
                   IF Changed \/ Me.running = None THEN Me.loaded ELSE Me.running]
  BY DEF Started, Me
<1>4. Started \in [Apps -> Host]
  BY <1>3, HostFields, SetType
<1>5. [host EXCEPT ![job.app].running = None] \in [Apps -> Host]
  BY <1>1, SetType
<1> QED
  BY <1>2, <1>4, <1>5 DEF Damaged

------------------------------------------------------------------------------
(* The inductive invariant: LockInv *)

\* An empty store and an idle process satisfy it.
LEMMA LockInvInit == Init => LockInv
<1> SUFFICES ASSUME Init PROVE LockInv
  OBVIOUS
<1> USE DEF Init, StoreInit
<1>1. StoreTypeOK
  BY EmptySeq, StoreAssumption DEF StoreTypeOK, NoDeploy
<1>2. TypeOK
  BY <1>1, IdleJobType, EngineAssumption DEF TypeOK
<1>3. LockHolderLive /\ OwnRow /\ NothingHeldYet /\ TodoUnfinished /\ SpecsKnown
  BY IdleJobType DEF LockHolderLive, LockHeld, OwnRow, NothingHeldYet, TodoUnfinished,
                     SpecsKnown, AtWork, Busy, Forward, IdleJob
<1> QED
  BY <1>2, <1>3 DEF LockInv

\* A step that moves no lock and no row's app or status, keeps its own row (or
\* gives up work), and neither becomes a new attempt nor invents a spec, keeps
\* the invariant.
LEMMA SameRows ==
  ASSUME LockInv, StoreTypeOK', locks' = locks, Len(deploys') = Len(deploys),
         \A d \in DeployIds : /\ deploys'[d].app = deploys[d].app
                              /\ deploys'[d].status = deploys[d].status,
         host' \in [Apps -> Host], job' \in Job,
         pc' \in {"idle"} \cup StorePc \cup HostPc,
         faults' \in 0..MaxFaults, crashes' \in 0..MaxCrashes,
         job'.todo \subseteq job.todo,
         AtWork' => /\ AtWork
                    /\ job'.id = job.id /\ job'.app = job.app
                    /\ pc' # "acquire" /\ (pc' = "refuse" => pc = "acquire"),
         SpecsKnown'
  PROVE  LockInv'
<1> USE DEF LockInv
<1>1. DeployIds' = DeployIds /\ InProgressDeploys' = InProgressDeploys
  BY DEF DeployIds, InProgressDeploys, InProgress
<1>2. TypeOK'
  BY <1>1 DEF TypeOK
<1>3. LockHolderLive'
  <2> SUFFICES ASSUME NEW a \in Apps, LockHeld(a)
               PROVE  deploys'[locks[a]].app = a /\ InProgress(locks[a])'
    BY DEF LockHolderLive, LockHeld
  <2>1. locks[a] \in DeployIds
    BY DEF TypeOK, StoreTypeOK, LockHeld, NoDeploy, DeployIds
  <2> QED
    BY <2>1 DEF LockHolderLive, InProgress
<1>4. OwnRow'
  BY <1>1 DEF OwnRow, InProgressDeploys
<1>5. NothingHeldYet'
  BY DEF NothingHeldYet, AtWork
<1>6. TodoUnfinished'
  BY <1>1 DEF TodoUnfinished
<1> QED
  BY <1>2, <1>3, <1>4, <1>5, <1>6

\* In particular a step that leaves the store alone.
LEMMA SameStore ==
  ASSUME LockInv, UNCHANGED storeVars,
         host' \in [Apps -> Host], job' \in Job,
         pc' \in {"idle"} \cup StorePc \cup HostPc,
         faults' \in 0..MaxFaults, crashes' \in 0..MaxCrashes,
         job'.todo \subseteq job.todo,
         AtWork' => /\ AtWork
                    /\ job'.id = job.id /\ job'.app = job.app
                    /\ pc' # "acquire" /\ (pc' = "refuse" => pc = "acquire"),
         SpecsKnown'
  PROVE  LockInv'
<1>1. StoreTypeOK'
  BY DEF LockInv, TypeOK, StoreTypeOK, storeVars
<1> QED
  BY <1>1, SameRows DEF storeVars

\* The files a step writes and the places it goes are well typed.
LEMMA Targets ==
  ASSUME LockInv, AtWork
  PROVE  /\ pc = "write" => TargetVersion \in UnitFile \ {None, Unowned}
         /\ TargetRoute \in RouteFile \ {Unowned}
         /\ UnwindApplyPc(job.prev) \in {"stop", "write"}
         /\ UnwindApplyPc(job.prev) = "write" => job.prev \in Specs
<1> USE DEF LockInv, TypeOK, SpecsKnown, AtWork, Busy, Job, UnitFile, RouteFile
<1>1. \A s \in Specs : s.version \in Versions /\ s.route \in Routes \cup {None}
  BY EngineAssumption
<1>2. pc = "write" => TargetVersion \in Versions
  BY <1>1 DEF TargetVersion
<1>3. TargetRoute \in Routes \cup {None}
  BY <1>1 DEF TargetRoute
<1> QED
  BY <1>2, <1>3, EngineAssumption DEF UnwindApplyPc

\* Steps on the host keep the invariant.
LEMMA HostStepsKeep ==
  ASSUME LockInv, HostAction
  PROVE  LockInv'
<1> USE DEF HostStep, Goto, HostPc, StorePc, Forward
<1>1. /\ host \in [Apps -> Host] /\ job \in Job /\ AtWork
      /\ faults \in 0..MaxFaults /\ crashes \in 0..MaxCrashes
      /\ UNCHANGED <<storeVars, faults, crashes>>
  BY DEF LockInv, TypeOK, HostAction, AtWork, storeVars, WriteUnit, DaemonReload,
         StartUnit, NothingToRemove, StopUnit, DeleteUnit, Unload, WriteFragment,
         ReloadCaddy
<1>2. SpecsKnown
  BY DEF LockInv
<1>3. None \in UnitFile
  BY DEF UnitFile
<1>4. CASE WriteUnit
  <2>1. host' \in [Apps -> Host]
    BY <1>1, <1>4, Targets, SetType DEF WriteUnit, Set
  <2>2. /\ job' = [job EXCEPT !.seen = Me.unit]
        /\ job' \in Job
    BY <1>1, <1>4, HostFields DEF WriteUnit, Job
  <2>3. /\ job'.todo = job.todo /\ job'.id = job.id /\ job'.app = job.app
        /\ job'.undo = job.undo /\ job'.spec = job.spec /\ job'.prev = job.prev
    BY <1>1, <2>2 DEF Job
  <2>4. SpecsKnown'
    BY <1>2, <1>4, <2>3 DEF WriteUnit, SpecsKnown, Busy, Forward
  <2> QED
    BY <1>1, <1>4, <2>1, <2>2, <2>3, <2>4, SameStore DEF WriteUnit
<1>5. ASSUME job' = job, pc' \in Forward => ~job.undo, pc' # "acquire", pc' # "refuse",
             pc' \in StorePc \cup HostPc, host' \in [Apps -> Host],
             Busy, pc' = "write" /\ job.undo => job.prev \in Specs
      PROVE  LockInv'
  <2>1. SpecsKnown'
    BY <1>2, <1>5 DEF SpecsKnown, Busy
  <2> QED
    BY <1>1, <1>5, <2>1, SameStore
<1>6. CASE DaemonReload
  BY <1>1, <1>5, <1>6, HostFields, SetType DEF DaemonReload, Set, Busy
<1>7. CASE StartUnit
  BY <1>1, <1>5, <1>7, DamagedType DEF StartUnit, Busy
<1>8. CASE NothingToRemove
  BY <1>1, <1>5, <1>8 DEF NothingToRemove, Busy
<1>9. CASE StopUnit
  BY <1>1, <1>3, <1>5, <1>9, SetType DEF StopUnit, Set, Busy
<1>10. CASE DeleteUnit
  BY <1>1, <1>3, <1>5, <1>10, SetType DEF DeleteUnit, Set, Busy
<1>11. CASE Unload
  BY <1>1, <1>5, <1>11, HostFields, SetType DEF Unload, Set, Busy
<1>12. CASE WriteFragment
  <2>1. host' \in [Apps -> Host]
    BY <1>1, <1>12, Targets, SetType DEF WriteFragment, Set
  <2> QED
    BY <1>1, <1>5, <1>12, <2>1, Targets DEF WriteFragment, Busy
<1>13. CASE ReloadCaddy
  <2>1. host' \in [Apps -> Host]
    BY <1>1, <1>13, HostFields, SetType DEF ReloadCaddy, Set
  <2> QED
    BY <1>1, <1>5, <1>13, <2>1, Targets DEF ReloadCaddy, Busy
<1> QED
  BY <1>4, <1>6, <1>7, <1>8, <1>9, <1>10, <1>11, <1>12, <1>13 DEF HostAction

------------------------------------------------------------------------------
\* The job's row is one of the table's.
LEMMA OwnId ==
  ASSUME LockInv, AtWork
  PROVE  job.id \in DeployIds /\ InProgress(job.id) /\ StoreTypeOK /\ job \in Job
BY DEF LockInv, OwnRow, InProgressDeploys, TypeOK

\* A step that writes the store but moves no lock and no row's app or status.
LEMMA RecordingStepsKeep ==
  ASSUME LockInv, BeginStage \/ EmitStarted \/ EmitSucceeded \/ RecordSpec \/ EmitFailed
  PROVE  LockInv'
<1> USE DEF StoreStep, Goto, Forward
<1>1. /\ host \in [Apps -> Host] /\ job \in Job /\ AtWork /\ Busy /\ StoreTypeOK
      /\ faults \in 0..MaxFaults /\ crashes \in 0..MaxCrashes
      /\ UNCHANGED <<locks, host, faults, crashes>>
      /\ SpecsKnown
  BY DEF LockInv, TypeOK, AtWork, Busy, BeginStage, EmitStarted, EmitSucceeded,
         RecordSpec, EmitFailed
<1>2. job.id \in DeployIds
  BY <1>1, OwnId
<1>3. \A st \in {"started", "succeeded", "failed"} :
         [stage |-> job.stage, status |-> st] \in Event
  BY <1>1 DEF Job, Event
<1>4. ASSUME deploys' = deploys, specs' = specs, NEW st \in {"started", "succeeded", "failed"},
             AppendEvent(job.id, job.stage, st)
      PROVE  StoreTypeOK'
  BY <1>1, <1>2, <1>3, <1>4, AppendEventAdds DEF StoreTypeOK
<1>5. \A spec : \A s \in Stage : /\ WorkPc(s, spec) \in StorePc \cup HostPc
                                 /\ WorkPc(s, spec) \notin {"acquire", "refuse"}
  BY DEF Stage, WorkPc, StorePc, HostPc
<1>6. CASE BeginStage
  <2>1. job.stage \in Stage
    BY <1>1 DEF Job
  <2>2. /\ StoreTypeOK' /\ Len(deploys') = Len(deploys)
        /\ \A d \in DeployIds : /\ deploys'[d].app = deploys[d].app
                                /\ deploys'[d].status = deploys[d].status
    BY <1>1, <1>2, <1>6, <2>1, AdvanceStageKeeps DEF BeginStage, StoreTypeOK
  <2>3. SpecsKnown' /\ job' = job /\ pc' = "started"
    BY <1>1, <1>6 DEF BeginStage, SpecsKnown, Busy
  <2> QED
    BY <1>1, <2>2, <2>3, SameRows DEF StorePc
<1>7. CASE EmitStarted
  <2>1. StoreTypeOK' /\ deploys' = deploys /\ job' = job
    BY <1>1, <1>4, <1>7 DEF EmitStarted
  <2>2. pc' \in StorePc \cup HostPc /\ pc' \notin {"acquire", "refuse"}
    BY <1>1, <1>5, <1>7 DEF EmitStarted, Job
  <2>3. pc = "started" /\ (pc' = "write" => job.stage = "apply")
    BY <1>7 DEF EmitStarted, WorkPc
  <2>4. SpecsKnown'
    BY <1>1, <2>1, <2>3 DEF SpecsKnown, Busy, Forward
  <2> QED
    BY <1>1, <2>1, <2>2, <2>4, SameRows
<1>8. CASE EmitSucceeded
  <2>1. StoreTypeOK' /\ deploys' = deploys
    BY <1>1, <1>4, <1>8 DEF EmitSucceeded
  <2>2. /\ job' \in Job /\ job'.id = job.id /\ job'.app = job.app /\ job'.todo = job.todo
        /\ job'.undo = job.undo /\ job'.spec = job.spec
        /\ pc = "ok" /\ pc' \in {"put_spec", "begin"}
    BY <1>1, <1>8, NextStage DEF EmitSucceeded, Job
  <2>3. SpecsKnown'
    BY <1>1, <2>2 DEF SpecsKnown, Busy
  <2> QED
    BY <1>1, <2>1, <2>2, <2>3, SameRows DEF StorePc
<1>9. CASE RecordSpec
  <2>1. specs' \in [Apps -> Specs \cup {NoSpec}]
    BY <1>1, <1>9 DEF RecordSpec, PutSpec, StoreTypeOK, Job
  <2>2. StoreTypeOK' /\ deploys' = deploys /\ job' = job /\ pc' = "finish"
    BY <1>1, <1>9, <2>1 DEF RecordSpec, StoreTypeOK
  <2>3. SpecsKnown'
    BY <1>1, <2>2 DEF SpecsKnown, Busy
  <2> QED
    BY <1>1, <2>2, <2>3, SameRows DEF StorePc
<1>10. CASE EmitFailed
  <2>1. StoreTypeOK' /\ deploys' = deploys
    BY <1>1, <1>4, <1>10 DEF EmitFailed
  <2>2. /\ job' \in Job /\ job'.id = job.id /\ job'.app = job.app /\ job'.todo = job.todo
        /\ job'.undo /\ job'.prev = job.prev
    BY <1>1, <1>10 DEF EmitFailed, Job, Terminal
  <2>3. /\ pc' \in {"finish", "route", "stop", "write"}
        /\ pc' = "write" => job.prev \in Specs
    BY <1>1, <1>10 DEF EmitFailed, CompensatePc, UnwindApplyPc, Job
  <2>4. SpecsKnown'
    BY <2>2, <2>3 DEF SpecsKnown
  <2> QED
    BY <1>1, <2>1, <2>2, <2>3, <2>4, SameRows DEF StorePc, HostPc
<1> QED
  BY <1>6, <1>7, <1>8, <1>9, <1>10

\* Steps of the process that write nothing.
LEMMA QuietStepsKeep ==
  ASSUME LockInv, LockBusy \/ LoadPrevious \/ EarlyStage \/ Healthy
  PROVE  LockInv'
<1> USE DEF StoreStep, HostStep, Goto, Forward, StorePc, HostPc
<1>1. /\ host \in [Apps -> Host] /\ job \in Job /\ AtWork /\ Busy /\ StoreTypeOK
      /\ faults \in 0..MaxFaults /\ crashes \in 0..MaxCrashes
      /\ UNCHANGED <<storeVars, host, faults, crashes>>
      /\ SpecsKnown
  BY DEF LockInv, TypeOK, AtWork, Busy, storeVars, LockBusy, LoadPrevious, EarlyStage,
         Healthy
<1>2. CASE LockBusy
  <2>1. SpecsKnown' /\ job' = job /\ pc = "acquire" /\ pc' = "refuse"
    BY <1>1, <1>2 DEF LockBusy, SpecsKnown, Busy
  <2> QED
    BY <1>1, <2>1, SameStore
<1>3. CASE LoadPrevious
  <2>1. /\ job' \in Job /\ job'.id = job.id /\ job'.app = job.app /\ job'.todo = job.todo
        /\ job'.undo = job.undo /\ job'.spec = job.spec /\ pc = "load" /\ pc' = "begin"
    BY <1>1, <1>3 DEF LoadPrevious, Job, StoreTypeOK
  <2>2. SpecsKnown'
    BY <1>1, <2>1 DEF SpecsKnown, Busy
  <2> QED
    BY <1>1, <2>1, <2>2, SameStore
<1>4. CASE EarlyStage \/ Healthy
  <2>1. SpecsKnown' /\ job' = job /\ pc' = "ok"
    BY <1>1, <1>4 DEF EarlyStage, Healthy, SpecsKnown, Busy
  <2> QED
    BY <1>1, <2>1, SameStore
<1> QED
  BY <1>2, <1>3, <1>4

\* Failures and the death of the process.
LEMMA FailuresKeep ==
  ASSUME LockInv, Failure \/ Crash
  PROVE  LockInv'
<1> USE DEF Forward, StorePc, HostPc
<1>1. /\ host \in [Apps -> Host] /\ job \in Job /\ StoreTypeOK /\ Busy
      /\ pc \in StorePc \cup HostPc
      /\ faults \in 0..MaxFaults /\ crashes \in 0..MaxCrashes
      /\ MaxFaults \in Nat /\ MaxCrashes \in Nat
      /\ UNCHANGED storeVars
      /\ SpecsKnown
  BY EngineAssumption DEF LockInv, TypeOK, Busy, storeVars, Failure, Refused,
     HostStepFails, StoreStepFails, Crash, Refusal
<1>2. ASSUME Rest, host' \in [Apps -> Host],
             faults' \in 0..MaxFaults, crashes' \in 0..MaxCrashes
      PROVE  LockInv'
  <2>1. /\ pc' = "idle" /\ job' \in Job /\ job'.todo = {}
    BY <1>2, IdleJobType DEF Rest
  <2>2. SpecsKnown'
    BY <1>2, <2>1 DEF SpecsKnown, Busy, Rest, IdleJob
  <2>3. ~AtWork'
    BY <2>1 DEF AtWork
  <2> QED
    BY <1>1, <1>2, <2>1, <2>2, <2>3, SameStore
<1>3. ASSUME Abandon, pc \in HostPc, host' \in [Apps -> Host],
             faults' \in 0..MaxFaults, crashes' = crashes
      PROVE  LockInv'
  <2>1. /\ job' \in Job /\ job'.id = job.id /\ job'.app = job.app /\ job'.todo = job.todo
        /\ job'.undo = job.undo /\ job'.spec = job.spec
        /\ pc' = IF job.undo THEN "finish" ELSE "fail"
    BY <1>1, <1>3 DEF Abandon, Goto, Job, Terminal
  <2>2. SpecsKnown'
    BY <1>1, <2>1 DEF SpecsKnown, Busy
  <2>3. AtWork
    BY <1>3 DEF AtWork
  <2> QED
    BY <1>1, <1>3, <2>1, <2>2, <2>3, SameStore
<1>4. CASE Refused
  BY <1>1, <1>3, <1>4 DEF Refused, Refusal
<1>5. CASE HostStepFails
  BY <1>1, <1>3, <1>5, DamagedType DEF HostStepFails
<1>6. CASE StoreStepFails
  <2>1. faults' \in 0..MaxFaults /\ host' = host /\ crashes' = crashes
    BY <1>1, <1>6 DEF StoreStepFails
  <2>2. CASE job' = job /\ pc' = "release"
    <3>1. SpecsKnown' /\ ~AtWork'
      BY <1>1, <2>2 DEF SpecsKnown, Busy, AtWork
    <3> QED
      BY <1>1, <2>1, <2>2, <3>1, SameStore
  <2>3. CASE Rest
    BY <1>1, <1>2, <2>1, <2>3
  <2> QED
    BY <1>6, <2>2, <2>3 DEF StoreStepFails, Goto
<1>7. CASE Crash
  <2>1. host' \in [Apps -> Host]
    BY <1>1, <1>7, DamagedType DEF Crash
  <2> QED
    BY <1>1, <1>2, <1>7, <2>1 DEF Crash
<1> QED
  BY <1>4, <1>5, <1>6, <1>7 DEF Failure

\* A new row is in progress and no lock is held for it.
LEMMA SubmitKeeps ==
  ASSUME LockInv, NEW a \in Apps, NEW s \in Specs, Submit(a, s)
  PROVE  LockInv'
<1> DEFINE n == Len(deploys) + 1
<1>1. /\ StoreTypeOK /\ TypeOK /\ pc = "idle" /\ CreateDeploy(a)
      /\ job' = [IdleJob EXCEPT !.app = a, !.id = n, !.spec = s]
      /\ pc' = "acquire"
      /\ UNCHANGED <<locks, specs, host, faults, crashes>>
  BY DEF LockInv, TypeOK, Submit, StoreStep
<1>2. /\ deploys' \in Seq(DeployRow) /\ Len(deploys') = n
      /\ n <= MaxDeploys
      /\ DeployIds' = DeployIds \cup {n}
      /\ \A d \in DeployIds : deploys'[d] = deploys[d]
      /\ deploys'[n].app = a /\ deploys'[n].status = "in_progress"
      /\ events' \in Seq(Seq(Event)) /\ Len(events') = Len(deploys')
  BY <1>1, CreateDeployAdds
<1>3. Len(deploys) \in Nat /\ MaxDeploys \in Nat
  BY <1>1, StoreAssumption, LenProperties DEF StoreTypeOK
<1>4. locks \in [Apps -> 0..Len(deploys)]
  BY <1>1 DEF StoreTypeOK
<1>5. locks \in [Apps -> 0..n]
  BY <1>3, <1>4
<1> HIDE DEF n
<1>6. StoreTypeOK'
  BY <1>1, <1>2, <1>5 DEF StoreTypeOK
<1>7. n \in 0..MaxDeploys /\ n \notin DeployIds
  BY <1>2, <1>3 DEF n, DeployIds
<1>8. /\ job' \in Job /\ job'.app = a /\ job'.id = n /\ job'.spec = s /\ job'.todo = {}
      /\ ~job'.undo
  BY <1>1, <1>7, IdleJobType DEF Job, IdleJob
<1>9. TypeOK'
  BY <1>1, <1>6, <1>8 DEF TypeOK, StorePc
<1>10. LockHolderLive'
  <2> SUFFICES ASSUME NEW b \in Apps, locks[b] # NoDeploy
               PROVE  deploys'[locks[b]].app = b /\ deploys'[locks[b]].status = "in_progress"
    BY <1>1 DEF LockHolderLive, LockHeld, InProgress
  <2>1. locks[b] \in DeployIds
    BY <1>3, <1>4 DEF NoDeploy, DeployIds
  <2>2. deploys[locks[b]].app = b /\ deploys[locks[b]].status = "in_progress"
    BY DEF LockInv, LockHolderLive, LockHeld, InProgress
  <2> QED
    BY <1>2, <2>1, <2>2
<1>11. OwnRow' /\ TodoUnfinished'
  BY <1>2, <1>8 DEF OwnRow, TodoUnfinished, InProgressDeploys, InProgress
<1>12. NothingHeldYet'
  BY <1>1, <1>3, <1>4, <1>8 DEF NothingHeldYet, n
<1>13. SpecsKnown'
  BY <1>1, <1>8 DEF SpecsKnown
<1> QED
  BY <1>9, <1>10, <1>11, <1>12, <1>13 DEF LockInv

\* The lock goes to the attempt's own unfinished row.
LEMMA AcquireKeeps ==
  ASSUME LockInv, Acquire
  PROVE  LockInv'
<1> USE DEF LockInv
<1>1. /\ pc = "acquire" /\ pc' = "load" /\ job' = job /\ AtWork
      /\ locks' = [locks EXCEPT ![job.app] = job.id]
      /\ UNCHANGED <<deploys, specs, events, host, faults, crashes>>
  BY DEF Acquire, StoreStep, AcquireLock, Goto, AtWork
<1>2. /\ TypeOK /\ StoreTypeOK /\ job \in Job
      /\ job.id \in DeployIds /\ InProgress(job.id) /\ deploys[job.id].app = job.app
  BY <1>1, OwnId DEF OwnRow
<1>3. locks' \in [Apps -> 0..Len(deploys)]
  BY <1>1, <1>2 DEF StoreTypeOK, DeployIds, Job
<1>4. TypeOK'
  BY <1>1, <1>2, <1>3 DEF TypeOK, StoreTypeOK, DeployIds, StorePc
<1>5. LockHolderLive'
  BY <1>1, <1>2 DEF LockHolderLive, LockHeld, InProgress, Job, StoreTypeOK
<1>6. OwnRow' /\ TodoUnfinished'
  BY <1>1 DEF OwnRow, TodoUnfinished, InProgressDeploys, InProgress, DeployIds, AtWork
<1>7. NothingHeldYet' /\ SpecsKnown'
  BY <1>1 DEF NothingHeldYet, SpecsKnown, Busy, Forward
<1> QED
  BY <1>4, <1>5, <1>6, <1>7

\* An ending of the job's row leaves every other row and every lock not held
\* for it as they were.
LEMMA EndingKeeps ==
  ASSUME LockInv, NEW st \in Terminal, FinishDeploy(job.id, st), AtWork,
         \A a \in Apps : locks'[a] # NoDeploy => locks'[a] = locks[a] /\ locks[a] # job.id,
         locks' \in [Apps -> 0..Len(deploys)],
         events' \in Seq(Seq(Event)), Len(events') = Len(events),
         pc' \in {"idle", "release"},
         job' \in Job, job'.todo \subseteq job.todo,
         UNCHANGED <<specs, host, faults, crashes>>,
         SpecsKnown'
  PROVE  LockInv'
<1> USE DEF LockInv
<1>1. StoreTypeOK /\ job.id \in DeployIds
  BY OwnId
<1>2. /\ deploys' \in Seq(DeployRow) /\ Len(deploys') = Len(deploys)
      /\ \A i \in DeployIds : i # job.id => deploys'[i] = deploys[i]
  BY <1>1, FinishDeployEnds
<1>3. StoreTypeOK'
  BY <1>1, <1>2 DEF StoreTypeOK
<1>4. DeployIds' = DeployIds
  BY <1>2 DEF DeployIds
<1>5. TodoUnfinished'
  BY <1>2, <1>4 DEF TodoUnfinished, InProgressDeploys, InProgress, AtWork
<1>6. TypeOK'
  BY <1>3, <1>5 DEF TypeOK, StorePc, TodoUnfinished, InProgressDeploys
<1>7. LockHolderLive'
  <2> SUFFICES ASSUME NEW a \in Apps, locks'[a] # NoDeploy
               PROVE  deploys'[locks'[a]].app = a /\ deploys'[locks'[a]].status = "in_progress"
    BY DEF LockHolderLive, LockHeld, InProgress
  <2>1. locks'[a] = locks[a] /\ locks[a] # job.id
    OBVIOUS
  <2>2. locks[a] \in DeployIds
    BY <1>1, <2>1 DEF StoreTypeOK, NoDeploy, DeployIds
  <2>3. deploys[locks[a]].app = a /\ deploys[locks[a]].status = "in_progress"
    BY <2>1 DEF LockHolderLive, LockHeld, InProgress
  <2> QED
    BY <1>2, <2>1, <2>2, <2>3
<1>8. OwnRow' /\ NothingHeldYet'
  BY DEF OwnRow, NothingHeldYet, AtWork
<1> QED
  BY <1>5, <1>6, <1>7, <1>8

\* A refused reservation ends its row and holds no lock.
LEMMA RefuseKeeps ==
  ASSUME LockInv, Refuse
  PROVE  LockInv'
<1>1. /\ pc = "refuse" /\ FinishDeploy(job.id, "failed") /\ pc' = "idle" /\ job' = IdleJob
      /\ UNCHANGED <<locks, specs, events, host, faults, crashes>>
  BY DEF Refuse, StoreStep, Rest
<1>2. AtWork /\ "failed" \in Terminal
  BY <1>1 DEF AtWork, Terminal
<1>3. /\ \A a \in Apps : locks[a] # job.id
      /\ locks \in [Apps -> 0..Len(deploys)]
      /\ events \in Seq(Seq(Event))
  BY <1>1 DEF LockInv, NothingHeldYet, TypeOK, StoreTypeOK
<1>4. job' \in Job /\ job'.todo \subseteq job.todo /\ SpecsKnown'
  BY <1>1, IdleJobType DEF SpecsKnown, Busy, Forward
<1> QED
  BY <1>1, <1>2, <1>3, <1>4, EndingKeeps

\* An ending lets go of the lock of its own row.
LEMMA FinishKeeps ==
  ASSUME LockInv, Finish
  PROVE  LockInv'
<1>1. /\ pc = "finish" /\ FinishDeployWithEvent(job.id, job.outcome)
      /\ pc' = "release" /\ job' = job
      /\ UNCHANGED <<specs, host, faults, crashes>>
  BY DEF Finish, StoreStep, Goto
<1>2. AtWork
  BY <1>1 DEF AtWork
<1>3. StoreTypeOK /\ job.id \in DeployIds /\ job \in Job
  BY <1>2, OwnId
<1>4. /\ job.outcome \in Terminal
      /\ [stage |-> "deploy", status |-> job.outcome] \in Event
  BY <1>3 DEF Job, Event
<1>5. /\ FinishDeploy(job.id, job.outcome)
      /\ locks' = [a \in Apps |-> IF locks[a] = job.id THEN NoDeploy ELSE locks[a]]
      /\ AppendEvent(job.id, "deploy", job.outcome)
  BY <1>1 DEF FinishDeployWithEvent
<1>6. events' \in Seq(Seq(Event)) /\ Len(events') = Len(events)
  BY <1>3, <1>4, <1>5, AppendEventAdds
<1>7. Len(deploys) \in Nat /\ locks \in [Apps -> 0..Len(deploys)]
  BY <1>3, LenProperties DEF StoreTypeOK
<1>8. locks' \in [Apps -> 0..Len(deploys)]
  BY <1>5, <1>7 DEF NoDeploy
<1>9. \A a \in Apps : locks'[a] # NoDeploy => locks'[a] = locks[a] /\ locks[a] # job.id
  BY <1>5
<1>10. SpecsKnown'
  BY <1>1 DEF LockInv, SpecsKnown, Busy, Forward
<1> QED
  BY <1>1, <1>2, <1>3, <1>4, <1>5, <1>6, <1>8, <1>9, <1>10, EndingKeeps

\* Letting locks go breaks nothing.
LEMMA LettingGoKeeps ==
  ASSUME LockInv, Release \/ FinishReconcile
  PROVE  LockInv'
<1> USE DEF LockInv
<1>1. /\ pc \in {"release", "next_row"} /\ pc' \in {"idle", "next_row"}
      /\ job' = job \/ (pc' = "idle" /\ job' = IdleJob)
      /\ Busy
      /\ UNCHANGED <<deploys, specs, events, host, faults, crashes>>
  BY DEF Release, FinishReconcile, StoreStep, Goto, Rest, Busy
<1>2. /\ TypeOK /\ StoreTypeOK /\ job \in Job
      /\ Len(deploys) \in Nat /\ locks \in [Apps -> 0..Len(deploys)]
  BY LenProperties DEF TypeOK, StoreTypeOK
<1>3. /\ locks' \in [Apps -> 0..Len(deploys)]
      /\ \A a \in Apps : locks'[a] # NoDeploy => locks'[a] = locks[a]
  BY <1>2 DEF Release, FinishReconcile, ReleaseLock, ReleaseOrphanedLocks, NoDeploy
<1>4. StoreTypeOK'
  BY <1>1, <1>2, <1>3 DEF StoreTypeOK
<1>5. job' \in Job /\ job'.todo \subseteq job.todo /\ SpecsKnown'
  BY <1>1, <1>2, IdleJobType DEF SpecsKnown, Busy, Forward
<1>6. TodoUnfinished' /\ OwnRow' /\ NothingHeldYet'
  BY <1>1, <1>5 DEF TodoUnfinished, OwnRow, NothingHeldYet, AtWork, InProgressDeploys,
                    InProgress, DeployIds
<1>7. TypeOK'
  BY <1>1, <1>2, <1>4, <1>5, <1>6 DEF TypeOK, StorePc, TodoUnfinished, InProgressDeploys
<1>8. LockHolderLive'
  BY <1>1, <1>3 DEF LockHolderLive, LockHeld, InProgress
<1> QED
  BY <1>5, <1>6, <1>7, <1>8

\* A recovery reads only unfinished rows, and takes them up one at a time.
LEMMA ReconcileKeeps ==
  ASSUME LockInv, StartReconcile \/ NextRow
  PROVE  LockInv'
<1> USE DEF LockInv
<1>1. /\ TypeOK /\ StoreTypeOK /\ job \in Job
      /\ UNCHANGED <<deploys, locks, specs, events, host, faults, crashes>>
  BY DEF TypeOK, StartReconcile, NextRow, StoreStep, storeVars
<1>2. /\ Len(deploys) \in Nat /\ Len(deploys) <= MaxDeploys /\ MaxDeploys \in Nat
      /\ DeployIds \subseteq 1..MaxDeploys
      /\ DeployIds' = DeployIds /\ InProgressDeploys' = InProgressDeploys
      /\ InProgressDeploys \subseteq DeployIds
  BY <1>1, LenProperties, StoreAssumption
  DEF StoreTypeOK, DeployIds, InProgressDeploys, InProgress
<1>3. StoreTypeOK' /\ LockHolderLive'
  BY <1>1 DEF StoreTypeOK, LockHolderLive, LockHeld, InProgress
<1>4. CASE StartReconcile
  <2>1. /\ pc' = "next_row"
        /\ job' = [IdleJob EXCEPT !.mode = "reconcile", !.undo = TRUE,
                                  !.todo = InProgressDeploys]
    BY <1>4 DEF StartReconcile
  <2>2. job' \in Job /\ job'.todo = InProgressDeploys /\ job'.undo
    BY <1>2, <2>1, IdleJobType DEF Job
  <2>3. TypeOK'
    BY <1>1, <1>2, <1>3, <2>1, <2>2 DEF TypeOK, StorePc
  <2>4. OwnRow' /\ NothingHeldYet'
    BY <2>1 DEF OwnRow, NothingHeldYet, AtWork
  <2>5. TodoUnfinished'
    BY <1>2, <2>1, <2>2 DEF TodoUnfinished, AtWork
  <2>6. SpecsKnown'
    BY <2>1, <2>2 DEF SpecsKnown, Forward
  <2> QED
    BY <1>3, <2>3, <2>4, <2>5, <2>6
<1>5. CASE NextRow
  <2>1. PICK d \in job.todo :
          /\ job' = [job EXCEPT !.id = d, !.app = deploys[d].app,
                                !.stage = deploys[d].stage,
                                !.prev = specs[deploys[d].app],
                                !.outcome = "rolled_back", !.todo = @ \ {d}]
          /\ pc' = CompensatePc(deploys[d].stage, specs[deploys[d].app])
    BY <1>5 DEF NextRow
  <2>2. pc = "next_row"
    BY <1>5 DEF NextRow, StoreStep
  <2>3. d \in InProgressDeploys /\ d \in DeployIds /\ d \in 0..MaxDeploys
    <3>1. d \in InProgressDeploys
      BY DEF TodoUnfinished
    <3>2. d \in 1..MaxDeploys
      BY <1>2, <3>1
    <3> QED
      BY <1>2, <3>1, <3>2
  <2>4. deploys[d] \in DeployRow
    BY <1>1, <2>3, ElementOfSeq DEF StoreTypeOK, DeployIds
  <2>5. /\ deploys[d].app \in Apps /\ deploys[d].stage \in Stage
        /\ specs[deploys[d].app] \in Specs \cup {NoSpec}
    BY <1>1, <2>4, RowColumns DEF StoreTypeOK
  <2>6. /\ job' \in Job /\ job'.id = d /\ job'.app = deploys[d].app
        /\ job'.todo = job.todo \ {d} /\ job'.prev = specs[deploys[d].app]
        /\ job'.undo = job.undo /\ job'.spec = job.spec
    BY <1>1, <2>1, <2>3, <2>5 DEF Job, Terminal
  <2>7. /\ pc' \in {"finish", "route", "stop", "write"}
        /\ pc' = "write" => job'.prev \in Specs
    BY <2>1, <2>5, <2>6 DEF CompensatePc, UnwindApplyPc
  <2>8. TypeOK'
    BY <1>1, <1>2, <1>3, <2>6, <2>7 DEF TypeOK, StorePc, HostPc
  <2>9. OwnRow' /\ NothingHeldYet' /\ TodoUnfinished'
    BY <1>1, <1>2, <2>3, <2>6, <2>7 DEF OwnRow, NothingHeldYet, TodoUnfinished
  <2>10. SpecsKnown'
    BY <2>2, <2>6, <2>7 DEF SpecsKnown, Busy, Forward
  <2> QED
    BY <1>3, <2>8, <2>9, <2>10
<1> QED
  BY <1>4, <1>5

------------------------------------------------------------------------------
(* Theorems *)

\* LockInv is inductive.
LEMMA LockInvNext == LockInv /\ [Next]_vars => LockInv'
<1> SUFFICES ASSUME LockInv, [Next]_vars PROVE LockInv'
  OBVIOUS
<1>1. ASSUME NEW a \in Apps, NEW s \in Specs, Submit(a, s) PROVE LockInv'
  BY <1>1, SubmitKeeps
<1>2. CASE DeployStep
  BY <1>2, QuietStepsKeep, RecordingStepsKeep, AcquireKeeps, RefuseKeeps, FinishKeeps,
     LettingGoKeeps DEF DeployStep
<1>3. CASE HostAction
  BY <1>3, HostStepsKeep
<1>4. CASE StartReconcile \/ NextRow
  BY <1>4, ReconcileKeeps
<1>5. CASE FinishReconcile
  BY <1>5, LettingGoKeeps
<1>6. CASE Failure \/ Crash
  BY <1>6, FailuresKeep
<1>7. CASE UNCHANGED vars
  <2>1. UNCHANGED storeVars /\ UNCHANGED <<host, pc, job, faults, crashes>>
    BY <1>7 DEF vars, storeVars
  <2> QED
    BY <2>1 DEF LockInv, TypeOK, StoreTypeOK, storeVars, LockHolderLive, LockHeld,
       InProgress, OwnRow, NothingHeldYet, TodoUnfinished, SpecsKnown, AtWork, Busy,
       InProgressDeploys, DeployIds
<1> QED
  BY <1>1, <1>2, <1>3, <1>4, <1>5, <1>6, <1>7 DEF Next, Step

\* The invariant holds in every state the engine reaches.
THEOREM LockInvHolds == Spec => []LockInv
<1>1. Init => LockInv
  BY LockInvInit
<1>2. LockInv /\ [Next]_vars => LockInv'
  BY LockInvNext
<1> QED
  BY <1>1, <1>2, PTL DEF Spec

\* Every variable keeps its type.
THEOREM TypeCorrect == Spec => []TypeOK
<1>1. LockInv => TypeOK
  BY DEF LockInv
<1> QED
  BY <1>1, LockInvHolds, PTL

\* However many commands and store writes fail and wherever the process dies, a
\* lock is held only for an unfinished attempt of its own app.
THEOREM LocksLive == Spec => []LockHolderLive
<1>1. LockInv => LockHolderLive
  BY DEF LockInv
<1> QED
  BY <1>1, LockInvHolds, PTL

\* No step touches a row that has ended.
LEMMA EndedRowsStay ==
  ASSUME LockInv, [Next]_vars, NEW d \in DeployIds, ~InProgress(d)
  PROVE  deploys'[d] = deploys[d]
<1>1. StoreTypeOK /\ job \in Job
  BY DEF LockInv, TypeOK
<1>2. ASSUME NEW a \in Apps, NEW s \in Specs, Submit(a, s) PROVE deploys'[d] = deploys[d]
  BY <1>1, <1>2, CreateDeployAdds DEF Submit
<1>3. ASSUME AtWork PROVE job.id \in DeployIds /\ d # job.id
  BY <1>3, OwnId
<1>4. CASE BeginStage
  <2>1. AtWork /\ AdvanceStage(job.id, job.stage)
    BY <1>4 DEF BeginStage, StoreStep, AtWork
  <2> QED
    BY <1>1, <1>3, <2>1, AdvanceStageKeeps DEF Job
<1>5. CASE Refuse
  <2>1. AtWork /\ FinishDeploy(job.id, "failed")
    BY <1>5 DEF Refuse, StoreStep, AtWork
  <2> QED
    BY <1>1, <1>3, <2>1, FinishDeployEnds DEF Terminal
<1>6. CASE Finish
  <2>1. AtWork /\ FinishDeploy(job.id, job.outcome)
    BY <1>6 DEF Finish, FinishDeployWithEvent, StoreStep, AtWork
  <2> QED
    BY <1>1, <1>3, <2>1, FinishDeployEnds DEF Job
<1>7. ASSUME \/ Acquire \/ LockBusy \/ LoadPrevious \/ EmitStarted \/ EarlyStage
             \/ Healthy \/ EmitSucceeded \/ RecordSpec \/ EmitFailed \/ Release
             \/ HostAction \/ NextRow \/ FinishReconcile \/ Failure
             \/ StartReconcile \/ Crash \/ UNCHANGED vars
      PROVE  deploys' = deploys
  BY <1>7 DEF Acquire, LockBusy, LoadPrevious, EmitStarted, EarlyStage, Healthy,
     EmitSucceeded, RecordSpec, EmitFailed, Release, NextRow, FinishReconcile, Failure,
     Refused, HostStepFails, StoreStepFails, StartReconcile, Crash, HostAction, HostStep,
     WriteUnit, DaemonReload, StartUnit, NothingToRemove, StopUnit, DeleteUnit, Unload,
     WriteFragment, ReloadCaddy, storeVars, vars
<1> QED
  BY <1>2, <1>4, <1>5, <1>6, <1>7 DEF Next, Step, DeployStep

\* An attempt's recorded outcome is never touched again, by its own process, by
\* a later deploy or by a recovery.
THEOREM EndingsFinal == Spec => TerminalIsFinal
<1>1. LockInv /\ [Next]_vars =>
        [\A d \in DeployIds : ~InProgress(d) => deploys'[d] = deploys[d]]_vars
  BY EndedRowsStay
<1> QED
  BY <1>1, LockInvHolds, PTL DEF Spec, TerminalIsFinal

------------------------------------------------------------------------------
(* The row and the log: LogInv *)

\* Where the k-th stage's entries are in the log.
LEMMA Halves ==
  \A k \in 1..6 : /\ StageAt(2 * k - 1) = StageOrder[k] /\ Starts(2 * k - 1)
                  /\ StageAt(2 * k) = StageOrder[k] /\ ~Starts(2 * k)
<1>1. \A k \in 1..6 : /\ (2 * k - 1 + 1) \div 2 = k /\ (2 * k + 1) \div 2 = k
                      /\ (2 * k - 1) % 2 = 1 /\ (2 * k) % 2 = 0
  OBVIOUS
<1> QED
  BY <1>1 DEF StageAt, Starts

\* A stage has its place in the pipeline, and a place its stage.
LEMMA StagePlace ==
  /\ \A s \in Stage : StageNumber(s) \in 1..6 /\ StageOrder[StageNumber(s)] = s
  /\ \A i \in 1..6 : StageOrder[i] \in Stage /\ StageNumber(StageOrder[i]) = i
<1>1. \A i \in 1..6 : StageOrder[i] \in Stage
  BY DEF StageOrder, Stage
<1>2. \A i, j \in 1..6 : StageOrder[i] = StageOrder[j] => i = j
  BY DEF StageOrder
<1>3. \A s \in Stage : \E i \in 1..6 : StageOrder[i] = s
  BY DEF StageOrder, Stage
<1>4. \A s \in Stage : StageNumber(s) \in 1..6 /\ StageOrder[StageNumber(s)] = s
  BY <1>3 DEF StageNumber
<1> QED
  BY <1>1, <1>2, <1>4

\* The entries of an appended log.
LEMMA Appended ==
  ASSUME NEW log \in Seq(Event), NEW ev \in Event
  PROVE  /\ Append(log, ev) \in Seq(Event)
         /\ Len(log) \in Nat /\ Len(Append(log, ev)) = Len(log) + 1
         /\ Append(log, ev)[Len(log) + 1] = ev
         /\ \A i \in 1..Len(log) : Append(log, ev)[i] = log[i]
         /\ DOMAIN log = 1..Len(log)
         /\ log = <<>> <=> Len(log) = 0
  BY AppendProperties, LenProperties, EmptySeq

\* The next entry of the pipeline is put where it belongs.
LEMMA PipelineGrows ==
  ASSUME NEW log \in Seq(Event), NEW n \in 0..11, Len(log) = n, InPipeline(log, n),
         log # <<>> => log[n].status # "failed",
         NEW ev \in Event, ev.stage = StageAt(n + 1),
         (ev.status = "started") <=> Starts(n + 1)
  PROVE  InPipeline(Append(log, ev), n + 1)
<1> DEFINE new == Append(log, ev)
<1>0. /\ Len(log) \in Nat /\ Append(log, ev)[Len(log) + 1] = ev
      /\ \A i \in 1..Len(log) : Append(log, ev)[i] = log[i]
      /\ log = <<>> <=> Len(log) = 0
  BY Appended
<1>1. /\ n \in 0..11 /\ new[n + 1] = ev
      /\ \A i \in 1..n : new[i] = log[i]
      /\ n > 0 => log # <<>>
  BY <1>0
<1> HIDE DEF new
<1>2. ASSUME NEW i \in 1..(n + 1)
      PROVE  /\ new[i].stage = StageAt(i)
             /\ (new[i].status = "started") <=> Starts(i)
             /\ new[i].status = "failed" => i = n + 1
  <2>1. CASE i = n + 1
    BY <1>1, <2>1
  <2>2. CASE i # n + 1
    <3>1. i \in 1..n
      BY <1>1, <2>2
    <3>2. /\ log[i].stage = StageAt(i)
          /\ (log[i].status = "started") <=> Starts(i)
          /\ log[i].status = "failed" => i = n
      BY <3>1 DEF InPipeline
    <3> QED
      BY <1>1, <3>1, <3>2
  <2> QED
    BY <2>1, <2>2
<1>3. n + 1 \in 0..12
  BY <1>1
<1> QED
  BY <1>2, <1>3 DEF InPipeline

\* In the pipeline the first entries do not depend on what follows.
LEMMA PipelineStays ==
  ASSUME NEW log, NEW new, NEW n, InPipeline(log, n), \A i \in 1..n : new[i] = log[i]
  PROVE  InPipeline(new, n)
  BY DEF InPipeline

\* The empty log is at the pipeline's start.
LEMMA PipelineStarts == InPipeline(<<>>, 0) /\ Len(<<>>) = 0
  BY EmptySeq DEF InPipeline

\* What an append does to the log of the job's row.
LEMMA Logged ==
  ASSUME LockInv, NEW d \in DeployIds, NEW s, NEW st, AppendEvent(d, s, st),
         [stage |-> s, status |-> st] \in Event
  PROVE  /\ events[d] \in Seq(Event) /\ events'[d] \in Seq(Event)
         /\ Len(events[d]) \in Nat /\ Len(events'[d]) = Len(events[d]) + 1
         /\ events'[d] = Append(events[d], [stage |-> s, status |-> st])
         /\ events'[d][Len(events[d]) + 1] = [stage |-> s, status |-> st]
         /\ \A i \in 1..Len(events[d]) : events'[d][i] = events[d][i]
         /\ \A i \in DeployIds : i # d => events'[i] = events[i]
<1> DEFINE ev == [stage |-> s, status |-> st]
<1>1. /\ events[d] \in Seq(Event) /\ events'[d] = Append(events[d], ev) /\ ev \in Event
      /\ \A i \in DeployIds : i # d => events'[i] = events[i]
  BY AppendEventAdds DEF LockInv, TypeOK
<1> HIDE DEF ev
<1>2. /\ Append(events[d], ev) \in Seq(Event)
      /\ Len(events[d]) \in Nat /\ Len(Append(events[d], ev)) = Len(events[d]) + 1
      /\ Append(events[d], ev)[Len(events[d]) + 1] = ev
      /\ \A i \in 1..Len(events[d]) : Append(events[d], ev)[i] = events[d][i]
  BY <1>1, Appended
<1> QED
  BY <1>1, <1>2 DEF ev

\* A step that writes no event and ends no row.
LEMMA LogFrame ==
  ASSUME LogInv, events' = events, DeployIds' = DeployIds,
         \A d \in DeployIds : deploys'[d].status = deploys[d].status,
         JobLogged'
  PROVE  LogInv'
  BY DEF LogInv, WellLogged, InProgress

\* A job that goes on to another place, in the same stage or before any.
LEMMA JobFrame ==
  ASSUME LockInv, LogInv, UNCHANGED <<deploys, events>>, AtWork' => AtWork,
         job'.id = job.id, job'.stage = job.stage, job'.outcome = job.outcome,
         job'.undo = job.undo, job'.mode = job.mode, job'.spec = job.spec,
         AtWork' /\ ~job.undo =>
           /\ pc' \in {"acquire", "refuse", "load"} => pc \in {"acquire", "refuse", "load"}
           /\ pc' \in {"begin", "started"} => pc \in {"begin", "started"}
           /\ pc' \in InStage => pc \in InStage
           /\ pc' \in {"put_spec", "finish"} => pc \in {"put_spec", "finish"}
           /\ pc' \notin {"stop", "delete", "unload"}
           /\ pc' = "route" => pc = "route",
         pc' = "next_row" => job.mode = "reconcile"
  PROVE  LogInv'
<1>1. JobLogged'
  BY DEF LogInv, JobLogged, AtWork
<1> QED
  BY <1>1, LogFrame DEF DeployIds

\* Where the job of a deploy going forward finds the log.
LEMMA JobLog ==
  ASSUME LockInv, LogInv, AtWork
  PROVE  /\ job \in Job /\ job.id \in DeployIds /\ InProgress(job.id)
         /\ events[job.id] \in Seq(Event) /\ Len(events[job.id]) \in Nat
         /\ events[job.id] = <<>> <=> Len(events[job.id]) = 0
         /\ InPipeline(events[job.id], Len(events[job.id]))
         /\ JobLogged
<1>1. /\ job.id \in DeployIds /\ InProgress(job.id) /\ StoreTypeOK /\ job \in Job
  BY OwnId
<1>2. job.id \in 1..Len(events) /\ events \in Seq(Seq(Event))
  BY <1>1 DEF StoreTypeOK, DeployIds
<1>3. events[job.id] \in Seq(Event)
  BY <1>2, ElementOfSeq
<1>4. /\ Len(events[job.id]) \in Nat
      /\ events[job.id] = <<>> <=> Len(events[job.id]) = 0
  BY <1>3, LenProperties, EmptySeq
<1>5. WellLogged(job.id) /\ JobLogged
  BY <1>1 DEF LogInv
<1> QED
  BY <1>1, <1>3, <1>4, <1>5 DEF WellLogged

\* A stage's entry in the log of the job's row; the next place may follow.
LEMMA StageLogged ==
  ASSUME LockInv, LogInv, AtWork, ~job.undo, deploys' = deploys,
         NEW k \in 1..6, NEW st \in {"started", "succeeded", "failed"},
         AppendEvent(job.id, StageOrder[k], st),
         Len(events[job.id]) = (IF st = "started" THEN 2 * k - 2 ELSE 2 * k - 1)
  PROVE  /\ \A d \in DeployIds' : WellLogged(d)'
         /\ Len(events'[job.id]) = (IF st = "started" THEN 2 * k - 1 ELSE 2 * k)
         /\ events'[job.id][Len(events'[job.id])].status = st
<1> DEFINE ev == [stage |-> StageOrder[k], status |-> st]
<1>1. PICK d \in DeployIds : d = job.id
  BY JobLog
<1>2. PICK n \in Nat : n = Len(events[d])
  BY <1>1, JobLog
<1>3. ev \in Event /\ ev.stage = StageOrder[k] /\ ev.status = st
  BY StagePlace DEF Event
<1>4. AppendEvent(d, StageOrder[k], st)
  BY <1>1
<1> HIDE DEF ev
<1>5. /\ events[d] \in Seq(Event) /\ events'[d] = Append(events[d], ev)
      /\ Len(events'[d]) = n + 1 /\ events'[d][n + 1] = ev
      /\ \A i \in DeployIds : i # d => events'[i] = events[i]
  BY <1>2, <1>3, <1>4, Logged DEF ev
<1>6. n \in 0..11 /\ Len(events[d]) = n
  <2>1. Len(events[d]) = (IF st = "started" THEN 2 * k - 2 ELSE 2 * k - 1)
    BY <1>1
  <2> QED
    BY <1>2, <2>1
<1>7. StageAt(n + 1) = StageOrder[k] /\ ((st = "started") <=> Starts(n + 1))
  <2>1. CASE st = "started"
    <3>1. n + 1 = 2 * k - 1
      BY <1>1, <1>2, <2>1
    <3> QED
      BY <2>1, <3>1, Halves
  <2>2. CASE st # "started"
    <3>1. n + 1 = 2 * k
      BY <1>1, <1>2, <2>2
    <3> QED
      BY <2>2, <3>1, Halves
  <2> QED
    BY <2>1, <2>2
<1>8. /\ InPipeline(events[d], Len(events[d]))
      /\ events[d] # <<>> => events[d][Len(events[d])].status # "failed"
  BY <1>1, JobLog DEF JobLogged
<1>9. InPipeline(Append(events[d], ev), n + 1)
  <2>1. InPipeline(events[d], n)
    BY <1>2, <1>8
  <2>2. events[d] # <<>> => events[d][n].status # "failed"
    BY <1>2, <1>8
  <2>3. ev.stage = StageAt(n + 1)
    BY <1>3, <1>7
  <2>4. (ev.status = "started") <=> Starts(n + 1)
    BY <1>3, <1>7
  <2> QED
    BY <1>3, <1>5, <1>6, <2>1, <2>2, <2>3, <2>4, PipelineGrows
<1>10. InPipeline(events'[d], Len(events'[d]))
  BY <1>2, <1>5, <1>9
<1>11. ASSUME NEW i \in DeployIds PROVE WellLogged(i)'
  <2>1. CASE i = d
    BY <1>1, <1>10, <2>1, JobLog DEF WellLogged, InProgress
  <2>2. CASE i # d
    BY <1>5, <2>2 DEF WellLogged, InProgress, LogInv
  <2> QED
    BY <2>1, <2>2
<1>12. DeployIds' = DeployIds
  BY DEF DeployIds
<1> QED
  BY <1>1, <1>2, <1>3, <1>5, <1>11, <1>12

\* A new attempt has an empty log.
LEMMA SubmitLogged ==
  ASSUME LockInv, LogInv, NEW a \in Apps, NEW s \in Specs, Submit(a, s)
  PROVE  LogInv'
<1> PICK n : n = Len(deploys) + 1
  OBVIOUS
<1>1. /\ CreateDeploy(a) /\ pc' = "acquire"
      /\ job' = [IdleJob EXCEPT !.app = a, !.id = n, !.spec = s]
      /\ StoreTypeOK
  BY DEF Submit, StoreStep, LockInv, TypeOK
<1>2. /\ DeployIds' = DeployIds \cup {n}
      /\ \A d \in DeployIds : deploys'[d] = deploys[d] /\ events'[d] = events[d]
      /\ deploys'[n].status = "in_progress" /\ events'[n] = <<>>
  BY <1>1, CreateDeployAdds
<1>3. /\ job'.id = n /\ job'.outcome = "done" /\ job'.stage = "detect" /\ ~job'.undo
      /\ job'.mode = "deploy"
  BY <1>1 DEF IdleJob
<1>4. JobLogged'
  <2>1. events'[job'.id] = <<>>
    BY <1>2, <1>3
  <2> QED
    BY <1>1, <1>3, <2>1 DEF JobLogged, AtWork, InStage
<1>5. WellLogged(n)'
  BY <1>2, PipelineStarts DEF WellLogged, InProgress
<1>6. ASSUME NEW d \in DeployIds PROVE WellLogged(d)'
  <2>1. deploys'[d] = deploys[d] /\ events'[d] = events[d] /\ WellLogged(d)
    BY <1>2 DEF LogInv
  <2> QED
    BY <2>1 DEF WellLogged, InProgress
<1> QED
  BY <1>2, <1>4, <1>5, <1>6 DEF LogInv

\* Steps forward that write no event.
LEMMA QuietLogged ==
  ASSUME LockInv, LogInv,
         Acquire \/ LockBusy \/ LoadPrevious \/ BeginStage \/ EarlyStage \/ Healthy \/ RecordSpec
  PROVE  LogInv'
<1>1. AtWork /\ ~job.undo
  BY DEF LockInv, SpecsKnown, AtWork, Forward, Acquire, LockBusy, LoadPrevious, BeginStage,
     EarlyStage, Healthy, RecordSpec, StoreStep, HostStep
<1>2. JobLogged /\ job \in Job /\ StoreTypeOK
  BY <1>1, JobLog DEF LockInv, TypeOK
<1>3. CASE Acquire \/ LockBusy
  BY <1>1, <1>3, JobFrame DEF Acquire, LockBusy, StoreStep, Goto, AtWork, InStage, storeVars
<1>4. CASE LoadPrevious
  <2>1. /\ pc = "load" /\ pc' = "begin" /\ UNCHANGED <<deploys, events>>
        /\ job' = [job EXCEPT !.prev = specs[job.app]]
    BY <1>4 DEF LoadPrevious, StoreStep, storeVars
  <2>2. /\ job'.id = job.id /\ job'.stage = job.stage /\ job'.outcome = job.outcome
        /\ job'.undo = job.undo /\ job'.mode = job.mode
    BY <1>2, <2>1 DEF Job
  <2>3. StageNumber("detect") = 1
    BY StagePlace DEF StageOrder
  <2>4. Len(events[job.id]) = 2 * 1 - 2
    BY <1>1, <2>1, JobLog DEF JobLogged
  <2>5. JobLogged'
    BY <1>1, <1>2, <2>1, <2>2, <2>3, <2>4 DEF JobLogged, AtWork, InStage
  <2> QED
    BY <2>1, <2>5, LogFrame DEF DeployIds
<1>5. CASE BeginStage
  <2>1. /\ pc = "begin" /\ pc' = "started" /\ UNCHANGED <<events, job>>
        /\ AdvanceStage(job.id, job.stage)
    BY <1>5 DEF BeginStage, StoreStep, Goto
  <2>2. /\ Len(deploys') = Len(deploys)
        /\ \A d \in DeployIds : deploys'[d].status = deploys[d].status
    BY <1>1, <1>2, <2>1, OwnId, AdvanceStageKeeps DEF Job
  <2>3. JobLogged'
    BY <1>1, <1>2, <2>1 DEF JobLogged, AtWork, InStage
  <2> QED
    BY <2>1, <2>2, <2>3, LogFrame DEF DeployIds
<1>6. CASE EarlyStage \/ Healthy
  BY <1>1, <1>6, JobFrame DEF EarlyStage, Healthy, HostStep, Goto, AtWork, InStage
<1>7. CASE RecordSpec
  BY <1>1, <1>7, JobFrame DEF RecordSpec, StoreStep, Goto, AtWork, InStage
<1> QED
  BY <1>3, <1>4, <1>5, <1>6, <1>7

\* A stage starts, succeeds or fails.
LEMMA EntryLogged ==
  ASSUME LockInv, LogInv, EmitStarted \/ EmitSucceeded \/ EmitFailed
  PROVE  LogInv'
<1>1. AtWork /\ ~job.undo /\ deploys' = deploys
  BY DEF LockInv, SpecsKnown, AtWork, Forward, EmitStarted, EmitSucceeded, EmitFailed, StoreStep
<1>2. JobLogged /\ job \in Job /\ job.stage \in Stage
  BY <1>1, JobLog DEF Job
<1>3. PICK k \in 1..6 : k = StageNumber(job.stage) /\ StageOrder[k] = job.stage
  BY <1>2, StagePlace
<1>4. job.outcome = "done" /\ job.mode # "reconcile"
  BY <1>1, <1>2 DEF JobLogged
<1>5. CASE EmitStarted
  <2>1. /\ pc = "started" /\ job' = job /\ pc' = WorkPc(job.stage, job.spec)
        /\ AppendEvent(job.id, StageOrder[k], "started")
    BY <1>3, <1>5 DEF EmitStarted, StoreStep, Goto
  <2>2. Len(events[job.id]) = 2 * k - 2
    BY <1>1, <1>2, <1>3, <2>1 DEF JobLogged
  <2>3. /\ \A d \in DeployIds' : WellLogged(d)'
        /\ Len(events'[job.id]) = 2 * k - 1
        /\ events'[job.id][Len(events'[job.id])].status = "started"
    BY <1>1, <2>1, <2>2, StageLogged
  <2>4. /\ pc' \in InStage
        /\ pc' = "route" => job.spec.route # None
    BY <1>2, <2>1 DEF WorkPc, InStage, Stage
  <2>5. JobLogged'
    BY <1>1, <1>3, <1>4, <2>1, <2>3, <2>4 DEF JobLogged, AtWork, InStage
  <2> QED
    BY <2>3, <2>5 DEF LogInv
<1>6. ASSUME pc \in {"ok", "fail"}, NEW st \in {"succeeded", "failed"},
             AppendEvent(job.id, StageOrder[k], st)
      PROVE  /\ \A d \in DeployIds' : WellLogged(d)'
             /\ Len(events'[job.id]) = 2 * k
             /\ events'[job.id][Len(events'[job.id])].status = st
  <2>1. Len(events[job.id]) = 2 * k - 1
    BY <1>1, <1>2, <1>3, <1>6 DEF JobLogged, InStage
  <2> QED
    BY <1>1, <1>6, <2>1, StageLogged
<1>7. CASE EmitSucceeded
  <2>1. pc = "ok" /\ AppendEvent(job.id, StageOrder[k], "succeeded")
    BY <1>3, <1>7 DEF EmitSucceeded, StoreStep
  <2>2. /\ \A d \in DeployIds' : WellLogged(d)'
        /\ Len(events'[job.id]) = 2 * k
        /\ events'[job.id][Len(events'[job.id])].status = "succeeded"
    BY <1>6, <2>1
  <2>3. CASE job.stage = "healthcheck"
    <3>1. job' = job /\ pc' = "put_spec"
      BY <1>7, <2>3 DEF EmitSucceeded, Goto
    <3>2. k = 6
      BY <1>3, <2>3, StagePlace DEF StageOrder
    <3>3. Len(events'[job.id]) = 12
      BY <2>2, <3>2
    <3>4. JobLogged'
      BY <1>1, <1>4, <2>2, <3>1, <3>3 DEF JobLogged, AtWork, InStage
    <3> QED
      BY <2>2, <3>4 DEF LogInv
  <2>4. CASE job.stage # "healthcheck"
    <3>1. /\ job' = [job EXCEPT !.stage = StageOrder[StageNumber(@) + 1]] /\ pc' = "begin"
      BY <1>7, <2>4 DEF EmitSucceeded
    <3>2. /\ job'.id = job.id /\ job'.outcome = job.outcome /\ job'.undo = job.undo
          /\ job'.mode = job.mode /\ job'.stage = StageOrder[k + 1]
      BY <1>2, <1>3, <3>1 DEF Job
    <3>3. k \in 1..5
      BY <1>3, <2>4 DEF StageOrder
    <3>4. StageNumber(job'.stage) = k + 1
      <4>1. k + 1 \in 1..6
        BY <3>3
      <4> QED
        BY <3>2, <4>1, StagePlace
    <3>5. Len(events'[job.id]) = 2 * (k + 1) - 2
      BY <2>2, <3>3
    <3>6. JobLogged'
      BY <1>1, <1>4, <2>2, <3>1, <3>2, <3>4, <3>5 DEF JobLogged, AtWork, InStage
    <3> QED
      BY <2>2, <3>6 DEF LogInv
  <2> QED
    BY <2>3, <2>4
<1>8. CASE EmitFailed
  <2>1. /\ pc = "fail" /\ AppendEvent(job.id, StageOrder[k], "failed")
        /\ job' = [job EXCEPT !.undo = TRUE, !.outcome = "rolled_back"]
        /\ pc' = CompensatePc(job.stage, job.prev)
    BY <1>3, <1>8 DEF EmitFailed, StoreStep
  <2>2. \A d \in DeployIds' : WellLogged(d)'
    BY <1>6, <2>1
  <2>3. job'.undo /\ job'.outcome = "rolled_back"
    BY <1>2, <2>1 DEF Job
  <2>4. pc' # "next_row"
    BY <1>2, <2>1 DEF CompensatePc, UnwindApplyPc, Stage
  <2>5. JobLogged'
    BY <2>3, <2>4 DEF JobLogged
  <2> QED
    BY <2>2, <2>5 DEF LogInv
<1> QED
  BY <1>5, <1>7, <1>8

\* An attempt that was refused ends without an entry, any other with one.
LEMMA EndingLogged ==
  ASSUME LockInv, LogInv, Refuse \/ Finish
  PROVE  LogInv'
<1>1. AtWork /\ StoreTypeOK
  BY DEF Refuse, Finish, StoreStep, AtWork, LockInv, TypeOK
<1>2. PICK d \in DeployIds : d = job.id
  BY <1>1, OwnId
<1>3. PICK n \in Nat : n = Len(events[d])
  BY <1>1, <1>2, JobLog
<1>4. InPipeline(events[d], n) /\ JobLogged /\ job \in Job
  BY <1>1, <1>2, <1>3, JobLog
<1>5. CASE Refuse
  <2>1. /\ pc = "refuse" /\ FinishDeploy(d, "failed") /\ events' = events
        /\ pc' = "idle" /\ job' = IdleJob
    BY <1>2, <1>5 DEF Refuse, StoreStep, Rest
  <2>2. /\ DeployIds' = DeployIds /\ deploys'[d].status = "failed"
        /\ \A i \in DeployIds : i # d => deploys'[i] = deploys[i]
    BY <1>1, <2>1, FinishDeployEnds DEF Terminal, DeployIds
  <2>3. events[d] = <<>>
    BY <1>1, <1>2, <1>4, <2>1 DEF JobLogged, LockInv, SpecsKnown, Forward
  <2>4. ASSUME NEW i \in DeployIds PROVE WellLogged(i)'
    <3>1. CASE i = d
      BY <2>1, <2>2, <2>3, <3>1 DEF WellLogged, InProgress
    <3>2. CASE i # d
      BY <2>1, <2>2, <3>2 DEF WellLogged, InProgress, LogInv
    <3> QED
      BY <3>1, <3>2
  <2>5. JobLogged'
    BY <2>1 DEF JobLogged, AtWork, IdleJob
  <2> QED
    BY <2>2, <2>4, <2>5 DEF LogInv
<1>6. CASE Finish
  <2>1. PICK st \in Terminal : st = job.outcome
    BY <1>4 DEF Job
  <2>2. /\ pc = "finish" /\ FinishDeploy(d, st) /\ AppendEvent(d, "deploy", st)
        /\ pc' = "release" /\ job' = job
    BY <1>2, <1>6, <2>1 DEF Finish, FinishDeployWithEvent, StoreStep, Goto
  <2>3. /\ DeployIds' = DeployIds /\ deploys'[d].status = st
        /\ \A i \in DeployIds : i # d => deploys'[i] = deploys[i]
    BY <1>1, <2>2, FinishDeployEnds DEF DeployIds
  <2>4. [stage |-> "deploy", status |-> st] \in Event
    BY DEF Event
  <2>5. /\ events[d] \in Seq(Event) /\ Len(events'[d]) = n + 1
        /\ events'[d][n + 1] = [stage |-> "deploy", status |-> st]
        /\ \A i \in 1..n : events'[d][i] = events[d][i]
        /\ \A i \in DeployIds : i # d => events'[i] = events[i]
    BY <1>3, <2>2, <2>4, Logged
  <2>6. InPipeline(events'[d], n)
    BY <1>4, <2>5, PipelineStays
  <2>7. st = "done" => n = 12 /\ events'[d][12].status = "succeeded"
    <3> SUFFICES ASSUME st = "done" PROVE n = 12 /\ events'[d][12].status = "succeeded"
      OBVIOUS
    <3>0. ~job.undo
      BY <1>1, <1>4, <2>1 DEF JobLogged
    <3>1. n = 12 /\ (events[d] # <<>> => events[d][n].status # "failed")
      <4>1. /\ Len(events[job.id]) = 12
            /\ events[job.id] # <<>> => events[job.id][Len(events[job.id])].status # "failed"
        BY <1>1, <1>4, <2>2, <3>0 DEF JobLogged
      <4> QED
        BY <1>2, <1>3, <4>1
    <3>2. events[d] # <<>> /\ events[d][12] \in Event
      <4>1. Len(events[d]) = 12 /\ 12 \in 1..Len(events[d])
        BY <1>3, <3>1
      <4>2. events[d][12] \in Event
        BY <2>5, <4>1, ElementOfSeq
      <4>3. events[d] # <<>>
        <5>1. events[d] = <<>> <=> Len(events[d]) = 0
          BY <1>1, <1>2, JobLog
        <5> QED
          BY <4>1, <5>1
      <4> QED
        BY <4>2, <4>3
    <3>3. events[d][12].stage = StageAt(2 * 6) /\ ~((events[d][12].status = "started"))
      <4>1. 12 \in 1..n /\ ~Starts(2 * 6) /\ 2 * 6 = 12
        BY <3>1, Halves
      <4> QED
        BY <1>4, <4>1 DEF InPipeline
    <3>4. StageAt(2 * 6) = "healthcheck"
      BY Halves DEF StageOrder
    <3>5. events[d][12].status = "succeeded"
      BY <3>1, <3>2, <3>3, <3>4 DEF Event
    <3> QED
      BY <2>5, <3>1, <3>5
  <2>8. ASSUME NEW i \in DeployIds PROVE WellLogged(i)'
    <3>1. CASE i = d
      <4>1. ~InProgress(d)'
        BY <2>3 DEF InProgress, Terminal
      <4>2. Len(events'[d]) > 0 /\ Len(events'[d]) - 1 = n
        BY <2>5
      <4>3. /\ InPipeline(events'[d], Len(events'[d]) - 1)
            /\ events'[d][Len(events'[d])] = [stage |-> "deploy", status |-> deploys'[d].status]
        BY <2>3, <2>5, <2>6, <4>2
      <4>4. deploys'[d].status = "done" =>
              Len(events'[d]) = 13 /\ events'[d][12].status = "succeeded"
        BY <2>3, <2>5, <2>7
      <4> QED
        BY <3>1, <4>1, <4>2, <4>3, <4>4 DEF WellLogged
    <3>2. CASE i # d
      BY <2>3, <2>5, <3>2 DEF WellLogged, InProgress, LogInv
    <3> QED
      BY <3>1, <3>2
  <2>9. JobLogged'
    BY <1>4, <2>2 DEF JobLogged, AtWork
  <2> QED
    BY <2>3, <2>8, <2>9 DEF LogInv
<1> QED
  BY <1>5, <1>6

\* Steps after which no attempt is the process's, and a recovery taking one up.
LEMMA RestLogged ==
  ASSUME LockInv, LogInv,
         Release \/ FinishReconcile \/ StartReconcile \/ NextRow \/ StoreStepFails \/ Crash
  PROVE  LogInv'
<1>1. UNCHANGED <<deploys, events>> /\ job \in Job /\ JobLogged
  BY DEF Release, FinishReconcile, StartReconcile, NextRow, StoreStepFails, Crash, StoreStep,
     storeVars, LockInv, TypeOK, LogInv
<1>2. CASE Rest
  BY <1>1, <1>2, LogFrame DEF Rest, IdleJob, JobLogged, AtWork, DeployIds
<1>3. CASE Goto("release")
  BY <1>1, <1>3, LogFrame DEF Goto, JobLogged, AtWork, DeployIds
<1>4. CASE Goto("next_row") /\ job.mode # "deploy"
  BY <1>1, <1>4, LogFrame DEF Goto, JobLogged, AtWork, DeployIds, Job
<1>5. CASE StartReconcile
  <2>1. /\ pc' = "next_row" /\ job'.undo /\ job'.mode = "reconcile"
    BY <1>5 DEF StartReconcile, IdleJob
  <2> QED
    BY <1>1, <2>1, LogFrame DEF JobLogged, AtWork, DeployIds
<1>6. CASE NextRow
  <2>1. pc = "next_row" /\ job.undo
    BY <1>1, <1>6 DEF NextRow, StoreStep, JobLogged
  <2>2. PICK d \in job.todo :
          /\ job' = [job EXCEPT !.id = d, !.app = deploys[d].app,
                                !.stage = deploys[d].stage,
                                !.prev = specs[deploys[d].app],
                                !.outcome = "rolled_back", !.todo = @ \ {d}]
          /\ pc' = CompensatePc(deploys[d].stage, specs[deploys[d].app])
    BY <1>6 DEF NextRow
  <2>3. job'.undo /\ job'.outcome = "rolled_back"
    BY <1>1, <2>1, <2>2 DEF Job
  <2>4. pc' # "next_row"
    <3>1. d \in 1..Len(deploys) /\ deploys \in Seq(DeployRow)
      BY DEF LockInv, TypeOK, StoreTypeOK, DeployIds
    <3>2. deploys[d].stage \in Stage
      BY <3>1, ElementOfSeq, RowColumns
    <3> QED
      BY <2>2, <3>2 DEF CompensatePc, UnwindApplyPc, Stage
  <2> QED
    BY <1>1, <2>3, <2>4, LogFrame DEF JobLogged, AtWork, DeployIds
<1> QED
  BY <1>2, <1>3, <1>4, <1>5, <1>6 DEF Release, FinishReconcile, StoreStepFails, Crash

\* Steps on the host, and their failures.
LEMMA HostLogged ==
  ASSUME LockInv, LogInv, HostAction \/ Refused \/ HostStepFails
  PROVE  LogInv'
<1>1. UNCHANGED <<deploys, events>> /\ job \in Job /\ JobLogged /\ AtWork
  BY DEF HostAction, HostStep, WriteUnit, DaemonReload, StartUnit, NothingToRemove, StopUnit,
     DeleteUnit, Unload, WriteFragment, ReloadCaddy, Refused, Refusal, HostStepFails, HostPc,
     LockInv, TypeOK, LogInv, AtWork
<1>2. CASE WriteUnit
  <2>1. /\ pc = "write" /\ pc' = "reload" /\ job' = [job EXCEPT !.seen = Me.unit]
    BY <1>2 DEF WriteUnit, HostStep
  <2>2. /\ job'.id = job.id /\ job'.stage = job.stage /\ job'.outcome = job.outcome
        /\ job'.undo = job.undo /\ job'.mode = job.mode /\ job'.spec = job.spec
    BY <1>1, <2>1 DEF Job
  <2> QED
    BY <1>1, <2>1, <2>2, JobFrame DEF AtWork, InStage
<1>3. CASE DaemonReload
  BY <1>1, <1>3, JobFrame DEF DaemonReload, HostStep, Goto, AtWork, InStage
<1>4. CASE StartUnit
  BY <1>1, <1>4, JobFrame DEF StartUnit, HostStep, Goto, AtWork, InStage
<1>5. CASE NothingToRemove \/ StopUnit \/ DeleteUnit \/ Unload
  <2>1. job.undo
    BY <1>1, <1>5 DEF JobLogged, NothingToRemove, StopUnit, DeleteUnit, Unload, HostStep
  <2> QED
    BY <1>1, <1>5, <2>1, JobFrame
    DEF NothingToRemove, StopUnit, DeleteUnit, Unload, HostStep, Goto
<1>6. CASE WriteFragment
  <2>1. ~job.undo => TargetRoute # None
    BY <1>1, <1>6 DEF WriteFragment, HostStep, JobLogged, TargetRoute
  <2> QED
    BY <1>1, <1>6, <2>1, JobFrame
    DEF WriteFragment, HostStep, Goto, AtWork, InStage, UnwindApplyPc
<1>7. CASE ReloadCaddy
  BY <1>1, <1>7, JobFrame DEF ReloadCaddy, HostStep, Goto, AtWork, InStage, UnwindApplyPc
<1>8. CASE Refused \/ HostStepFails
  <2>1. Abandon /\ pc \in HostPc
    BY <1>8 DEF Refused, HostStepFails, Refusal, HostPc
  <2>2. CASE job.undo
    <3>1. job'.undo /\ job'.outcome = "failed" /\ pc' = "finish"
      BY <1>1, <2>1, <2>2 DEF Abandon, Job
    <3> QED
      BY <1>1, <3>1, LogFrame DEF JobLogged, DeployIds
  <2>3. CASE ~job.undo
    BY <1>1, <2>1, <2>3, JobFrame DEF Abandon, Goto, AtWork, InStage, HostPc, JobLogged
  <2> QED
    BY <2>2, <2>3
<1> QED
  BY <1>2, <1>3, <1>4, <1>5, <1>6, <1>7, <1>8 DEF HostAction

\* LogInv is inductive, next to LockInv.
LEMMA LogInvNext == LockInv /\ LogInv /\ [Next]_vars => LogInv'
<1> SUFFICES ASSUME LockInv, LogInv, [Next]_vars PROVE LogInv'
  OBVIOUS
<1>1. CASE UNCHANGED vars
  BY <1>1 DEF vars, LogInv, WellLogged, JobLogged, AtWork, InProgress, DeployIds
<1> QED
  BY <1>1, SubmitLogged, QuietLogged, EntryLogged, EndingLogged, RestLogged, HostLogged
  DEF Next, Step, DeployStep, Failure

\* What a reader of a well-kept log finds: one ending, and the pipeline before.
LEMMA LogRead ==
  ASSUME LockInv, NEW d \in DeployIds, WellLogged(d)
  PROVE  /\ IF InProgress(d) THEN Endings(d) = {}
            ELSE \/ deploys[d].status = "failed" /\ events[d] = <<>>
                 \/ /\ Endings(d) = {Len(events[d])}
                    /\ events[d][Len(events[d])].status = deploys[d].status
         /\ \A i \in DOMAIN events[d] \ Endings(d) :
              /\ events[d][i].stage = StageAt(i)
              /\ (events[d][i].status = "started") <=> Starts(i)
              /\ events[d][i].status = "failed" => (i + 1 .. Len(events[d])) \subseteq Endings(d)
         /\ deploys[d].status = "done" =>
              Len(events[d]) = 13 /\ events[d][12].status = "succeeded"
<1>1. d \in 1..Len(events) /\ events \in Seq(Seq(Event)) /\ deploys \in Seq(DeployRow)
  BY DEF LockInv, TypeOK, StoreTypeOK, DeployIds
<1>2. events[d] \in Seq(Event)
  BY <1>1, ElementOfSeq
<1>3. PICK n \in Nat : n = Len(events[d])
  BY <1>2, LenProperties
<1>4. DOMAIN events[d] = 1..n
  BY <1>2, <1>3, LenProperties
<1>5. \A i \in 1..6 : StageOrder[i] # "deploy"
  BY DEF StageOrder
<1>6. \A i \in 1..12 : StageAt(i) # "deploy"
  <2>1. ASSUME NEW i \in 1..12 PROVE StageAt(i) # "deploy"
    <3>1. PICK k \in 1..6 : i = 2 * k - 1 \/ i = 2 * k
      OBVIOUS
    <3> QED
      BY <1>5, <3>1, Halves
  <2> QED
    BY <2>1
<1>7. CASE InProgress(d)
  <2>1. InPipeline(events[d], n)
    BY <1>3, <1>7 DEF WellLogged
  <2>2. Endings(d) = {}
    BY <1>4, <1>6, <2>1 DEF Endings, InPipeline
  <2>3. \A i \in 1..n : events[d][i].status = "failed" => i + 1 .. n = {}
    BY <2>1 DEF InPipeline
  <2> QED
    BY <1>3, <1>4, <1>7, <2>1, <2>2, <2>3 DEF InPipeline, InProgress
<1>8. CASE ~InProgress(d) /\ deploys[d].status = "failed" /\ events[d] = <<>>
  BY <1>4, <1>3, <1>8, EmptySeq
<1>9. CASE /\ ~InProgress(d) /\ n > 0 /\ InPipeline(events[d], n - 1)
           /\ events[d][n] = [stage |-> "deploy", status |-> deploys[d].status]
           /\ deploys[d].status = "done" => n = 13 /\ events[d][12].status = "succeeded"
  <2>1. \A i \in 1..n : i = n \/ i \in 1..(n - 1)
    BY <1>9
  <2>2. n - 1 \in 0..12 /\ \A i \in 1..(n - 1) : events[d][i].stage # "deploy"
    BY <1>6, <1>9 DEF InPipeline
  <2>3. n \in 1..n /\ events[d][n].stage = "deploy"
    BY <1>9
  <2>4. Endings(d) = {n}
    BY <1>4, <2>1, <2>2, <2>3 DEF Endings
  <2>5. \A i \in 1..(n - 1) : events[d][i].status = "failed" => i + 1 .. n = {n}
    BY <1>9 DEF InPipeline
  <2> QED
    BY <1>3, <1>4, <1>9, <2>1, <2>4, <2>5 DEF InPipeline
<1> QED
  BY <1>3, <1>7, <1>8, <1>9 DEF WellLogged

\* Both invariants hold in every state the engine reaches.
LEMMA LogInvHolds == Spec => [](LockInv /\ LogInv)
<1>1. Init => LogInv
  BY DEF Init, StoreInit, LogInv, JobLogged, AtWork, DeployIds, IdleJob
<1>2. LockInv /\ LogInv /\ [Next]_vars => LogInv'
  BY LogInvNext
<1> QED
  BY <1>1, <1>2, LockInvHolds, PTL DEF Spec

\* The row and the log agree about where an attempt's story ends, whatever
\* fails and wherever the process dies (run.rs:272-283).
THEOREM RowsAndLogsAgree == Spec => []RowLogAgree
<1>1. LockInv /\ LogInv => RowLogAgree
  BY LogRead DEF LogInv, RowLogAgree
<1> QED
  BY <1>1, LogInvHolds, PTL

\* The log of an attempt is a prefix of the pipeline and its ending.
THEOREM LogsInOrder == Spec => []LogInOrder
<1>1. LockInv /\ LogInv => LogInOrder
  BY LogRead DEF LogInv, LogInOrder
<1> QED
  BY <1>1, LogInvHolds, PTL

------------------------------------------------------------------------------
(* What the host serves while nothing cuts a process short: ServedInv *)

\* The process is not killed, the store does not fail, an interrupted command
\* leaves whole files, and no spec gives its route up.
Undisturbed == MaxCrashes = 0 /\ ~StoreFaults /\ ~Tearing /\ RoutesKept

\* A spec's version and route are neither absent nor somebody else's.
LEMMA SpecTypes ==
  ASSUME NEW s \in Specs
  PROVE  /\ s # NoSpec
         /\ s.version \in Versions /\ s.version \notin {None, Unowned}
         /\ RoutesKept => s.route \in Routes /\ s.route \notin {None, Unowned}
  BY EngineAssumption, StoreAssumption DEF RoutesKept

\* Each stage but the last has the next one after it.
LEMMA Successor ==
  /\ StageOrder[StageNumber("detect") + 1] = "build"
  /\ StageOrder[StageNumber("build") + 1] = "secrets"
  /\ StageOrder[StageNumber("secrets") + 1] = "apply"
  /\ StageOrder[StageNumber("apply") + 1] = "route"
  /\ StageOrder[StageNumber("route") + 1] = "healthcheck"
<1>1. /\ StageNumber("detect") = 1 /\ StageNumber("build") = 2 /\ StageNumber("secrets") = 3
      /\ StageNumber("apply") = 4 /\ StageNumber("route") = 5
  <2>1. \A i \in 1..6 : StageNumber(StageOrder[i]) = i
    BY StagePlace
  <2>2. /\ StageOrder[1] = "detect" /\ StageOrder[2] = "build" /\ StageOrder[3] = "secrets"
        /\ StageOrder[4] = "apply" /\ StageOrder[5] = "route"
    BY DEF StageOrder
  <2> QED
    BY <2>1, <2>2
<1> QED
  BY <1>1 DEF StageOrder

\* Writing a field of the app's host state changes that field and no other app.
LEMMA SetFact ==
  ASSUME LockInv, job'.app = job.app,
         NEW f \in {"unit", "loaded", "running", "fragment", "served"}, NEW x, Set(f, x)
  PROVE  /\ \A a \in Apps : a # job.app => host'[a] = host[a]
         /\ Me'.unit = IF f = "unit" THEN x ELSE Me.unit
         /\ Me'.loaded = IF f = "loaded" THEN x ELSE Me.loaded
         /\ Me'.running = IF f = "running" THEN x ELSE Me.running
         /\ Me'.fragment = IF f = "fragment" THEN x ELSE Me.fragment
         /\ Me'.served = IF f = "served" THEN x ELSE Me.served
<1>1. job.app \in Apps /\ host \in [Apps -> Host]
  BY DEF LockInv, TypeOK, Job
<1>2. host[job.app] \in Host
  BY <1>1
<1>3. host' = [host EXCEPT ![job.app] = [host[job.app] EXCEPT ![f] = x]]
  BY DEF Set
<1>4. host'[job.app] = [host[job.app] EXCEPT ![f] = x]
  BY <1>1, <1>3
<1>5. \A a \in Apps : a # job.app => host'[a] = host[a]
  BY <1>1, <1>3
<1> QED
  BY <1>2, <1>4, <1>5 DEF Me, Host

\* The rows that ended `failed` with a log decide which apps are wrecked.
LEMMA WreckedFrame ==
  ASSUME DeployIds \subseteq DeployIds',
         \A d \in DeployIds :
           /\ deploys'[d].app = deploys[d].app
           /\ deploys'[d].status = "failed" /\ events'[d] # <<>>
                <=> deploys[d].status = "failed" /\ events[d] # <<>>,
         \A d \in DeployIds' : d \notin DeployIds => deploys'[d].status # "failed",
         NEW a \in Apps
  PROVE  Wrecked(a)' <=> Wrecked(a)
  BY DEF Wrecked

\* No step but Finish wrecks an app or repairs one.
LEMMA WreckedSame ==
  ASSUME LockInv, LogInv, [Next]_vars, ~Finish, NEW a \in Apps
  PROVE  Wrecked(a)' <=> Wrecked(a)
<1>1. StoreTypeOK /\ (AtWork => /\ job.id \in DeployIds /\ InProgress(job.id)
                                /\ job \in Job /\ JobLogged)
  BY OwnId DEF LockInv, TypeOK, LogInv
<1>2. ASSUME NEW b \in Apps, NEW s \in Specs, Submit(b, s) PROVE Wrecked(a)' <=> Wrecked(a)
  <2>1. CreateDeploy(b)
    BY <1>2 DEF Submit
  <2>2. PICK n : n = Len(deploys) + 1
    OBVIOUS
  <2>3. /\ DeployIds' = DeployIds \cup {n}
        /\ \A d \in DeployIds : deploys'[d] = deploys[d] /\ events'[d] = events[d]
        /\ deploys'[n].status = "in_progress"
    BY <1>1, <2>1, <2>2, CreateDeployAdds
  <2> QED
    BY <2>3, WreckedFrame
<1>3. CASE BeginStage
  <2>1. AtWork /\ AdvanceStage(job.id, job.stage) /\ events' = events
    BY <1>3 DEF BeginStage, StoreStep, AtWork
  <2>2. /\ Len(deploys') = Len(deploys)
        /\ \A d \in DeployIds : /\ deploys'[d].app = deploys[d].app
                                /\ deploys'[d].status = deploys[d].status
    BY <1>1, <2>1, AdvanceStageKeeps DEF Job
  <2> QED
    BY <2>1, <2>2, WreckedFrame DEF DeployIds
<1>4. CASE EmitStarted \/ EmitSucceeded \/ EmitFailed
  <2>1. /\ AtWork /\ deploys' = deploys
        /\ \E st \in {"started", "succeeded", "failed"} : AppendEvent(job.id, job.stage, st)
    BY <1>4 DEF EmitStarted, EmitSucceeded, EmitFailed, StoreStep, AtWork
  <2>2. PICK st \in {"started", "succeeded", "failed"} : AppendEvent(job.id, job.stage, st)
    BY <2>1
  <2>3. [stage |-> job.stage, status |-> st] \in Event
    BY <1>1, <2>1 DEF Job, Event
  <2>4. \A i \in DeployIds : i # job.id => events'[i] = events[i]
    BY <1>1, <2>1, <2>2, <2>3, Logged
  <2> QED
    BY <1>1, <2>1, <2>4, WreckedFrame DEF DeployIds, InProgress
<1>5. CASE Refuse
  <2>1. AtWork /\ FinishDeploy(job.id, "failed") /\ events' = events /\ pc = "refuse"
    BY <1>5 DEF Refuse, StoreStep, AtWork
  <2>2. /\ DeployIds' = DeployIds /\ deploys'[job.id].app = deploys[job.id].app
        /\ \A i \in DeployIds : i # job.id => deploys'[i] = deploys[i]
    BY <1>1, <2>1, FinishDeployEnds DEF Terminal, DeployIds
  <2>3. events[job.id] = <<>>
    BY <1>1, <2>1 DEF JobLogged, LockInv, SpecsKnown, Forward
  <2> QED
    BY <1>1, <2>1, <2>2, <2>3, WreckedFrame DEF InProgress
<1>6. ASSUME \/ Acquire \/ LockBusy \/ LoadPrevious \/ EarlyStage
             \/ Healthy \/ RecordSpec \/ Release
             \/ HostAction \/ NextRow \/ FinishReconcile \/ Failure
             \/ StartReconcile \/ Crash \/ UNCHANGED vars
      PROVE  UNCHANGED <<deploys, events>>
  BY <1>6 DEF Acquire, LockBusy, LoadPrevious, EarlyStage,
     Healthy, RecordSpec, Release, NextRow, FinishReconcile, Failure,
     Refused, HostStepFails, StoreStepFails, StartReconcile, Crash, HostAction, HostStep,
     WriteUnit, DaemonReload, StartUnit, NothingToRemove, StopUnit, DeleteUnit, Unload,
     WriteFragment, ReloadCaddy, storeVars, vars
<1>7. ASSUME UNCHANGED <<deploys, events>> PROVE Wrecked(a)' <=> Wrecked(a)
  BY <1>7, WreckedFrame DEF DeployIds
<1> QED
  BY <1>2, <1>3, <1>4, <1>5, <1>6, <1>7 DEF Next, Step, DeployStep

\* Finish ends the job's row, and wrecks its app when the job has failed.
LEMMA FinishWrecks ==
  ASSUME LockInv, LogInv, Finish
  PROVE  /\ InProgressDeploys' = InProgressDeploys \ {job.id}
         /\ DeployIds' = DeployIds
         /\ deploys' = [deploys EXCEPT ![job.id].status = job.outcome]
         /\ \A a \in Apps :
              Wrecked(a)' <=> Wrecked(a) \/ (a = job.app /\ job.outcome = "failed")
<1>1. /\ AtWork /\ FinishDeploy(job.id, job.outcome)
      /\ AppendEvent(job.id, "deploy", job.outcome)
  BY DEF Finish, FinishDeployWithEvent, StoreStep, AtWork
<1>2. /\ StoreTypeOK /\ job.id \in DeployIds /\ InProgress(job.id) /\ job \in Job
      /\ deploys[job.id].app = job.app
  BY <1>1, OwnId DEF LockInv, OwnRow
<1>3. PICK d \in DeployIds : d = job.id
  BY <1>2
<1>4. PICK st \in Terminal : st = job.outcome
  BY <1>2 DEF Job
<1>5. /\ DeployIds' = DeployIds /\ deploys'[d].app = deploys[d].app
      /\ deploys'[d].status = st
      /\ \A i \in DeployIds : i # d => deploys'[i] = deploys[i]
  BY <1>1, <1>2, <1>3, <1>4, FinishDeployEnds DEF DeployIds
<1>6. [stage |-> "deploy", status |-> st] \in Event
  BY DEF Event
<1>7. /\ events'[d] \in Seq(Event)
      /\ Len(events[d]) \in Nat /\ Len(events'[d]) = Len(events[d]) + 1
      /\ \A i \in DeployIds : i # d => events'[i] = events[i]
  BY <1>1, <1>3, <1>4, <1>6, Logged
<1>8. events'[d] # <<>>
  BY <1>7, EmptySeq
<1>9. ASSUME NEW a \in Apps
      PROVE  Wrecked(a)' <=> Wrecked(a) \/ (a = job.app /\ job.outcome = "failed")
  <2>1. ASSUME NEW i \in DeployIds
        PROVE  /\ deploys'[i].app = deploys[i].app
               /\ i # d => /\ deploys'[i].status = deploys[i].status
                           /\ events'[i] = events[i]
    BY <1>5, <1>7
  <2>2. deploys[d].status # "failed" /\ deploys[d].app = job.app
    BY <1>2, <1>3 DEF InProgress
  <2> QED
    BY <1>3, <1>4, <1>5, <1>8, <2>1, <2>2 DEF Wrecked
<1>10. InProgressDeploys' = InProgressDeploys \ {job.id}
  BY <1>3, <1>5 DEF InProgressDeploys, InProgress, Terminal
<1> QED
  BY <1>1, <1>5, <1>9, <1>10 DEF FinishDeploy

\* Nothing cuts the process short: it neither dies nor loses a store write.
LEMMA NotCutShort == LockInv /\ Undisturbed => ~Crash /\ ~StoreStepFails
  BY DEF LockInv, TypeOK, Undisturbed, Crash, StoreStepFails

\* A step that ends no row and stays in the attempt.
LEMMA AttemptGoesOn ==
  ASSUME LockInv, OneAttempt, AtWork, AtWork', DeployIds' = DeployIds,
         \A d \in DeployIds : deploys'[d].status = deploys[d].status,
         job'.id = job.id, job'.todo = job.todo, job'.mode = job.mode
  PROVE  OneAttempt'
<1>1. InProgressDeploys' = InProgressDeploys
  BY DEF InProgressDeploys, InProgress
<1> QED
  BY <1>1 DEF OneAttempt, AtWork

\* OneAttempt is inductive.
LEMMA OneAttemptNext ==
  ASSUME LockInv, LogInv, OneAttempt, Undisturbed, [Next]_vars
  PROVE  OneAttempt'
<1>1. /\ StoreTypeOK /\ job \in Job /\ pc \in {"idle"} \cup StorePc \cup HostPc
      /\ ~Crash /\ ~StoreStepFails
  BY NotCutShort DEF LockInv, TypeOK
<1>2. ASSUME NEW a \in Apps, NEW s \in Specs, Submit(a, s) PROVE OneAttempt'
  <2>1. PICK n : n = Len(deploys) + 1
    OBVIOUS
  <2>2. /\ CreateDeploy(a) /\ pc = "idle" /\ pc' = "acquire"
        /\ job' = [IdleJob EXCEPT !.app = a, !.id = n, !.spec = s]
    BY <1>2, <2>1 DEF Submit, StoreStep
  <2>3. /\ DeployIds' = DeployIds \cup {n}
        /\ \A d \in DeployIds : deploys'[d] = deploys[d]
        /\ deploys'[n].status = "in_progress"
    BY <1>1, <2>1, <2>2, CreateDeployAdds
  <2>4. InProgressDeploys' = {n}
    BY <2>2, <2>3 DEF OneAttempt, AtWork, InProgressDeploys, InProgress
  <2>5. job'.id = n /\ job'.todo = {} /\ job'.mode = "deploy"
    BY <2>2 DEF IdleJob
  <2> QED
    BY <2>2, <2>4, <2>5 DEF OneAttempt, AtWork
<1>3. CASE BeginStage
  <2>1. /\ AtWork /\ AtWork' /\ AdvanceStage(job.id, job.stage) /\ job' = job
    BY <1>3 DEF BeginStage, StoreStep, AtWork, Goto
  <2>2. /\ Len(deploys') = Len(deploys) /\ job.id \in DeployIds
        /\ \A d \in DeployIds : deploys'[d].status = deploys[d].status
    BY <1>1, <2>1, OwnId, AdvanceStageKeeps DEF Job
  <2> QED
    BY <2>1, <2>2, AttemptGoesOn DEF DeployIds
<1>4. CASE Refuse
  <2>1. AtWork /\ FinishDeploy(job.id, "failed") /\ pc' = "idle" /\ job' = IdleJob
    BY <1>4 DEF Refuse, StoreStep, AtWork, Rest
  <2>2. /\ DeployIds' = DeployIds /\ deploys'[job.id].status = "failed"
        /\ \A i \in DeployIds : i # job.id => deploys'[i] = deploys[i]
    BY <1>1, <2>1, OwnId, FinishDeployEnds DEF Terminal, DeployIds
  <2>3. InProgressDeploys' = {}
    BY <2>1, <2>2 DEF OneAttempt, InProgressDeploys, InProgress
  <2> QED
    BY <2>1, <2>3, IdleJobType DEF OneAttempt, AtWork
<1>5. CASE Finish
  <2>1. pc = "finish" /\ pc' = "release" /\ job' = job
    BY <1>5 DEF Finish, StoreStep, Goto
  <2> QED
    BY <1>5, <2>1, FinishWrecks DEF OneAttempt, AtWork
<1>6. CASE \/ Acquire \/ LockBusy \/ LoadPrevious \/ EmitStarted \/ EarlyStage
           \/ Healthy \/ EmitSucceeded \/ RecordSpec \/ EmitFailed
  <2>1. /\ AtWork /\ deploys' = deploys
        /\ job'.id = job.id /\ job'.todo = job.todo /\ job'.mode = job.mode
    BY <1>1, <1>6 DEF Acquire, LockBusy, LoadPrevious, EmitStarted, EarlyStage, Healthy,
       EmitSucceeded, RecordSpec, EmitFailed, StoreStep, HostStep, AtWork, Goto, Job, storeVars
  <2>2. AtWork'
    BY <1>1, <1>6 DEF Acquire, LockBusy, LoadPrevious, EmitStarted, EarlyStage, Healthy,
       EmitSucceeded, RecordSpec, EmitFailed, AtWork, Goto, WorkPc, CompensatePc,
       UnwindApplyPc, Job, Stage
  <2> QED
    BY <2>1, <2>2, AttemptGoesOn DEF DeployIds
<1>7. CASE HostAction \/ Refused \/ HostStepFails
  <2>1. AtWork /\ deploys' = deploys
    BY <1>7 DEF HostAction, HostStep, WriteUnit, DaemonReload, StartUnit, NothingToRemove,
       StopUnit, DeleteUnit, Unload, WriteFragment, ReloadCaddy, Refused, Refusal,
       HostStepFails, HostPc, AtWork
  <2>2. job'.id = job.id /\ job'.todo = job.todo /\ job'.mode = job.mode
    BY <1>1, <1>7 DEF HostAction, WriteUnit, DaemonReload, StartUnit, NothingToRemove,
       StopUnit, DeleteUnit, Unload, WriteFragment, ReloadCaddy, Refused,
       HostStepFails, Abandon, Goto, Job
  <2>3. AtWork'
    BY <1>1, <1>7 DEF HostAction, WriteUnit, DaemonReload, StartUnit, NothingToRemove,
       StopUnit, DeleteUnit, Unload, WriteFragment, ReloadCaddy, Refused,
       HostStepFails, Abandon, Goto, AtWork, UnwindApplyPc
  <2> QED
    BY <2>1, <2>2, <2>3, AttemptGoesOn DEF DeployIds
<1>8. CASE Release \/ FinishReconcile \/ UNCHANGED vars
  <2>1. /\ deploys' = deploys /\ InProgressDeploys' = InProgressDeploys
    BY <1>8 DEF Release, FinishReconcile, vars, InProgressDeploys, InProgress, DeployIds
  <2>2. CASE Release \/ FinishReconcile
    <3>1. ~AtWork /\ pc' = "idle" /\ job' = IdleJob
      BY <1>1, <2>2 DEF Release, FinishReconcile, StoreStep, AtWork, OneAttempt, Rest, Job
    <3> QED
      BY <2>1, <3>1, IdleJobType DEF OneAttempt, AtWork
  <2>3. CASE UNCHANGED vars
    BY <2>1, <2>3 DEF OneAttempt, AtWork, vars
  <2> QED
    BY <1>8, <2>2, <2>3
<1>9. CASE StartReconcile
  <2>1. /\ pc = "idle" /\ pc' = "next_row" /\ deploys' = deploys
        /\ job' = [IdleJob EXCEPT !.mode = "reconcile", !.undo = TRUE,
                                  !.todo = InProgressDeploys]
    BY <1>9 DEF StartReconcile, StoreStep, storeVars
  <2>2. InProgressDeploys = {} /\ InProgressDeploys' = {}
    BY <2>1 DEF OneAttempt, AtWork, InProgressDeploys, InProgress, DeployIds
  <2>3. job'.todo = {}
    BY <2>1, <2>2 DEF IdleJob
  <2> QED
    BY <2>1, <2>2, <2>3 DEF OneAttempt, AtWork
<1>10. ~NextRow
  BY DEF NextRow, OneAttempt
<1> QED
  BY <1>1, <1>2, <1>3, <1>4, <1>5, <1>6, <1>7, <1>8, <1>9, <1>10 DEF Next, Step, DeployStep,
     Failure

\* What the process knows inside run_stages.
LEMMA RunFacts ==
  ASSUME LockInv, LogInv, InRun
  PROVE  /\ job \in Job /\ job.app \in Apps /\ job.stage \in Stage /\ AtWork /\ Busy
         /\ None # Unowned
         /\ ~job.undo =>
              /\ job.spec # NoSpec
              /\ job.spec.version \in Versions /\ job.spec.version \notin {None, Unowned}
              /\ RoutesKept => job.spec.route \in Routes /\ job.spec.route \notin {None, Unowned}
              /\ job.outcome = "done"
         /\ job.prev # NoSpec =>
              /\ job.prev.version \in Versions /\ job.prev.version \notin {None, Unowned}
              /\ RoutesKept => job.prev.route \in Routes /\ job.prev.route \notin {None, Unowned}
         /\ job.undo => job.outcome # "done"
         /\ pc \in Forward => ~job.undo
<1>1. job \in Job /\ SpecsKnown /\ JobLogged /\ AtWork /\ Busy
  BY DEF LockInv, TypeOK, LogInv, InRun, HostPc, InStages, AtWork, Busy
<1>2. ~job.undo => job.spec \in Specs
  BY <1>1 DEF SpecsKnown
<1>3. job.prev # NoSpec => job.prev \in Specs
  BY <1>1 DEF Job
<1> QED
  BY <1>1, <1>2, <1>3, SpecTypes, EngineAssumption DEF Job, JobLogged, SpecsKnown

\* Where compensate begins.
LEMMA CompensateFrom ==
  ASSUME NEW s \in Stage, NEW p
  PROVE  \/ s \in Untouched /\ CompensatePc(s, p) = "finish"
         \/ s = "apply" /\ p = NoSpec /\ CompensatePc(s, p) = "stop"
         \/ s = "apply" /\ p # NoSpec /\ CompensatePc(s, p) = "write"
         \/ s \in {"route", "healthcheck"} /\ CompensatePc(s, p) = "route"
  BY DEF CompensatePc, UnwindApplyPc, Stage, Untouched

\* JobPlace is inductive, next to LockInv and LogInv, whatever fails.
LEMMA JobPlaceNext == LockInv /\ LogInv /\ JobPlace /\ [Next]_vars => JobPlace'
<1> SUFFICES ASSUME LockInv, LogInv, JobPlace, [Next]_vars PROVE JobPlace'
  OBVIOUS
<1>1. /\ job \in Job /\ job.stage \in Stage /\ job.app \in Apps
      /\ specs \in [Apps -> Specs \cup {NoSpec}]
      /\ pc = "next_row" => job.undo
  BY DEF LockInv, TypeOK, StoreTypeOK, Job, LogInv, JobLogged
<1>2. CASE BeginStage \/ EmitStarted \/ EarlyStage \/ Healthy
  <2>1. /\ InRun /\ job' = job /\ specs' = specs /\ pc \in Forward
        /\ \/ pc' \in {"started", "ok"}
           \/ pc' = WorkPc(job.stage, job.spec)
    BY <1>2 DEF BeginStage, EmitStarted, EarlyStage, Healthy, StoreStep, HostStep, Goto, InRun,
       InStages, HostPc, Forward
  <2>2. \/ pc' \in {"started", "ok"}
        \/ pc' = "work" /\ job.stage \in Untouched
        \/ pc' = "write" /\ job.stage = "apply"
        \/ pc' = "route" /\ job.stage = "route"
        \/ pc' = "health" /\ job.stage = "healthcheck"
    BY <1>1, <2>1 DEF WorkPc, Untouched, Stage
  <2>3. ~job.undo /\ pc # "finish"
    BY <2>1, RunFacts DEF Forward
  <2> QED
    BY <2>1, <2>2, <2>3 DEF JobPlace
<1>3. CASE EmitSucceeded
  <2>1. /\ pc = "ok" /\ specs' = specs /\ InRun /\ ~job.undo
    BY <1>3, RunFacts DEF EmitSucceeded, StoreStep, InRun, InStages, Forward
  <2>2. /\ job'.app = job.app /\ job'.prev = job.prev /\ job'.undo = job.undo
        /\ (pc' = "put_spec" /\ job'.stage = "healthcheck") \/ pc' = "begin"
    BY <1>1, <1>3 DEF EmitSucceeded, Goto, Job
  <2> QED
    BY <2>1, <2>2 DEF JobPlace
<1>4. CASE RecordSpec
  <2>1. /\ pc = "put_spec" /\ pc' = "finish" /\ job' = job /\ InRun
        /\ specs' = [specs EXCEPT ![job.app] = job.spec] /\ ~job.undo
    BY <1>4, RunFacts DEF RecordSpec, StoreStep, Goto, PutSpec, InRun, InStages, Forward
  <2> QED
    BY <1>1, <2>1 DEF JobPlace
<1>5. CASE EmitFailed
  <2>1. /\ pc = "fail" /\ specs' = specs /\ InRun
        /\ job' = [job EXCEPT !.undo = TRUE, !.outcome = "rolled_back"]
        /\ pc' = CompensatePc(job.stage, job.prev)
    BY <1>5 DEF EmitFailed, StoreStep, InRun, InStages
  <2>2. /\ job'.app = job.app /\ job'.prev = job.prev /\ job'.undo /\ job'.stage = job.stage
    BY <1>1, <2>1 DEF Job
  <2> QED
    BY <1>1, <2>1, <2>2, CompensateFrom DEF JobPlace, Untouched
<1>6. CASE HostAction
  <2>1. InRun /\ specs' = specs /\ pc # "finish"
    BY <1>6 DEF HostAction, HostStep, WriteUnit, DaemonReload, StartUnit, NothingToRemove,
       StopUnit, DeleteUnit, Unload, WriteFragment, ReloadCaddy, InRun, HostPc
  <2>2. /\ job'.app = job.app /\ job'.prev = job.prev /\ job'.undo = job.undo
        /\ job'.stage = job.stage
    BY <1>1, <1>6 DEF HostAction, WriteUnit, DaemonReload, StartUnit, NothingToRemove,
       StopUnit, DeleteUnit, Unload, WriteFragment, ReloadCaddy, Goto, Job
  <2>3. \/ pc = "write" /\ pc' = "reload"
        \/ pc = "reload" /\ pc' = "start"
        \/ pc = "start" /\ pc' = (IF job.undo THEN "finish" ELSE "ok")
        \/ pc = "stop" /\ pc' \in {"finish", "delete"}
        \/ pc = "delete" /\ pc' = "unload"
        \/ pc = "unload" /\ pc' = "finish"
        \/ pc = "route" /\ pc' = "caddy"
        \/ pc \in {"route", "caddy"} /\ job.undo /\ pc' = UnwindApplyPc(job.prev)
        \/ pc = "caddy" /\ ~job.undo /\ pc' = "ok"
    <3>1. pc = "route" /\ ~job.undo => TargetRoute # None
      BY <2>1 DEF LogInv, JobLogged, TargetRoute, AtWork
    <3> QED
      BY <1>6, <3>1 DEF HostAction, HostStep, WriteUnit, DaemonReload, StartUnit,
         NothingToRemove, StopUnit, DeleteUnit, Unload, WriteFragment, ReloadCaddy, Goto
  <2>4. UnwindApplyPc(job.prev) = IF job.prev = NoSpec THEN "stop" ELSE "write"
    BY DEF UnwindApplyPc
  <2> QED
    BY <2>1, <2>2, <2>3, <2>4 DEF JobPlace, Untouched
<1>7. CASE Refused \/ HostStepFails
  <2>1. /\ InRun /\ pc # "finish" /\ specs' = specs /\ Abandon
    BY <1>7 DEF Refused, Refusal, HostStepFails, HostPc, InRun
  <2>2. /\ job'.app = job.app /\ job'.prev = job.prev /\ job'.undo = job.undo
        /\ pc' = IF job.undo THEN "finish" ELSE "fail"
    BY <1>1, <2>1 DEF Abandon, Goto, Job
  <2> QED
    BY <2>1, <2>2 DEF JobPlace
<1>8. CASE LoadPrevious
  <2>1. /\ pc' = "begin" /\ specs' = specs /\ job' = [job EXCEPT !.prev = specs[job.app]]
    BY <1>8 DEF LoadPrevious, storeVars
  <2>2. job'.app = job.app /\ job'.prev = specs[job.app]
    BY <1>1, <2>1 DEF Job
  <2> QED
    BY <2>1, <2>2 DEF JobPlace
<1>9. CASE NextRow
  <2>1. PICK d \in job.todo :
          /\ job' = [job EXCEPT !.id = d, !.app = deploys[d].app,
                                !.stage = deploys[d].stage,
                                !.prev = specs[deploys[d].app],
                                !.outcome = "rolled_back", !.todo = @ \ {d}]
          /\ pc' = CompensatePc(deploys[d].stage, specs[deploys[d].app])
    BY <1>9 DEF NextRow
  <2>2. d \in 1..Len(deploys) /\ deploys \in Seq(DeployRow)
    BY DEF LockInv, TypeOK, StoreTypeOK, DeployIds
  <2>3. deploys[d].stage \in Stage
    BY <2>2, ElementOfSeq, RowColumns
  <2>4. /\ pc = "next_row" /\ specs' = specs
    BY <1>9 DEF NextRow, StoreStep, storeVars
  <2>5. /\ job'.app = deploys[d].app /\ job'.prev = specs[deploys[d].app]
        /\ job'.stage = deploys[d].stage /\ job'.undo
    BY <1>1, <2>1, <2>4 DEF Job
  <2> QED
    BY <2>1, <2>3, <2>4, <2>5, CompensateFrom DEF JobPlace, Untouched
<1>10. CASE \/ \E a \in Apps, s \in Specs : Submit(a, s)
            \/ Acquire \/ LockBusy \/ Refuse \/ Finish \/ Release \/ StartReconcile
            \/ FinishReconcile \/ StoreStepFails \/ Crash
  <2>1. ~InRun'
    BY <1>10 DEF Submit, Acquire, LockBusy, Refuse, Finish, Release, StartReconcile,
       FinishReconcile, StoreStepFails, Crash, Goto, Rest, InRun, HostPc, InStages
  <2> QED
    BY <2>1 DEF JobPlace
<1>11. CASE UNCHANGED vars
  BY <1>11 DEF vars, JobPlace, InRun
<1> QED
  BY <1>2, <1>3, <1>4, <1>5, <1>6, <1>7, <1>8, <1>9, <1>10, <1>11
  DEF Next, Step, DeployStep, Failure

\* A step inside run_stages disturbs no other app.
LEMMA RunFrame ==
  ASSUME OthersServed, InRun, InRun', job'.app = job.app,
         \A a \in Apps : a # job.app => host'[a] = host[a] /\ specs'[a] = specs[a],
         \A a \in Apps : Wrecked(a)' <=> Wrecked(a), job.app \in Apps,
         OneAttempt', JobPlace',
         ~Wrecked(job.app) => /\ ~job'.undo => GoesForward'
                              /\ job'.undo /\ job'.outcome # "failed" => GoesBack'
  PROVE  ServedInv'
<1>1. OthersServed'
  BY DEF OthersServed, UnitServes, RouteServes
<1>2. JobServes'
  BY DEF JobServes
<1> QED
  BY <1>1, <1>2 DEF ServedInv

\* Going forward without touching the host.
LEMMA ForwardServed ==
  ASSUME LockInv, LogInv, ServedInv, RoutesKept, OneAttempt', JobPlace',
         \A a \in Apps : Wrecked(a)' <=> Wrecked(a),
         BeginStage \/ EmitStarted \/ EarlyStage \/ Healthy \/ EmitSucceeded
  PROVE  ServedInv'
<1>1. /\ InRun /\ InRun' /\ ~job.undo /\ UNCHANGED <<host, specs>>
      /\ job'.app = job.app /\ job'.undo = job.undo
      /\ job'.prev = job.prev /\ job'.spec = job.spec
  <2>1. InRun /\ pc \in Forward /\ UNCHANGED <<host, specs>>
    BY DEF InRun, HostPc, InStages, Forward, BeginStage, EmitStarted, EarlyStage, Healthy,
       EmitSucceeded, StoreStep, HostStep
  <2>2. job \in Job /\ job.stage \in Stage /\ ~job.undo
    BY <2>1, RunFacts
  <2> QED
    BY <2>1, <2>2 DEF InRun, HostPc, InStages, BeginStage, EmitStarted, EarlyStage, Healthy,
       EmitSucceeded, WorkPc, Goto, Job
<1>2. /\ job \in Job /\ job.app \in Apps /\ job.stage \in Stage
      /\ job.spec # NoSpec /\ job.spec.route # None
      /\ JobPlace /\ OthersServed /\ (~Wrecked(job.app) => GoesForward)
  BY <1>1, RunFacts DEF ServedInv, JobServes
<1>3. ASSUME GoesForward => GoesForward' PROVE ServedInv'
  BY <1>1, <1>2, <1>3, RunFrame
<1>4. CASE BeginStage
  <2>1. pc = "begin" /\ pc' = "started" /\ job' = job
    BY <1>4 DEF BeginStage, StoreStep, Goto
  <2>3. GoesForward => GoesForward'
    BY <1>1, <1>2, <2>1 DEF GoesForward, UnitServes, RouteServes, Me, UnitUndoable, RouteUndoable
  <2> QED
    BY <1>3, <2>3
<1>5. CASE EmitStarted
  <2>1. pc = "started" /\ pc' = WorkPc(job.stage, job.spec) /\ job' = job
    BY <1>5 DEF EmitStarted, StoreStep, Goto
  <2>2. \/ job.stage \in Untouched /\ pc' = "work"
        \/ job.stage = "apply" /\ pc' = "write"
        \/ job.stage = "route" /\ pc' = "route"
        \/ job.stage = "healthcheck" /\ pc' = "health"
    BY <1>2, <2>1 DEF WorkPc, Untouched, Stage
  <2>4. GoesForward => GoesForward'
    BY <1>1, <1>2, <2>1, <2>2
    DEF GoesForward, UnitServes, RouteServes, Me, UnitUndoable, RouteUndoable, Untouched
  <2> QED
    BY <1>3, <2>4
<1>6. CASE EarlyStage \/ Healthy
  <2>1. pc \in {"work", "health"} /\ pc' = "ok" /\ job' = job
    BY <1>6 DEF EarlyStage, Healthy, HostStep, Goto
  <2>2. pc = "work" => job.stage \in Untouched
    BY <1>1, <1>2 DEF JobPlace
  <2>3. pc = "health" => job.stage = "healthcheck"
    BY <1>1, <1>2 DEF JobPlace
  <2>5. GoesForward => GoesForward'
    BY <1>1, <1>2, <2>1, <2>2, <2>3
    DEF GoesForward, UnitServes, RouteServes, Me, UnitUndoable, RouteUndoable, Untouched
  <2> QED
    BY <1>3, <2>5
<1>7. CASE EmitSucceeded
  <2>1. pc = "ok"
    BY <1>7 DEF EmitSucceeded, StoreStep
  <2>2. CASE job.stage = "healthcheck"
    <3>1. pc' = "put_spec" /\ job' = job
      BY <1>7, <2>2 DEF EmitSucceeded, Goto
    <3>3. GoesForward => GoesForward'
      BY <1>1, <1>2, <2>1, <2>2, <3>1
      DEF GoesForward, UnitServes, RouteServes, Me, UnitUndoable, RouteUndoable, Untouched
    <3> QED
      BY <1>3, <3>3
  <2>3. CASE job.stage # "healthcheck"
    <3>1. pc' = "begin" /\ job'.stage = StageOrder[StageNumber(job.stage) + 1]
      BY <1>2, <1>7, <2>3 DEF EmitSucceeded, Job
    <3>2. \/ job.stage = "detect" /\ job'.stage = "build"
          \/ job.stage = "build" /\ job'.stage = "secrets"
          \/ job.stage = "secrets" /\ job'.stage = "apply"
          \/ job.stage = "apply" /\ job'.stage = "route"
          \/ job.stage = "route" /\ job'.stage = "healthcheck"
      BY <1>2, <2>3, <3>1, Successor DEF Stage
    <3>4. GoesForward => GoesForward'
      BY <1>1, <1>2, <2>1, <3>1, <3>2
      DEF GoesForward, UnitServes, RouteServes, Me, UnitUndoable, RouteUndoable, Untouched
    <3> QED
      BY <1>3, <3>4
  <2> QED
    BY <2>2, <2>3
<1> QED
  BY <1>4, <1>5, <1>6, <1>7

\* The new spec is recorded once the host serves it.
LEMMA RecordServed ==
  ASSUME LockInv, LogInv, ServedInv, RoutesKept, OneAttempt', JobPlace',
         \A a \in Apps : Wrecked(a)' <=> Wrecked(a),
         RecordSpec
  PROVE  ServedInv'
<1>1. /\ pc = "put_spec" /\ pc' = "finish" /\ job' = job /\ host' = host
      /\ specs' = [specs EXCEPT ![job.app] = job.spec] /\ InRun /\ InRun'
  BY DEF RecordSpec, StoreStep, Goto, PutSpec, InRun, InStages
<1>2. /\ job \in Job /\ job.app \in Apps /\ ~job.undo
      /\ JobPlace /\ OthersServed /\ (~Wrecked(job.app) => GoesForward)
  BY <1>1, RunFacts DEF ServedInv, JobServes, Forward
<1>3. specs \in [Apps -> Specs \cup {NoSpec}]
  BY DEF LockInv, TypeOK, StoreTypeOK
<1>4. /\ specs'[job.app] = job.spec
      /\ \A a \in Apps : a # job.app => specs'[a] = specs[a]
  BY <1>1, <1>2, <1>3
<1>6. GoesForward => GoesForward'
  BY <1>1, <1>2 DEF GoesForward, UnitServes, RouteServes, Me, UnitUndoable, RouteUndoable
<1> QED
  BY <1>1, <1>2, <1>4, <1>6, RunFrame

\* What a failed stage leaves can be undone, whichever stage it was.
LEMMA FailServed ==
  ASSUME LockInv, LogInv, ServedInv, RoutesKept, OneAttempt', JobPlace',
         \A a \in Apps : Wrecked(a)' <=> Wrecked(a),
         EmitFailed
  PROVE  ServedInv'
<1>1. /\ pc = "fail" /\ UNCHANGED <<host, specs>> /\ InRun
      /\ job' = [job EXCEPT !.undo = TRUE, !.outcome = "rolled_back"]
      /\ pc' = CompensatePc(job.stage, job.prev)
  BY DEF EmitFailed, StoreStep, InRun, InStages
<1>2. /\ job \in Job /\ job.app \in Apps /\ job.stage \in Stage /\ ~job.undo
      /\ JobPlace /\ OthersServed /\ (~Wrecked(job.app) => GoesForward)
      /\ job.spec.version \notin {None, Unowned} /\ job.spec.route # None
      /\ job.prev # NoSpec => job.prev.version \notin {None, Unowned}
  BY <1>1, RunFacts DEF ServedInv, JobServes, Forward
<1>3. /\ job'.app = job.app /\ job'.undo /\ job'.stage = job.stage /\ job'.prev = job.prev
      /\ job'.spec = job.spec
  BY <1>1, <1>2 DEF Job
<1>4. \/ job.stage \in Untouched /\ pc' = "finish"
      \/ job.stage = "apply" /\ job.prev = NoSpec /\ pc' = "stop"
      \/ job.stage = "apply" /\ job.prev # NoSpec /\ pc' = "write"
      \/ job.stage \in {"route", "healthcheck"} /\ pc' = "route"
  BY <1>1, <1>2 DEF CompensatePc, UnwindApplyPc, Stage, Untouched
<1>5. InRun'
  BY <1>1, <1>4 DEF InRun, HostPc, InStages
<1>6. GoesForward => GoesBack'
  <2> SUFFICES ASSUME GoesForward PROVE GoesBack'
    OBVIOUS
  <2>1. CASE job.stage \in Untouched /\ pc' = "finish"
    BY <1>1, <1>2, <1>3, <2>1 DEF GoesForward, GoesBack, UnitServes, RouteServes, Me
  <2>2. CASE job.stage = "apply" /\ pc' \in {"stop", "write"}
    BY <1>1, <1>2, <1>3, <2>2
    DEF GoesForward, GoesBack, UnitServes, RouteServes, Me, UnitUndoable
  <2>3. CASE job.stage \in {"route", "healthcheck"} /\ pc' = "route"
    BY <1>1, <1>2, <1>3, <2>3
    DEF GoesForward, GoesBack, UnitServes, RouteServes, Me, UnitUndoable, RouteUndoable
  <2> QED
    BY <1>4, <2>1, <2>2, <2>3
<1> QED
  BY <1>1, <1>2, <1>3, <1>5, <1>6, RunFrame

\* workloads::apply, forward and as unwind_apply.
LEMMA ApplyServed ==
  ASSUME LockInv, LogInv, ServedInv, RoutesKept, OneAttempt', JobPlace',
         \A a \in Apps : Wrecked(a)' <=> Wrecked(a),
         WriteUnit \/ DaemonReload \/ StartUnit
  PROVE  ServedInv'
<1>1. InRun /\ InRun' /\ specs' = specs
  BY DEF InRun, HostPc, InStages, WriteUnit, DaemonReload, StartUnit, HostStep, Goto
<1>2. /\ job \in Job /\ job.app \in Apps /\ job.stage \in Stage /\ None # Unowned
      /\ JobPlace /\ OthersServed
      /\ ~Wrecked(job.app) => /\ ~job.undo => GoesForward
                              /\ job.undo /\ job.outcome # "failed" => GoesBack
      /\ ~job.undo => job.spec.version \notin {None, Unowned}
      /\ job.prev # NoSpec => job.prev.version \notin {None, Unowned}
  BY <1>1, RunFacts DEF ServedInv, JobServes
<1>3. CASE WriteUnit
  <2>1. /\ pc = "write" /\ pc' = "reload" /\ Set("unit", TargetVersion)
        /\ Me.unit # Unowned
        /\ job' = [job EXCEPT !.seen = Me.unit]
    BY <1>3 DEF WriteUnit, HostStep
  <2>2. /\ job'.app = job.app /\ job'.undo = job.undo /\ job'.stage = job.stage
        /\ job'.prev = job.prev /\ job'.spec = job.spec /\ job'.seen = Me.unit
        /\ job'.outcome = job.outcome
    BY <1>2, <2>1 DEF Job
  <2>3. /\ \A a \in Apps : a # job.app => host'[a] = host[a]
        /\ Me'.unit = TargetVersion /\ Me'.loaded = Me.loaded /\ Me'.running = Me.running
        /\ Me'.fragment = Me.fragment /\ Me'.served = Me.served
    BY <2>1, <2>2, SetFact
  <2>5. ~job.undo /\ GoesForward => GoesForward'
    BY <1>1, <1>2, <2>1, <2>2, <2>3
    DEF GoesForward, JobPlace, UnitServes, RouteServes, Me, TargetVersion, Untouched
  <2>6. job.undo /\ GoesBack => GoesBack'
    BY <1>1, <1>2, <2>1, <2>2, <2>3
    DEF GoesBack, JobPlace, UnitServes, RouteServes, Me, TargetVersion, UnitUndoable
  <2> QED
    BY <1>1, <1>2, <2>2, <2>3, <2>5, <2>6, RunFrame
<1>4. CASE DaemonReload
  <2>1. pc = "reload" /\ pc' = "start" /\ Set("loaded", Me.unit) /\ job' = job
    BY <1>4 DEF DaemonReload, HostStep, Goto
  <2>2. /\ \A a \in Apps : a # job.app => host'[a] = host[a]
        /\ Me'.unit = Me.unit /\ Me'.loaded = Me.unit /\ Me'.running = Me.running
        /\ Me'.fragment = Me.fragment /\ Me'.served = Me.served
    BY <2>1, SetFact
  <2>4. ~job.undo /\ GoesForward => GoesForward'
    BY <1>1, <1>2, <2>1, <2>2
    DEF GoesForward, JobPlace, UnitServes, RouteServes, Me, Untouched
  <2>5. job.undo /\ GoesBack => GoesBack'
    BY <1>1, <1>2, <2>1, <2>2
    DEF GoesBack, JobPlace, UnitServes, RouteServes, Me
  <2> QED
    BY <1>1, <1>2, <2>1, <2>2, <2>4, <2>5, RunFrame
<1>5. CASE StartUnit
  <2>1. /\ pc = "start" /\ pc' = (IF job.undo THEN "finish" ELSE "ok") /\ job' = job
        /\ Set("running", IF Changed \/ Me.running = None THEN Me.loaded ELSE Me.running)
    BY <1>5 DEF StartUnit, HostStep, Goto, Set, Started, Me
  <2>2. /\ \A a \in Apps : a # job.app => host'[a] = host[a]
        /\ Me'.unit = Me.unit /\ Me'.loaded = Me.loaded
        /\ Me'.running = (IF Changed \/ Me.running = None THEN Me.loaded ELSE Me.running)
        /\ Me'.fragment = Me.fragment /\ Me'.served = Me.served
    BY <2>1, SetFact
  <2>4. ~job.undo /\ GoesForward => GoesForward'
    BY <1>1, <1>2, <2>1, <2>2
    DEF GoesForward, JobPlace, UnitServes, RouteServes, Me, Untouched, Changed, TargetVersion
  <2>5. job.undo /\ GoesBack => GoesBack'
    BY <1>1, <1>2, <2>1, <2>2
    DEF GoesBack, JobPlace, UnitServes, RouteServes, Me, Changed, TargetVersion
  <2> QED
    BY <1>1, <1>2, <2>1, <2>2, <2>4, <2>5, RunFrame
<1> QED
  BY <1>3, <1>4, <1>5

\* workloads::remove, as unwind_apply of a first deploy.
LEMMA RemoveServed ==
  ASSUME LockInv, LogInv, ServedInv, RoutesKept, OneAttempt', JobPlace',
         \A a \in Apps : Wrecked(a)' <=> Wrecked(a),
         NothingToRemove \/ StopUnit \/ DeleteUnit \/ Unload
  PROVE  ServedInv'
<1>1. /\ InRun /\ InRun' /\ specs' = specs /\ job' = job
      /\ pc \in {"stop", "delete", "unload"}
  BY DEF InRun, HostPc, InStages, NothingToRemove, StopUnit, DeleteUnit, Unload, HostStep, Goto
<1>2. /\ job \in Job /\ job.app \in Apps /\ None # Unowned
      /\ JobPlace /\ OthersServed
      /\ ~Wrecked(job.app) => (job.outcome # "failed" => GoesBack)
      /\ job.undo /\ job.prev = NoSpec
  BY <1>1, RunFacts DEF ServedInv, JobServes, JobPlace
<1>3. \/ pc = "stop" /\ pc' = "finish" /\ Me.unit = None /\ host' = host
      \/ pc = "stop" /\ pc' = "delete" /\ Set("running", None) /\ Me.unit # None
      \/ pc = "delete" /\ pc' = "unload" /\ Set("unit", None)
      \/ pc = "unload" /\ pc' = "finish" /\ Set("loaded", Me.unit)
  BY DEF NothingToRemove, StopUnit, DeleteUnit, Unload, HostStep, Goto
<1>4. \A a \in Apps : a # job.app => host'[a] = host[a]
  BY <1>1, <1>3, SetFact
<1>5. /\ Me'.unit = IF pc = "delete" THEN None ELSE Me.unit
      /\ Me'.loaded = IF pc = "unload" THEN Me.unit ELSE Me.loaded
      /\ Me'.running = IF pc = "stop" /\ pc' = "delete" THEN None ELSE Me.running
      /\ Me'.fragment = Me.fragment /\ Me'.served = Me.served
  <2>1. host' = host => Me' = Me
    BY <1>1 DEF Me
  <2> QED
    BY <1>1, <1>3, <2>1, SetFact
<1>7. GoesBack => GoesBack'
  BY <1>1, <1>2, <1>3, <1>5 DEF GoesBack, UnitServes, RouteServes, Me, UnitUndoable
<1> QED
  BY <1>1, <1>2, <1>4, <1>7, RunFrame

\* gateway::apply_route and remove_route.
LEMMA RouteServed ==
  ASSUME LockInv, LogInv, ServedInv, RoutesKept, OneAttempt', JobPlace',
         \A a \in Apps : Wrecked(a)' <=> Wrecked(a),
         WriteFragment \/ ReloadCaddy
  PROVE  ServedInv'
<1>1. /\ InRun /\ InRun' /\ specs' = specs /\ job' = job /\ pc \in {"route", "caddy"}
  BY DEF InRun, HostPc, InStages, WriteFragment, ReloadCaddy, HostStep, Goto, UnwindApplyPc
<1>2. /\ job \in Job /\ job.app \in Apps /\ job.stage \in Stage /\ None # Unowned
      /\ JobPlace /\ OthersServed
      /\ ~Wrecked(job.app) => /\ ~job.undo => GoesForward
                              /\ job.undo /\ job.outcome # "failed" => GoesBack
      /\ ~job.undo => job.spec.route # None
      /\ job.prev # NoSpec => job.prev.route \notin {None, Unowned}
  BY <1>1, RunFacts DEF ServedInv, JobServes
<1>3. /\ UnwindApplyPc(job.prev) = IF job.prev = NoSpec THEN "stop" ELSE "write"
      /\ TargetRoute = IF ~job.undo THEN job.spec.route
                       ELSE IF job.prev = NoSpec THEN None ELSE job.prev.route
      /\ TargetRoute' = TargetRoute
  BY <1>1 DEF UnwindApplyPc, TargetRoute
<1>4. CASE WriteFragment
  <2>1. /\ pc = "route" /\ Set("fragment", TargetRoute)
        /\ pc' = (IF TargetRoute = None /\ Me.fragment = None
                  THEN UnwindApplyPc(job.prev) ELSE "caddy")
    BY <1>4 DEF WriteFragment, HostStep, Goto
  <2>2. /\ \A a \in Apps : a # job.app => host'[a] = host[a]
        /\ Me'.unit = Me.unit /\ Me'.loaded = Me.loaded /\ Me'.running = Me.running
        /\ Me'.fragment = TargetRoute /\ Me'.served = Me.served
    BY <1>1, <2>1, SetFact
  <2>4. ~job.undo /\ GoesForward => GoesForward'
    BY <1>1, <1>2, <1>3, <2>1, <2>2
    DEF GoesForward, JobPlace, UnitServes, RouteServes, Me, Untouched
  <2>5. job.undo /\ GoesBack => GoesBack'
    BY <1>1, <1>2, <1>3, <2>1, <2>2
    DEF GoesBack, JobPlace, UnitServes, RouteServes, Me, UnitUndoable, RouteUndoable
  <2> QED
    BY <1>1, <1>2, <2>2, <2>4, <2>5, RunFrame
<1>5. CASE ReloadCaddy
  <2>1. /\ pc = "caddy" /\ Set("served", Me.fragment)
        /\ pc' = (IF job.undo THEN UnwindApplyPc(job.prev) ELSE "ok")
    BY <1>5 DEF ReloadCaddy, HostStep, Goto
  <2>2. /\ \A a \in Apps : a # job.app => host'[a] = host[a]
        /\ Me'.unit = Me.unit /\ Me'.loaded = Me.loaded /\ Me'.running = Me.running
        /\ Me'.fragment = Me.fragment /\ Me'.served = Me.fragment
    BY <1>1, <2>1, SetFact
  <2>4. ~job.undo /\ GoesForward => GoesForward'
    BY <1>1, <1>2, <1>3, <2>1, <2>2
    DEF GoesForward, JobPlace, UnitServes, RouteServes, Me, Untouched
  <2>5. job.undo /\ GoesBack => GoesBack'
    BY <1>1, <1>2, <1>3, <2>1, <2>2
    DEF GoesBack, JobPlace, UnitServes, RouteServes, Me, UnitUndoable, RouteUndoable
  <2> QED
    BY <1>1, <1>2, <2>2, <2>4, <2>5, RunFrame
<1> QED
  BY <1>4, <1>5

\* A host step that erred leaves something compensate can undo, or the attempt
\* ends `failed`.
LEMMA ErrorServed ==
  ASSUME LockInv, LogInv, ServedInv, Undisturbed, OneAttempt', JobPlace',
         \A a \in Apps : Wrecked(a)' <=> Wrecked(a),
         Refused \/ HostStepFails
  PROVE  ServedInv'
<1>1. /\ InRun /\ pc \in HostPc /\ specs' = specs /\ Abandon /\ RoutesKept
      /\ host' = host \/ (host' \in Damaged /\ ~Refusal)
  BY DEF InRun, HostPc, Refused, Refusal, HostStepFails, Undisturbed
<1>2. /\ job \in Job /\ job.app \in Apps /\ job.stage \in Stage /\ None # Unowned
      /\ JobPlace /\ OthersServed
      /\ ~Wrecked(job.app) => (~job.undo => GoesForward)
      /\ ~job.undo => job.spec.version \notin {None, Unowned} /\ job.spec.route # None
      /\ job.prev # NoSpec => job.prev.version \notin {None, Unowned}
  BY <1>1, RunFacts DEF ServedInv, JobServes
<1>3. \/ host' = host
      \/ /\ pc = "start"
         /\ \/ Set("running", IF Changed \/ Me.running = None THEN Me.loaded ELSE Me.running)
            \/ Set("running", None)
  BY <1>1 DEF Damaged, Undisturbed, Started, Set, Me
<1>4. CASE job.undo
  <2>1. /\ job' = [job EXCEPT !.outcome = "failed"] /\ pc' = "finish"
    BY <1>1, <1>4 DEF Abandon
  <2>2. /\ job'.app = job.app /\ job'.undo /\ job'.outcome = "failed"
        /\ job'.prev = job.prev
    BY <1>2, <1>4, <2>1 DEF Job
  <2>3. \A a \in Apps : a # job.app => host'[a] = host[a]
    BY <1>3, <2>2, SetFact
  <2>4. InRun'
    BY <2>1 DEF InRun, InStages
  <2> QED
    BY <1>1, <1>2, <2>2, <2>3, <2>4, RunFrame
<1>5. CASE ~job.undo
  <2>1. job' = job /\ pc' = "fail"
    BY <1>1, <1>5 DEF Abandon, Goto
  <2>2. \A a \in Apps : a # job.app => host'[a] = host[a]
    BY <1>3, <2>1, SetFact
  <2>3. /\ Me'.unit = Me.unit /\ Me'.loaded = Me.loaded
        /\ Me'.fragment = Me.fragment /\ Me'.served = Me.served
        /\ Me'.running # Me.running =>
             pc = "start" /\ Me'.running \in {None, Me.loaded}
    <3>1. host' = host => Me' = Me
      BY <2>1 DEF Me
    <3> QED
      BY <1>3, <2>1, <3>1, SetFact
  <2>4. InRun'
    BY <2>1 DEF InRun, InStages
  <2>5. /\ pc \in {"work", "write", "reload", "start", "route", "caddy", "health"}
        /\ pc \in {"write", "reload", "start"} => job.stage = "apply"
        /\ pc \in {"route", "caddy"} => job.stage = "route"
        /\ pc = "work" => job.stage \in Untouched
        /\ pc = "health" => job.stage = "healthcheck"
    BY <1>1, <1>2, <1>5 DEF JobPlace, HostPc
  <2>6. GoesForward => GoesForward'
    <3> SUFFICES ASSUME GoesForward PROVE GoesForward'
      OBVIOUS
    <3>1. CASE job.stage # "apply"
      BY <1>2, <1>5, <2>1, <2>3, <2>5, <3>1
      DEF GoesForward, UnitServes, RouteServes, Me, RouteUndoable, Untouched
    <3>2. CASE job.stage = "apply"
      <4>1. pc \in {"write", "reload", "start"}
        BY <2>5, <3>2 DEF Untouched
      <4> QED
        BY <1>2, <1>5, <2>1, <2>3, <3>2, <4>1
        DEF GoesForward, UnitServes, RouteServes, Me, UnitUndoable, Untouched
    <3> QED
      BY <3>1, <3>2
  <2> QED
    BY <1>1, <1>2, <1>5, <2>1, <2>2, <2>4, <2>6, RunFrame
<1> QED
  BY <1>4, <1>5

\* An admitted attempt finds the last good spec on the host.
LEMMA AdmitServed ==
  ASSUME LockInv, LogInv, ServedInv, OneAttempt', JobPlace',
         \A a \in Apps : Wrecked(a)' <=> Wrecked(a),
         LoadPrevious
  PROVE  ServedInv'
<1>1. /\ pc = "load" /\ pc' = "begin" /\ UNCHANGED <<host, specs>>
      /\ job' = [job EXCEPT !.prev = specs[job.app]] /\ ~InRun /\ AtWork
  BY DEF LoadPrevious, StoreStep, storeVars, InRun, HostPc, InStages, AtWork
<1>2. /\ job \in Job /\ job.app \in Apps /\ ~job.undo /\ job.stage = "detect"
  BY <1>1 DEF LockInv, TypeOK, SpecsKnown, Forward, LogInv, JobLogged, Job
<1>3. /\ job'.app = job.app /\ job'.undo = job.undo /\ job'.stage = "detect"
      /\ job'.prev = specs[job.app]
  BY <1>1, <1>2 DEF Job
<1>4. OthersServed'
  BY <1>1 DEF ServedInv, OthersServed, UnitServes, RouteServes
<1>6. ~Wrecked(job.app) => UnitServes(job.app, specs[job.app]) /\ RouteServes(job.app, specs[job.app])
  BY <1>1, <1>2 DEF ServedInv, OthersServed
<1>7. JobServes'
  BY <1>1, <1>2, <1>3, <1>6
  DEF JobServes, GoesForward, Untouched, UnitServes, RouteServes, Me
<1> QED
  BY <1>4, <1>7 DEF ServedInv

\* At its ending a job that has not failed has put on the host what it records.
LEMMA FinishServes ==
  ASSUME LockInv, LogInv, ServedInv, RoutesKept, pc = "finish"
  PROVE  /\ job.outcome # "failed" /\ ~Wrecked(job.app) =>
              UnitServes(job.app, specs[job.app]) /\ RouteServes(job.app, specs[job.app])
         /\ specs[job.app] = IF job.undo THEN job.prev ELSE job.spec
         /\ job.outcome = "done" <=> ~job.undo
<1>1. InRun /\ job \in Job /\ JobPlace /\ JobServes
  BY DEF InRun, InStages, ServedInv, LockInv, TypeOK
<1>2. (job.outcome = "done" <=> ~job.undo) /\ (~job.undo => job.spec # NoSpec)
  BY <1>1, RunFacts
<1>3. specs[job.app] = IF job.undo THEN job.prev ELSE job.spec
  BY <1>1 DEF JobPlace
<1>4. ~job.undo => job.stage = "healthcheck"
  BY <1>1 DEF JobPlace
<1>5. CASE ~job.undo
  BY <1>1, <1>2, <1>3, <1>4, <1>5 DEF JobServes, GoesForward, UnitServes, RouteServes, Me
<1>6. CASE job.undo
  BY <1>1, <1>2, <1>3, <1>6 DEF JobServes, GoesBack, UnitServes, RouteServes, Me
<1> QED
  BY <1>5, <1>6

\* Steps of no run, and the one that leaves it.
LEMMA OutsideServed ==
  ASSUME LockInv, LogInv, ServedInv, RoutesKept, OneAttempt', ~InRun', UNCHANGED <<host, specs>>,
         InRun => Finish,
         ~Finish => \A a \in Apps : Wrecked(a)' <=> Wrecked(a)
  PROVE  ServedInv'
<1>1. ASSUME NEW a \in Apps, ~Wrecked(a)'
      PROVE  UnitServes(a, specs[a]) /\ RouteServes(a, specs[a])
  <2>1. CASE ~InRun
    <3>1. ~Finish
      BY <2>1 DEF Finish, StoreStep, InRun, InStages
    <3> QED
      BY <1>1, <2>1, <3>1 DEF ServedInv, OthersServed
  <2>2. CASE InRun
    <3>1. pc = "finish" /\ Finish
      BY <2>2 DEF Finish, StoreStep
    <3>2. ~Wrecked(a) /\ ~(a = job.app /\ job.outcome = "failed")
      BY <1>1, <3>1, FinishWrecks
    <3> QED
      BY <3>1, <3>2, FinishServes DEF ServedInv, OthersServed
  <2> QED
    BY <2>1, <2>2
<1>2. OthersServed'
  BY <1>1 DEF OthersServed, UnitServes, RouteServes
<1> QED
  BY <1>2 DEF ServedInv, JobPlace, JobServes

\* ServedInv is inductive, next to LockInv and LogInv.
LEMMA ServedInvNext ==
  LockInv /\ LogInv /\ ServedInv /\ Undisturbed /\ [Next]_vars => ServedInv'
<1> SUFFICES ASSUME LockInv, LogInv, ServedInv, Undisturbed, [Next]_vars PROVE ServedInv'
  OBVIOUS
<1>1. /\ OneAttempt' /\ JobPlace' /\ RoutesKept /\ ~Crash /\ ~StoreStepFails
      /\ ~Finish => \A a \in Apps : Wrecked(a)' <=> Wrecked(a)
      /\ job \in Job
  BY OneAttemptNext, JobPlaceNext, WreckedSame, NotCutShort DEF ServedInv, Undisturbed, LockInv, TypeOK
<1>2. pc # "finish" => ~Finish
  BY DEF Finish, StoreStep
<1>3. CASE BeginStage \/ EmitStarted \/ EarlyStage \/ Healthy \/ EmitSucceeded
  BY <1>1, <1>2, <1>3, ForwardServed
  DEF BeginStage, EmitStarted, EarlyStage, Healthy, EmitSucceeded, StoreStep, HostStep
<1>4. CASE RecordSpec
  BY <1>1, <1>2, <1>4, RecordServed DEF RecordSpec, StoreStep
<1>5. CASE EmitFailed
  BY <1>1, <1>2, <1>5, FailServed DEF EmitFailed, StoreStep
<1>6. CASE HostAction
  <2>1. pc # "finish"
    BY <1>6 DEF HostAction, HostStep, WriteUnit, DaemonReload, StartUnit, NothingToRemove,
       StopUnit, DeleteUnit, Unload, WriteFragment, ReloadCaddy
  <2> QED
    BY <1>1, <1>2, <1>6, <2>1, ApplyServed, RemoveServed, RouteServed DEF HostAction
<1>7. CASE Refused \/ HostStepFails
  <2>1. pc # "finish"
    BY <1>7 DEF Refused, Refusal, HostStepFails, HostPc
  <2> QED
    BY <1>1, <1>2, <1>7, <2>1, ErrorServed
<1>8. CASE LoadPrevious
  BY <1>1, <1>2, <1>8, AdmitServed DEF LoadPrevious, StoreStep
<1>9. CASE Finish
  <2>1. ~InRun' /\ UNCHANGED <<host, specs>>
    BY <1>9 DEF Finish, StoreStep, Goto, InRun, HostPc, InStages
  <2> QED
    BY <1>1, <1>9, <2>1, OutsideServed
<1>10. CASE \/ \E a \in Apps, s \in Specs : Submit(a, s)
            \/ Acquire \/ LockBusy \/ Refuse \/ Release \/ StartReconcile \/ FinishReconcile
  <2>1. ~InRun /\ ~InRun' /\ UNCHANGED <<host, specs>>
    BY <1>1, <1>10 DEF Submit, Acquire, LockBusy, Refuse, Release, StartReconcile,
       FinishReconcile, StoreStep, storeVars, Goto, Rest, InRun, HostPc, InStages, Job
  <2> QED
    BY <1>1, <2>1, OutsideServed
<1>11. CASE UNCHANGED vars
  BY <1>11 DEF vars, ServedInv, OneAttempt, OthersServed, JobPlace, JobServes, AtWork, InRun,
     InProgressDeploys, InProgress, DeployIds, Wrecked, UnitServes, RouteServes, GoesForward,
     GoesBack, Me, UnitUndoable, RouteUndoable, TargetRoute
<1>12. ~NextRow
  BY DEF NextRow, ServedInv, OneAttempt
<1> QED
  BY <1>1, <1>3, <1>4, <1>5, <1>6, <1>7, <1>8, <1>9, <1>10, <1>11, <1>12
  DEF Next, Step, DeployStep, Failure

\* ServedInv holds in every state of an undisturbed engine.
LEMMA ServedInvHolds ==
  ASSUME Undisturbed
  PROVE  Spec => [](LockInv /\ LogInv /\ ServedInv)
<1>1. Init => ServedInv
  <2> SUFFICES ASSUME Init PROVE ServedInv
    OBVIOUS
  <2>1. /\ pc = "idle" /\ job = IdleJob /\ DeployIds = {} /\ specs = [a \in Apps |-> NoSpec]
    BY EmptySeq DEF Init, StoreInit, DeployIds
  <2>2. OneAttempt
    BY <2>1, IdleJobType DEF OneAttempt, AtWork, InProgressDeploys
  <2>3. OthersServed
    BY <2>1 DEF Init, OthersServed, UnitServes, RouteServes
  <2>4. ~InRun
    BY <2>1 DEF InRun, HostPc, InStages
  <2> QED
    BY <2>2, <2>3, <2>4 DEF ServedInv, JobPlace, JobServes
<1>2. LockInv /\ LogInv /\ ServedInv /\ [Next]_vars => ServedInv'
  BY ServedInvNext
<1> QED
  BY <1>1, <1>2, LogInvHolds, PTL DEF Spec

\* An app whose unit and route serve a spec serves that spec as a whole.
LEMMA ServesSpec ==
  ASSUME RoutesKept, NEW a \in Apps, NEW s \in Specs \cup {NoSpec},
         UnitServes(a, s), RouteServes(a, s)
  PROVE  HostSpec(a) = s
<1>1. /\ None \notin Versions /\ Unowned \notin Versions
  BY EngineAssumption
<1>2. CASE s = NoSpec
  BY <1>1, <1>2 DEF HostSpec, UnitServes, RouteServes
<1>3. CASE s # NoSpec
  <2>1. s \in [version : Versions, route : Routes \cup {None}]
    BY <1>3, EngineAssumption
  <2>2. s = [version |-> s.version, route |-> s.route]
    BY <2>1
  <2> QED
    BY <1>3, <2>1, <2>2 DEF HostSpec, UnitServes, RouteServes
<1> QED
  BY <1>2, <1>3

\* With no attempt under way and none ever `failed`, the host serves exactly the
\* last good spec, whatever commands have failed (state.rs:77-81).
THEOREM LastGoodStays ==
  ASSUME Undisturbed
  PROVE  Spec => []LastGoodServed
<1>1. LockInv /\ ServedInv => LastGoodServed
  <2> SUFFICES ASSUME LockInv, ServedInv, NEW a \in Apps, Quiet(a), ~Wrecked(a)
               PROVE  HostSpec(a) = specs[a]
    BY DEF LastGoodServed
  <2>1. UnitServes(a, specs[a]) /\ RouteServes(a, specs[a])
    BY DEF ServedInv, OthersServed, Quiet, Busy, InRun, HostPc, InStages
  <2>2. specs[a] \in Specs \cup {NoSpec}
    BY DEF LockInv, TypeOK, StoreTypeOK
  <2> QED
    BY <2>1, <2>2, ServesSpec DEF Undisturbed
<1> QED
  BY <1>1, ServedInvHolds, PTL

------------------------------------------------------------------------------
(* The engine implements AtomicDeploy *)

\* The outcomes an observer sees, as a sequence.
LEMMA OutcomeSeq ==
  StoreTypeOK => /\ Outcome \in Seq(DeployStatus) /\ Len(Outcome) = Len(deploys)
                 /\ \A d \in DeployIds : Outcome[d] = deploys[d].status
<1> SUFFICES ASSUME StoreTypeOK
             PROVE  /\ Outcome \in Seq(DeployStatus) /\ Len(Outcome) = Len(deploys)
                    /\ \A d \in DeployIds : Outcome[d] = deploys[d].status
  OBVIOUS
<1>1. /\ deploys \in Seq(DeployRow) /\ Len(deploys) \in Nat
  BY LenProperties DEF StoreTypeOK
<1>2. \A d \in DeployIds : deploys[d].status \in DeployStatus
  BY <1>1, ElementOfSeq, RowColumns DEF DeployIds
<1>3. Outcome \in [1..Len(deploys) -> DeployStatus]
  BY <1>2 DEF Outcome, DeployIds
<1>4. Outcome \in Seq(DeployStatus)
  BY <1>1, <1>3, SeqDef
<1>5. DOMAIN Outcome = 1..Len(Outcome) /\ Len(Outcome) \in Nat
  BY <1>4, LenProperties
<1>6. DOMAIN Outcome = 1..Len(deploys)
  BY DEF Outcome, DeployIds
<1>7. Len(Outcome) = Len(deploys)
  BY <1>1, <1>4, <1>5, <1>6
<1> QED
  BY <1>4, <1>7 DEF Outcome, DeployIds

\* So they are after a step.
LEMMA OutcomeSeqNext ==
  StoreTypeOK' => (/\ Outcome \in Seq(DeployStatus) /\ Len(Outcome) = Len(deploys)
                   /\ \A d \in DeployIds : Outcome[d] = deploys[d].status)'
<1>1. StoreTypeOK => /\ Outcome \in Seq(DeployStatus) /\ Len(Outcome) = Len(deploys)
                     /\ \A d \in DeployIds : Outcome[d] = deploys[d].status
  BY OutcomeSeq
<1> QED
  BY <1>1, PTL

\* A step inside run_stages stays with its app and touches no other.
LEMMA RunSteps ==
  ASSUME LockInv, InRun, ~Finish, ~Crash, ~StoreStepFails, [Next]_vars
  PROVE  /\ InRun' /\ job'.app = job.app /\ job'.prev = job.prev
         /\ \A a \in Apps : a # job.app => host'[a] = host[a]
<1>1. /\ job \in Job /\ job.stage \in Stage /\ host \in [Apps -> Host] /\ job.app \in Apps
      /\ pc \in HostPc \cup InStages
  BY DEF LockInv, TypeOK, Job, InRun
<1>2. CASE BeginStage \/ EmitStarted \/ EarlyStage \/ Healthy \/ EmitSucceeded \/ RecordSpec \/ EmitFailed
  <2>1. InRun'
    BY <1>1, <1>2 DEF InRun, HostPc, InStages, BeginStage, EmitStarted, EarlyStage, Healthy,
       EmitSucceeded, RecordSpec, EmitFailed, WorkPc, Goto, CompensatePc, UnwindApplyPc
  <2> QED
    BY <1>1, <1>2, <2>1 DEF BeginStage, EmitStarted, EarlyStage, Healthy,
       EmitSucceeded, RecordSpec, EmitFailed, Goto, Job, StoreStep
<1>3. CASE HostAction
  <2>1. InRun' /\ job'.app = job.app /\ job'.prev = job.prev
    BY <1>1, <1>3 DEF HostAction, WriteUnit, DaemonReload, StartUnit, NothingToRemove, StopUnit,
       DeleteUnit, Unload, WriteFragment, ReloadCaddy, InRun, HostPc, InStages, Goto,
       UnwindApplyPc, Job
  <2> QED
    BY <1>1, <1>3, <2>1 DEF HostAction, WriteUnit, DaemonReload, StartUnit, NothingToRemove,
       StopUnit, DeleteUnit, Unload, WriteFragment, ReloadCaddy, Set, Started
<1>4. CASE Refused \/ HostStepFails
  <2>1. InRun' /\ job'.app = job.app /\ job'.prev = job.prev
    BY <1>1, <1>4 DEF Refused, HostStepFails, Abandon, Goto, InRun, InStages, Job
  <2> QED
    BY <1>1, <1>4, <2>1 DEF Refused, HostStepFails, Damaged, Torn, Started
<1>5. CASE UNCHANGED vars
  BY <1>5 DEF vars, InRun
<1> QED
  BY <1>1, <1>2, <1>3, <1>4, <1>5 DEF Next, Step, DeployStep, Failure, Submit, StartReconcile,
     Acquire, LockBusy, Refuse, LoadPrevious, Release, NextRow, FinishReconcile, StoreStep,
     HostPc, InStages

\* What an app shows the world: inside its run, what it would go back to.
Shown == [a \in Apps |-> IF Wrecked(a) THEN Unknown
                         ELSE IF InRun /\ job.app = a THEN job.prev
                         ELSE specs[a]]

\* Serving, read off the invariant.
LEMMA ServingShown == RoutesKept /\ LockInv /\ ServedInv => Serving = Shown
<1> SUFFICES ASSUME RoutesKept, LockInv, ServedInv PROVE Serving = Shown
  OBVIOUS
<1>1. ASSUME NEW a \in Apps, ~Wrecked(a), ~(InRun /\ job.app = a)
      PROVE  HostSpec(a) = specs[a]
  <2>1. UnitServes(a, specs[a]) /\ RouteServes(a, specs[a])
    BY <1>1 DEF ServedInv, OthersServed
  <2>2. specs[a] \in Specs \cup {NoSpec}
    BY DEF LockInv, TypeOK, StoreTypeOK
  <2> QED
    BY <2>1, <2>2, ServesSpec
<1>2. \A a \in Apps : MidDeploy(a) <=> InRun /\ job.app = a
  BY DEF MidDeploy, InRun
<1> QED
  BY <1>1, <1>2 DEF Serving, Shown

\* And so it does after any step that keeps the invariants.
LEMMA ServingShownNext == (RoutesKept /\ LockInv /\ ServedInv)' => (Serving = Shown)'
<1>1. RoutesKept /\ LockInv /\ ServedInv => Serving = Shown
  BY ServingShown
<1> QED
  BY <1>1, PTL

\* No step but Finish shows.
LEMMA NothingShows ==
  ASSUME LockInv, LogInv, ServedInv, Undisturbed, [Next]_vars, ~Finish,
         LockInv', ServedInv'
  PROVE  Serving' = Serving
<1>1. /\ \A a \in Apps : Wrecked(a)' <=> Wrecked(a)
      /\ RoutesKept /\ ~Crash /\ ~StoreStepFails /\ job \in Job
      /\ specs \in [Apps -> Specs \cup {NoSpec}]
  BY WreckedSame, NotCutShort DEF Undisturbed, LockInv, TypeOK, StoreTypeOK
<1>2. Serving = [a \in Apps |-> IF Wrecked(a) THEN Unknown
                                ELSE IF InRun /\ job.app = a THEN job.prev
                                ELSE specs[a]]
  BY <1>1, ServingShown DEF Shown
<1>3. Serving' = [a \in Apps |-> IF Wrecked(a)' THEN Unknown
                                 ELSE IF InRun' /\ job'.app = a THEN job'.prev
                                 ELSE specs'[a]]
  BY <1>1, ServingShownNext DEF Shown, RoutesKept
<1>4. CASE InRun
  <2>1. InRun' /\ job'.app = job.app /\ job'.prev = job.prev
    BY <1>1, <1>4, RunSteps
  <2>2. \A a \in Apps : a # job.app => specs'[a] = specs[a]
    <3>1. CASE RecordSpec
      BY <1>1, <3>1 DEF RecordSpec, PutSpec
    <3>2. CASE ~RecordSpec
      BY <1>4, <3>2 DEF Next, Step, DeployStep, HostAction, Failure, Submit, Acquire, LockBusy,
         Refuse, LoadPrevious, BeginStage, EmitStarted, EarlyStage, Healthy, EmitSucceeded,
         EmitFailed, Finish, Release, WriteUnit, DaemonReload, StartUnit, NothingToRemove,
         StopUnit, DeleteUnit, Unload, WriteFragment, ReloadCaddy, Refused, HostStepFails,
         StoreStepFails, Crash, StartReconcile, NextRow, FinishReconcile, HostStep, storeVars, vars
    <3> QED
      BY <3>1, <3>2
  <2> QED
    BY <1>1, <1>2, <1>3, <1>4, <2>1, <2>2
<1>5. CASE ~InRun
  <2>1. specs' = specs
    BY <1>1, <1>5 DEF InRun, HostPc, InStages, Next, Step, DeployStep, HostAction, Failure, Submit, Acquire, LockBusy,
       Refuse, LoadPrevious, BeginStage, EmitStarted, EarlyStage, Healthy, EmitSucceeded,
       RecordSpec, EmitFailed, Finish, Release, WriteUnit, DaemonReload, StartUnit,
       NothingToRemove, StopUnit, DeleteUnit, Unload, WriteFragment, ReloadCaddy, Refused,
       Refusal, HostStepFails, StartReconcile, NextRow, FinishReconcile, HostStep,
       StoreStep, storeVars, vars
  <2>2. CASE LoadPrevious
    <3>1. job'.app = job.app /\ job'.prev = specs[job.app]
      BY <1>1, <2>2 DEF LoadPrevious, Job
    <3> QED
      BY <1>1, <1>2, <1>3, <1>5, <2>1, <3>1
  <2>3. CASE ~LoadPrevious
    <3>1. ~NextRow
      BY DEF NextRow, ServedInv, OneAttempt
    <3>2. ~InRun'
      BY <1>1, <1>5, <2>3, <3>1 DEF InRun, HostPc, InStages, Next, Step, DeployStep,
         HostAction, Failure, Submit, Acquire, LockBusy, Refuse, BeginStage, EmitStarted,
         EarlyStage, Healthy, EmitSucceeded, RecordSpec, EmitFailed, Finish, Release,
         WriteUnit, DaemonReload, StartUnit, NothingToRemove, StopUnit, DeleteUnit, Unload,
         WriteFragment, ReloadCaddy, Refused, Refusal, HostStepFails, StartReconcile,
         FinishReconcile, HostStep, StoreStep, Goto, Rest, vars
    <3> QED
      BY <1>1, <1>2, <1>3, <1>5, <2>1, <3>2
  <2> QED
    BY <2>2, <2>3
<1> QED
  BY <1>4, <1>5

\* Steps that end no row and start none leave the outcomes alone.
LEMMA OutcomeSame ==
  ASSUME DeployIds' = DeployIds, \A d \in DeployIds : deploys'[d].status = deploys[d].status
  PROVE  Outcome' = Outcome
  BY DEF Outcome

\* A row that ends is settled in the outcomes.
LEMMA OutcomeSettles ==
  ASSUME LockInv, LockInv', NEW d \in DeployIds, NEW st \in Terminal, InProgress(d),
         DeployIds' = DeployIds, deploys'[d].status = st,
         \A i \in DeployIds : i # d => deploys'[i] = deploys[i]
  PROVE  Promise!Settle(d, st) /\ d \in DOMAIN Outcome
<1>1. Outcome[d] = "in_progress" /\ d \in DOMAIN Outcome
  BY DEF Outcome, InProgress
<1>2. Outcome' = [Outcome EXCEPT ![d] = st]
  BY DEF Outcome
<1> QED
  BY <1>1, <1>2 DEF Promise!Settle

\* Each step of the engine is one of the promise's, or shows nothing.
LEMMA StepKeepsPromise ==
  ASSUME LockInv, LogInv, ServedInv, Undisturbed, [Next]_vars,
         LockInv', ServedInv'
  PROVE  [Promise!Next]_(Promise!vars)
<1>1. StoreTypeOK /\ StoreTypeOK' /\ job \in Job /\ ~Crash /\ ~StoreStepFails /\ RoutesKept
  BY NotCutShort DEF LockInv, TypeOK, Undisturbed
<1>2. ASSUME NEW a \in Apps, NEW s \in Specs, Submit(a, s) PROVE Promise!Next
  <2>1. PICK n \in Nat : n = Len(deploys)
    BY <1>1, LenProperties DEF StoreTypeOK
  <2>2. CreateDeploy(a) /\ pc = "idle"
    BY <1>2 DEF Submit, StoreStep
  <2>3. /\ Len(deploys') = n + 1
        /\ \A d \in DeployIds : deploys'[d] = deploys[d]
        /\ deploys'[n + 1].status = "in_progress"
    BY <1>1, <2>1, <2>2, CreateDeployAdds
  <2>4. /\ Outcome \in Seq(DeployStatus) /\ Len(Outcome) = n
        /\ \A d \in 1..n : Outcome[d] = deploys[d].status
    BY <1>1, <2>1, OutcomeSeq DEF DeployIds
  <2>5. /\ Outcome' \in Seq(DeployStatus) /\ Len(Outcome') = n + 1
        /\ \A d \in 1..(n + 1) : Outcome'[d] = deploys'[d].status
    <3>1. /\ Outcome' \in Seq(DeployStatus) /\ Len(Outcome') = Len(deploys')
          /\ \A d \in DeployIds' : Outcome'[d] = deploys'[d].status
      BY <1>1, OutcomeSeqNext
    <3> QED
      BY <2>3, <3>1 DEF DeployIds
  <2>6. "in_progress" \in DeployStatus
    BY DEF DeployStatus
  <2>7. /\ Append(Outcome, "in_progress") \in Seq(DeployStatus)
        /\ Len(Append(Outcome, "in_progress")) = n + 1
        /\ \A d \in 1..n : Append(Outcome, "in_progress")[d] = Outcome[d]
        /\ Append(Outcome, "in_progress")[n + 1] = "in_progress"
    BY <2>4, <2>6, AppendProperties
  <2>8. \A d \in 1..(n + 1) : Append(Outcome, "in_progress")[d] = Outcome'[d]
    BY <2>1, <2>3, <2>4, <2>5, <2>7 DEF DeployIds
  <2>9. Outcome' = Append(Outcome, "in_progress")
    BY <2>5, <2>7, <2>8, SeqEqual
  <2>10. ~Finish
    BY <2>2 DEF Finish, StoreStep
  <2> QED
    BY <2>9, <2>10, NothingShows DEF Promise!Next, Promise!Accept
<1>3. CASE Refuse
  <2>1. AtWork /\ FinishDeploy(job.id, "failed") /\ pc = "refuse"
    BY <1>3 DEF Refuse, StoreStep, AtWork
  <2>2. PICK d \in DeployIds : d = job.id /\ InProgress(d)
    BY <2>1, OwnId
  <2>3. /\ DeployIds' = DeployIds /\ deploys'[d].status = "failed"
        /\ \A i \in DeployIds : i # d => deploys'[i] = deploys[i]
    BY <1>1, <2>1, <2>2, FinishDeployEnds DEF Terminal, DeployIds
  <2>4. Promise!Settle(d, "failed") /\ d \in DOMAIN Outcome
    BY <2>2, <2>3, OutcomeSettles DEF Terminal
  <2>5. ~Finish
    BY <2>1 DEF Finish, StoreStep
  <2> QED
    BY <2>4, <2>5, NothingShows DEF Promise!Next, Promise!Refuse
<1>4. CASE Finish
  <2>1. /\ AtWork /\ FinishDeploy(job.id, job.outcome) /\ pc = "finish" /\ ~InRun' /\ InRun
        /\ UNCHANGED <<specs, host>>
    BY <1>4 DEF Finish, FinishDeployWithEvent, StoreStep, AtWork, Goto, InRun, HostPc, InStages
  <2>2. PICK d \in DeployIds : d = job.id /\ InProgress(d)
    BY <2>1, OwnId
  <2>3. PICK st \in Terminal : st = job.outcome
    BY <1>1 DEF Job
  <2>4. /\ DeployIds' = DeployIds /\ deploys'[d].status = st
        /\ \A i \in DeployIds : i # d => deploys'[i] = deploys[i]
    BY <1>1, <2>1, <2>2, <2>3, FinishDeployEnds DEF DeployIds
  <2>5. Promise!Settle(d, st) /\ d \in DOMAIN Outcome
    BY <2>2, <2>3, <2>4, OutcomeSettles
  <2>6. PICK a \in Apps : a = job.app
    BY <1>1 DEF Job
  <2>7. \A b \in Apps : Wrecked(b)' <=> Wrecked(b) \/ (b = a /\ st = "failed")
    BY <1>4, <2>3, <2>6, FinishWrecks
  <2>8. /\ Serving = [b \in Apps |-> IF Wrecked(b) THEN Unknown
                                     ELSE IF b = a THEN job.prev ELSE specs[b]]
        /\ Unknown \notin Specs \cup {NoSpec} /\ job.prev # Unknown
    BY <1>1, <2>1, <2>6, ServingShown, EngineAssumption DEF Shown, Job
  <2>9. Serving' = [b \in Apps |-> IF Wrecked(b)' THEN Unknown ELSE specs[b]]
    BY <1>1, <2>1, ServingShownNext DEF Shown, RoutesKept
  <2>10. /\ specs[a] = IF job.undo THEN job.prev ELSE job.spec
         /\ st = "done" <=> ~job.undo
    BY <1>1, <2>1, <2>3, <2>6, FinishServes
  <2>11. CASE st = "done"
    <3>1. PICK s \in Specs : s = job.spec
      BY <2>10, <2>11, <2>1 DEF LockInv, SpecsKnown, Busy
    <3>2. Serving' = [Serving EXCEPT ![a] = IF @ = Unknown THEN Unknown ELSE s]
      BY <2>7, <2>8, <2>9, <2>10, <2>11, <3>1
    <3> QED
      BY <2>5, <2>11, <3>2 DEF Promise!Next, Promise!Succeed
  <2>12. CASE st = "rolled_back"
    <3>1. Serving' = Serving
      BY <2>7, <2>8, <2>9, <2>10, <2>12
    <3> QED
      BY <2>5, <2>12, <3>1 DEF Promise!Next, Promise!RollBack
  <2>13. CASE st = "failed"
    <3>1. Serving' = [Serving EXCEPT ![a] = Unknown]
      BY <2>7, <2>8, <2>9, <2>13
    <3> QED
      BY <2>5, <2>13, <3>1 DEF Promise!Next, Promise!Fail
  <2> QED
    BY <2>3, <2>11, <2>12, <2>13 DEF Terminal
<1>5. CASE BeginStage
  <2>1. AtWork /\ AdvanceStage(job.id, job.stage) /\ pc = "begin"
    BY <1>5 DEF BeginStage, StoreStep, AtWork
  <2>2. /\ Len(deploys') = Len(deploys)
        /\ \A d \in DeployIds : deploys'[d].status = deploys[d].status
    BY <1>1, <2>1, OwnId, AdvanceStageKeeps DEF Job
  <2>3. ~Finish
    BY <2>1 DEF Finish, StoreStep
  <2> QED
    BY <2>2, <2>3, OutcomeSame, NothingShows DEF DeployIds, Promise!vars
<1>6. ASSUME ~Finish, deploys' = deploys PROVE UNCHANGED Promise!vars
  BY <1>6, OutcomeSame, NothingShows DEF DeployIds, Promise!vars
<1>7. ASSUME \/ Acquire \/ LockBusy \/ LoadPrevious \/ EmitStarted \/ EarlyStage
             \/ Healthy \/ EmitSucceeded \/ RecordSpec \/ EmitFailed \/ Release
             \/ HostAction \/ NextRow \/ FinishReconcile \/ Failure
             \/ StartReconcile \/ UNCHANGED vars
      PROVE  deploys' = deploys
  BY <1>7 DEF Acquire, LockBusy, LoadPrevious, EmitStarted, EarlyStage, Healthy,
     EmitSucceeded, RecordSpec, EmitFailed, Release, NextRow, FinishReconcile, Failure,
     Refused, HostStepFails, StoreStepFails, StartReconcile, HostAction, HostStep,
     WriteUnit, DaemonReload, StartUnit, NothingToRemove, StopUnit, DeleteUnit, Unload,
     WriteFragment, ReloadCaddy, storeVars, vars
<1> QED
  BY <1>1, <1>2, <1>3, <1>4, <1>5, <1>6, <1>7 DEF Next, Step, DeployStep

\* Without crashes and store failures every deploy is atomic to an observer: it
\* is accepted, refused, and ends once, and the app changes only at its ending
\* (deploy/mod.rs, the outcomes of a deploy).
THEOREM KeepsPromise ==
  ASSUME Undisturbed
  PROVE  Spec => DeploysAreAtomic
<1>1. Init /\ LockInv /\ ServedInv => Promise!Init
  <2> SUFFICES ASSUME Init, LockInv, ServedInv PROVE Promise!Init
    OBVIOUS
  <2>1. Len(deploys) = 0 /\ DeployIds = {} /\ pc = "idle" /\ specs = [a \in Apps |-> NoSpec]
    BY EmptySeq DEF Init, StoreInit, DeployIds
  <2>2. Outcome \in Seq(DeployStatus) /\ Len(Outcome) = 0
    BY <2>1, OutcomeSeq DEF LockInv, TypeOK
  <2>3. Outcome = <<>>
    BY <2>2, EmptySeq
  <2>4. Serving = [a \in Apps |-> NoSpec]
    BY <2>1, ServingShown DEF Shown, Undisturbed, Wrecked, InRun, HostPc, InStages
  <2> QED
    BY <2>3, <2>4 DEF Promise!Init
<1>2. /\ LockInv /\ LogInv /\ ServedInv /\ [Next]_vars /\ LockInv' /\ ServedInv'
      => [Promise!Next]_(Promise!vars)
  BY StepKeepsPromise
<1> QED
  BY <1>1, <1>2, ServedInvHolds, PTL DEF Spec, DeploysAreAtomic, Promise!Spec

------------------------------------------------------------------------------
(* The files, wherever the process dies: FilesInv *)

\* A step that ends no row keeps each one, but for its stage.
LEMMA RowsKept ==
  ASSUME LockInv, [Next]_vars, ~Finish, ~Refuse, NEW d \in DeployIds
  PROVE  /\ d \in DeployIds'
         /\ deploys'[d].app = deploys[d].app /\ deploys'[d].status = deploys[d].status
         /\ deploys'[d].stage = IF BeginStage /\ d = job.id THEN job.stage
                                ELSE deploys[d].stage
<1>1. StoreTypeOK /\ job \in Job
  BY DEF LockInv, TypeOK
<1>2. CASE BeginStage
  <2>1. AtWork /\ AdvanceStage(job.id, job.stage)
    BY <1>2 DEF BeginStage, StoreStep, AtWork
  <2>2. PICK i \in DeployIds : i = job.id
    BY <2>1, OwnId
  <2>3. /\ Len(deploys') = Len(deploys) /\ deploys'[i].stage = job.stage
        /\ deploys'[d].app = deploys[d].app /\ deploys'[d].status = deploys[d].status
        /\ d # i => deploys'[d] = deploys[d]
    BY <1>1, <2>1, <2>2, AdvanceStageKeeps DEF Job
  <2> QED
    BY <1>2, <2>2, <2>3 DEF DeployIds
<1>3. ASSUME NEW a \in Apps, NEW s \in Specs, Submit(a, s)
      PROVE  d \in DeployIds' /\ deploys'[d] = deploys[d]
  BY <1>1, <1>3, CreateDeployAdds DEF Submit
<1>4. ASSUME \/ Acquire \/ LockBusy \/ LoadPrevious \/ EmitStarted \/ EarlyStage
             \/ Healthy \/ EmitSucceeded \/ RecordSpec \/ EmitFailed \/ Release
             \/ HostAction \/ NextRow \/ FinishReconcile \/ Failure
             \/ StartReconcile \/ Crash \/ UNCHANGED vars
      PROVE  d \in DeployIds' /\ deploys'[d] = deploys[d]
  BY <1>4 DEF Acquire, LockBusy, LoadPrevious, EmitStarted, EarlyStage, Healthy,
     EmitSucceeded, RecordSpec, EmitFailed, Release, NextRow, FinishReconcile, Failure,
     Refused, HostStepFails, StoreStepFails, StartReconcile, Crash, HostAction, HostStep,
     WriteUnit, DaemonReload, StartUnit, NothingToRemove, StopUnit, DeleteUnit, Unload,
     WriteFragment, ReloadCaddy, storeVars, vars, DeployIds
<1>5. CASE ~BeginStage
  <2>1. d \in DeployIds' /\ deploys'[d] = deploys[d]
    BY <1>3, <1>4, <1>5 DEF Next, Step, DeployStep
  <2> QED
    BY <1>5, <2>1
<1> QED
  BY <1>2, <1>5

\* RowPlace is inductive, next to LockInv and LogInv.
LEMMA RowPlaceNext == LockInv /\ LogInv /\ RowPlace /\ [Next]_vars => RowPlace'
<1> SUFFICES ASSUME LockInv, LogInv, RowPlace, [Next]_vars, AtWork' PROVE RowPlace'
  BY DEF RowPlace
<1>1. /\ StoreTypeOK /\ job \in Job /\ job.stage \in Stage
      /\ AtWork => job.id \in DeployIds
  BY OwnId DEF LockInv, TypeOK, Job
<1>2. ASSUME NEW a \in Apps, NEW s \in Specs, Submit(a, s) PROVE RowPlace'
  <2>1. PICK n : n = Len(deploys) + 1
    OBVIOUS
  <2>2. /\ CreateDeploy(a) /\ pc' = "acquire"
        /\ job' = [IdleJob EXCEPT !.app = a, !.id = n, !.spec = s]
    BY <1>2, <2>1 DEF Submit
  <2>3. deploys'[n].stage = "detect"
    BY <1>1, <2>1, <2>2, CreateDeployAdds
  <2>4. job'.id = n /\ job'.stage = "detect"
    BY <2>2 DEF IdleJob
  <2> QED
    BY <2>2, <2>3, <2>4 DEF RowPlace
<1>3. CASE NextRow
  <2>1. PICK d \in job.todo :
          /\ job' = [job EXCEPT !.id = d, !.app = deploys[d].app,
                                !.stage = deploys[d].stage,
                                !.prev = specs[deploys[d].app],
                                !.outcome = "rolled_back", !.todo = @ \ {d}]
          /\ pc' = CompensatePc(deploys[d].stage, specs[deploys[d].app])
    BY <1>3 DEF NextRow
  <2>2. deploys' = deploys /\ job'.id = d /\ job'.stage = deploys[d].stage
    BY <1>1, <1>3, <2>1 DEF NextRow, storeVars, Job
  <2>3. d \in 1..Len(deploys) /\ deploys \in Seq(DeployRow)
    BY <1>1 DEF LockInv, TypeOK, StoreTypeOK, DeployIds
  <2>4. deploys[d].stage \in Stage
    BY <2>3, ElementOfSeq, RowColumns
  <2> QED
    BY <2>1, <2>2, <2>4, CompensateFrom DEF RowPlace
<1>4. CASE ~NextRow /\ ~\E a \in Apps, s \in Specs : Submit(a, s)
  <2>1. ~Finish /\ ~Refuse
    BY DEF Finish, Refuse, Goto, Rest, AtWork
  <2>2. AtWork /\ job'.id = job.id
    BY <1>1, <1>4, <2>1
    DEF Next, Step, DeployStep, HostAction, Failure, Acquire, LockBusy, LoadPrevious,
       BeginStage, EmitStarted, EarlyStage, Healthy, EmitSucceeded, RecordSpec, EmitFailed,
       Release, WriteUnit, DaemonReload, StartUnit, NothingToRemove, StopUnit, DeleteUnit,
       Unload, WriteFragment, ReloadCaddy, Refused, Refusal, HostStepFails, StoreStepFails,
       Crash, StartReconcile, FinishReconcile, HostStep, StoreStep, Goto, Rest, Abandon,
       AtWork, HostPc, Job, vars
  <2>3. PICK d \in DeployIds : d = job.id
    BY <1>1, <2>2
  <2>4. deploys'[d].stage = IF BeginStage THEN job.stage ELSE deploys[d].stage
    BY <2>1, <2>3, RowsKept
  <2>5. CASE BeginStage
    <3>1. job' = job /\ pc' = "started"
      BY <2>5 DEF BeginStage, Goto
    <3> QED
      BY <2>3, <2>4, <2>5, <3>1 DEF RowPlace
  <2>6. CASE EmitSucceeded /\ job.stage # "healthcheck"
    <3>1. /\ job' = [job EXCEPT !.stage = StageOrder[StageNumber(@) + 1]]
          /\ pc' = "begin" /\ pc = "ok" /\ ~BeginStage
      BY <2>6 DEF EmitSucceeded, StoreStep, BeginStage
    <3>2. job'.stage = StageOrder[StageNumber(job.stage) + 1] /\ job'.id = d
      BY <1>1, <2>2, <2>3, <3>1 DEF Job
    <3>3. deploys'[d].stage = job.stage
      BY <2>2, <2>3, <2>4, <3>1 DEF RowPlace
    <3>4. /\ job.stage \notin Untouched => job'.stage \in {"route", "healthcheck"}
          /\ job.stage = "route" => job'.stage = "healthcheck"
      BY <1>1, <2>6, <3>2, Successor DEF Stage, Untouched
    <3> QED
      BY <2>6, <3>1, <3>2, <3>3, <3>4 DEF RowPlace, Untouched
  <2>7. CASE LoadPrevious
    <3>1. pc = "load" /\ pc' = "begin" /\ job'.stage = job.stage /\ ~BeginStage
      BY <1>1, <2>7 DEF LoadPrevious, BeginStage, StoreStep, Job
    <3> QED
      BY <2>2, <2>3, <2>4, <3>1 DEF RowPlace, Untouched
  <2>8. CASE ~BeginStage /\ ~(EmitSucceeded /\ job.stage # "healthcheck") /\ ~LoadPrevious
    <3>1. job'.stage = job.stage /\ (pc' = "begin" => pc = "begin")
      BY <1>1, <1>4, <2>1, <2>2, <2>8
      DEF Next, Step, DeployStep, HostAction, Failure, Acquire, LockBusy,
         EmitStarted, EarlyStage, Healthy, EmitSucceeded, RecordSpec, EmitFailed,
         Release, WriteUnit, DaemonReload, StartUnit, NothingToRemove, StopUnit, DeleteUnit,
         Unload, WriteFragment, ReloadCaddy, Refused, HostStepFails, StoreStepFails,
         Crash, StartReconcile, FinishReconcile, StoreStep, Goto, Rest, Abandon,
         AtWork, Job, vars, WorkPc, CompensatePc, UnwindApplyPc, Stage
    <3>2. pc = "begin" => pc' = "begin"
      BY <1>1, <1>4, <2>1, <2>2, <2>8
      DEF Next, Step, DeployStep, HostAction, Failure, Acquire, LockBusy,
         EmitStarted, EarlyStage, Healthy, EmitSucceeded, RecordSpec, EmitFailed,
         Release, WriteUnit, DaemonReload, StartUnit, NothingToRemove, StopUnit, DeleteUnit,
         Unload, WriteFragment, ReloadCaddy, Refused, Refusal, HostStepFails, StoreStepFails,
         Crash, StartReconcile, FinishReconcile, HostStep, StoreStep, Goto, Rest,
         AtWork, HostPc, vars
    <3> QED
      BY <2>2, <2>3, <2>4, <2>8, <3>1, <3>2 DEF RowPlace
  <2> QED
    BY <2>5, <2>6, <2>7, <2>8
<1> QED
  BY <1>2, <1>3, <1>4

\* What writing one field of one app's host state does to any app.
LEMMA FieldWritten ==
  ASSUME LockInv, NEW a \in Apps,
         NEW f \in {"unit", "loaded", "running", "fragment", "served"}, NEW x,
         host' = [host EXCEPT ![job.app][f] = x]
  PROVE  /\ host'[a].unit = IF a = job.app /\ f = "unit" THEN x ELSE host[a].unit
         /\ host'[a].loaded = IF a = job.app /\ f = "loaded" THEN x ELSE host[a].loaded
         /\ host'[a].fragment = IF a = job.app /\ f = "fragment" THEN x ELSE host[a].fragment
         /\ host'[a].served = IF a = job.app /\ f = "served" THEN x ELSE host[a].served
<1>1. host \in [Apps -> Host] /\ job.app \in Apps
  BY DEF LockInv, TypeOK, Job
<1>2. host[a] \in Host
  BY <1>1
<1>3. host'[a] = IF a = job.app THEN [host[a] EXCEPT ![f] = x] ELSE host[a]
  BY <1>1
<1> QED
  BY <1>2, <1>3 DEF Host

\* Only a stage's own procedure, or its undoing, touches the files.
LEMMA Touches ==
  ASSUME LockInv, LogInv, JobPlace, [Next]_vars, NEW a \in Apps
  PROVE  /\ ~(host'[a].unit = host[a].unit /\ host'[a].loaded = host[a].loaded) =>
              pc \in HostPc /\ a = job.app /\ job.stage \in {"apply", "route", "healthcheck"}
         /\ ~(host'[a].fragment = host[a].fragment /\ host'[a].served = host[a].served) =>
              pc \in HostPc /\ a = job.app /\ job.stage \in {"route", "healthcheck"}
<1> DEFINE Goal ==
  /\ ~(host'[a].unit = host[a].unit /\ host'[a].loaded = host[a].loaded) =>
       pc \in HostPc /\ a = job.app /\ job.stage \in {"apply", "route", "healthcheck"}
  /\ ~(host'[a].fragment = host[a].fragment /\ host'[a].served = host[a].served) =>
       pc \in HostPc /\ a = job.app /\ job.stage \in {"route", "healthcheck"}
<1> SUFFICES Goal
  OBVIOUS
<1>1. job \in Job /\ job.stage \in Stage
  BY DEF LockInv, TypeOK, Job
<1>2. ASSUME pc \in {"write", "reload", "delete", "unload"}, NEW f \in {"unit", "loaded"}, NEW x,
             host' = [host EXCEPT ![job.app][f] = x]
      PROVE  Goal
  <2>1. pc \in HostPc /\ job.stage \in {"apply", "route", "healthcheck"}
    BY <1>1, <1>2 DEF JobPlace, InRun, HostPc, Untouched, Stage
  <2> QED
    BY <1>2, <2>1, FieldWritten
<1>3. ASSUME pc \in {"route", "caddy"}, NEW f \in {"fragment", "served"}, NEW x,
             host' = [host EXCEPT ![job.app][f] = x]
      PROVE  Goal
  <2>1. pc \in HostPc /\ job.stage \in {"route", "healthcheck"}
    BY <1>1, <1>3 DEF JobPlace, InRun, HostPc
  <2> QED
    BY <1>3, <2>1, FieldWritten
<1>4. ASSUME NEW x, host' = [host EXCEPT ![job.app]["running"] = x] PROVE Goal
  BY <1>4, FieldWritten
<1>5. host' = host => Goal
  OBVIOUS
<1> HIDE DEF Goal
<1>6. CASE HostAction
  <2>1. WriteUnit => Goal
    BY <1>2 DEF WriteUnit, HostStep, Set
  <2>2. DaemonReload \/ Unload => Goal
    BY <1>2 DEF DaemonReload, Unload, HostStep, Set
  <2>3. StartUnit => Goal
    BY <1>4 DEF StartUnit, Started
  <2>4. NothingToRemove => Goal
    BY <1>5 DEF NothingToRemove
  <2>5. StopUnit => Goal
    BY <1>4 DEF StopUnit, Set
  <2>6. DeleteUnit => Goal
    BY <1>2 DEF DeleteUnit, HostStep, Set
  <2>7. WriteFragment => Goal
    BY <1>3 DEF WriteFragment, HostStep, Set
  <2>8. ReloadCaddy => Goal
    BY <1>3 DEF ReloadCaddy, HostStep, Set
  <2> QED
    BY <1>6, <2>1, <2>2, <2>3, <2>4, <2>5, <2>6, <2>7, <2>8 DEF HostAction
<1>7. CASE HostStepFails \/ Crash
  <2>1. host' \in Damaged \/ host' = Torn \/ host' = host
    BY <1>7 DEF HostStepFails, Crash
  <2>2. host' = Torn => Goal
    <3>1. CASE pc = "write"
      BY <1>2, <3>1 DEF Torn
    <3>2. CASE pc = "route" /\ TargetRoute # None
      BY <1>3, <3>2 DEF Torn
    <3>3. CASE pc # "write" /\ ~(pc = "route" /\ TargetRoute # None)
      BY <1>5, <3>3 DEF Torn
    <3> QED
      BY <3>1, <3>2, <3>3
  <2>3. host' = Started => Goal
    BY <1>4 DEF Started
  <2> QED
    BY <1>4, <1>5, <2>1, <2>2, <2>3 DEF Damaged
<1>8. Goal
  BY <1>5, <1>6, <1>7
  DEF Next, Step, DeployStep, Failure, Submit, Acquire, LockBusy, Refuse,
     LoadPrevious, BeginStage, EmitStarted, EarlyStage, Healthy, EmitSucceeded, RecordSpec,
     EmitFailed, Finish, Release, Refused, StoreStepFails, StartReconcile, NextRow,
     FinishReconcile, StoreStep, vars
<1> QED
  BY <1>8

\* JobFiles is inductive, next to LockInv, LogInv and JobPlace.
LEMMA JobFilesNext ==
  ASSUME RoutesKept
  PROVE  LockInv /\ LogInv /\ JobPlace /\ JobFiles /\ [Next]_vars => JobFiles'
<1> SUFFICES ASSUME LockInv, LogInv, JobPlace, JobFiles, [Next]_vars PROVE JobFiles'
  OBVIOUS
<1>1. /\ job \in Job /\ job.stage \in Stage /\ job.app \in Apps /\ None # Unowned
      /\ specs \in [Apps -> Specs \cup {NoSpec}]
      /\ pc = "next_row" => job.undo
  BY EngineAssumption DEF LockInv, TypeOK, StoreTypeOK, Job, LogInv, JobLogged
<1>2. InRun => /\ ~job.undo => job.spec # NoSpec /\ job.spec.route # None
               /\ job.prev # NoSpec => job.prev.route # None
               /\ pc \in Forward => ~job.undo
  BY RunFacts
<1>3. CASE BeginStage \/ EmitStarted \/ EarlyStage \/ Healthy \/ RecordSpec
  <2>1. /\ InRun /\ job' = job /\ host' = host /\ pc \in Forward /\ pc # "ok"
    BY <1>3 DEF BeginStage, EmitStarted, EarlyStage, Healthy, RecordSpec, StoreStep, HostStep,
       Goto, InRun, InStages, HostPc, Forward
  <2>2. /\ pc' \notin {"reload", "start", "caddy"}
        /\ pc' = "ok" => job.stage \in Untouched \cup {"healthcheck"}
    <3>1. EmitStarted => /\ pc' = WorkPc(job.stage, job.spec)
                         /\ job.spec.route # None
      BY <1>2, <2>1 DEF EmitStarted, Goto, StoreStep, Forward
    <3>2. ~EmitStarted => pc' \in {"started", "ok", "finish"}
      BY <1>3 DEF BeginStage, EarlyStage, Healthy, RecordSpec, Goto
    <3>3. EarlyStage \/ Healthy => job.stage \in Untouched \cup {"healthcheck"}
      BY DEF EarlyStage, Healthy, HostStep, JobPlace, InRun, HostPc
    <3>4. WorkPc(job.stage, job.spec) \notin {"reload", "start", "caddy", "ok"}
          \/ job.spec.route = None
      BY <1>1 DEF WorkPc, Stage
    <3>5. BeginStage \/ RecordSpec => pc' # "ok"
      BY DEF BeginStage, RecordSpec, Goto
    <3> QED
      BY <1>3, <3>1, <3>2, <3>3, <3>4, <3>5
  <2>3. ~job.undo
    BY <1>2, <2>1 DEF Forward
  <2> QED
    BY <1>2, <2>1, <2>2, <2>3 DEF JobFiles, FilesForward, Me, Untouched
<1>4. CASE EmitSucceeded
  <2>1. pc = "ok" /\ InRun /\ ~job.undo /\ host' = host
    BY <1>2, <1>4 DEF EmitSucceeded, StoreStep, InRun, InStages, Forward
  <2>2. CASE job.stage = "healthcheck"
    <3>1. pc' = "put_spec" /\ job' = job
      BY <1>4, <2>2 DEF EmitSucceeded, Goto
    <3> QED
      BY <2>1, <2>2, <3>1 DEF JobFiles, FilesForward, Me
  <2>3. CASE job.stage # "healthcheck"
    <3>1. /\ pc' = "begin" /\ job'.stage = StageOrder[StageNumber(job.stage) + 1]
          /\ job'.app = job.app /\ job'.undo = job.undo /\ job'.spec = job.spec
      BY <1>1, <1>4, <2>3 DEF EmitSucceeded, Job
    <3>2. \/ job.stage = "detect" /\ job'.stage = "build"
          \/ job.stage = "build" /\ job'.stage = "secrets"
          \/ job.stage = "secrets" /\ job'.stage = "apply"
          \/ job.stage = "apply" /\ job'.stage = "route"
          \/ job.stage = "route" /\ job'.stage = "healthcheck"
      BY <1>1, <2>3, <3>1, Successor DEF Stage
    <3> QED
      BY <2>1, <3>1, <3>2 DEF JobFiles, FilesForward, Me
  <2> QED
    BY <2>2, <2>3
<1>5. ASSUME NEW s \in Stage, NEW p, pc' = CompensatePc(s, p),
             job'.undo, job'.stage = s, job'.prev = p
      PROVE  JobFiles'
  BY <1>5, CompensateFrom DEF JobFiles, FilesBack, Untouched
<1>6. CASE EmitFailed
  <2>1. /\ job' = [job EXCEPT !.undo = TRUE, !.outcome = "rolled_back"]
        /\ pc' = CompensatePc(job.stage, job.prev)
    BY <1>6 DEF EmitFailed
  <2> QED
    BY <1>1, <1>5, <2>1 DEF Job
<1>7. CASE NextRow
  <2>1. PICK d \in job.todo :
          /\ job' = [job EXCEPT !.id = d, !.app = deploys[d].app,
                                !.stage = deploys[d].stage,
                                !.prev = specs[deploys[d].app],
                                !.outcome = "rolled_back", !.todo = @ \ {d}]
          /\ pc' = CompensatePc(deploys[d].stage, specs[deploys[d].app])
    BY <1>7 DEF NextRow
  <2>2. d \in 1..Len(deploys) /\ deploys \in Seq(DeployRow)
    BY DEF LockInv, TypeOK, StoreTypeOK, DeployIds
  <2>3. deploys[d].stage \in Stage
    BY <2>2, ElementOfSeq, RowColumns
  <2>4. pc = "next_row"
    BY <1>7 DEF NextRow, StoreStep
  <2>5. /\ job'.prev = specs[deploys[d].app] /\ job'.stage = deploys[d].stage /\ job'.undo
    BY <1>1, <2>1, <2>4 DEF Job
  <2> QED
    BY <1>5, <2>1, <2>3, <2>5
<1>8. CASE WriteUnit \/ DaemonReload \/ StartUnit
  <2>1. /\ InRun /\ specs' = specs
        /\ job'.app = job.app /\ job'.undo = job.undo /\ job'.stage = job.stage
        /\ job'.prev = job.prev /\ job'.spec = job.spec /\ job'.outcome = job.outcome
    BY <1>1, <1>8 DEF WriteUnit, DaemonReload, StartUnit, HostStep, Goto, InRun, HostPc, Job
  <2>2. \/ pc = "write" /\ pc' = "reload" /\ Set("unit", TargetVersion)
        \/ pc = "reload" /\ pc' = "start" /\ Set("loaded", Me.unit)
        \/ /\ pc = "start" /\ pc' = (IF job.undo THEN "finish" ELSE "ok")
           /\ Set("running", IF Changed \/ Me.running = None THEN Me.loaded ELSE Me.running)
    BY <1>8 DEF WriteUnit, DaemonReload, StartUnit, HostStep, Goto, Set, Started, Me
  <2>3. /\ Me'.unit = IF pc = "write" THEN TargetVersion ELSE Me.unit
        /\ Me'.loaded = IF pc = "reload" THEN Me.unit ELSE Me.loaded
        /\ Me'.fragment = Me.fragment /\ Me'.served = Me.served
    BY <2>1, <2>2, SetFact
  <2>4. CASE ~job.undo
    <3>1. job.stage = "apply"
      BY <2>1, <2>2, <2>4 DEF JobPlace
    <3> QED
      BY <2>1, <2>2, <2>3, <2>4, <3>1 DEF JobFiles, FilesForward, TargetVersion
  <2>5. CASE job.undo
    <3>1. specs[job.app] = job.prev /\ job.prev # NoSpec
      BY <2>1, <2>2, <2>5 DEF JobPlace
    <3> QED
      BY <2>1, <2>2, <2>3, <2>5, <3>1
      DEF JobFiles, FilesBack, TargetVersion, UnitKept, RouteKept, Me
  <2> QED
    BY <2>4, <2>5
<1>9. CASE NothingToRemove \/ StopUnit \/ DeleteUnit \/ Unload
  <2>1. /\ InRun /\ specs' = specs /\ job' = job /\ pc \in {"stop", "delete", "unload"}
    BY <1>9 DEF NothingToRemove, StopUnit, DeleteUnit, Unload, HostStep, Goto, InRun, HostPc
  <2>2. \/ pc = "stop" /\ pc' = "finish" /\ Me.unit = None /\ host' = host
        \/ pc = "stop" /\ pc' = "delete" /\ Set("running", None)
        \/ pc = "delete" /\ pc' = "unload" /\ Set("unit", None)
        \/ pc = "unload" /\ pc' = "finish" /\ Set("loaded", Me.unit)
    BY <1>9 DEF NothingToRemove, StopUnit, DeleteUnit, Unload, HostStep, Goto
  <2>3. /\ Me'.unit = IF pc = "delete" THEN None ELSE Me.unit
        /\ Me'.fragment = Me.fragment /\ Me'.served = Me.served
    <3>1. host' = host => Me' = Me
      BY <2>1 DEF Me
    <3> QED
      BY <2>1, <2>2, <3>1, SetFact
  <2>4. job.undo /\ job.prev = NoSpec /\ specs[job.app] = NoSpec
    BY <2>1 DEF JobPlace
  <2> QED
    BY <2>1, <2>2, <2>3, <2>4 DEF JobFiles, FilesBack, UnitKept, RouteKept, Me
<1>10. CASE WriteFragment \/ ReloadCaddy
  <2>1. InRun /\ specs' = specs /\ job' = job /\ pc \in {"route", "caddy"}
    BY <1>10 DEF WriteFragment, ReloadCaddy, HostStep, Goto, InRun, HostPc
  <2>2. /\ UnwindApplyPc(job.prev) = IF job.prev = NoSpec THEN "stop" ELSE "write"
        /\ TargetRoute = IF ~job.undo THEN job.spec.route
                         ELSE IF job.prev = NoSpec THEN None ELSE job.prev.route
        /\ TargetRoute' = TargetRoute
    BY <2>1 DEF UnwindApplyPc, TargetRoute
  <2>3. \/ /\ pc = "route" /\ Set("fragment", TargetRoute)
           /\ pc' = (IF TargetRoute = None /\ Me.fragment = None
                     THEN UnwindApplyPc(job.prev) ELSE "caddy")
        \/ /\ pc = "caddy" /\ Set("served", Me.fragment)
           /\ pc' = (IF job.undo THEN UnwindApplyPc(job.prev) ELSE "ok")
    BY <1>10 DEF WriteFragment, ReloadCaddy, HostStep, Goto
  <2>4. /\ Me'.unit = Me.unit /\ Me'.loaded = Me.loaded
        /\ Me'.fragment = (IF pc = "route" THEN TargetRoute ELSE Me.fragment)
        /\ Me'.served = (IF pc = "caddy" THEN Me.fragment ELSE Me.served)
    BY <2>1, <2>3, SetFact
  <2>5. CASE ~job.undo
    <3>1. job.stage = "route" /\ pc' = (IF pc = "route" THEN "caddy" ELSE "ok")
      BY <1>2, <2>1, <2>2, <2>3, <2>5 DEF JobPlace
    <3> QED
      BY <1>2, <2>1, <2>2, <2>3, <2>4, <2>5, <3>1 DEF JobFiles, FilesForward
  <2>6. CASE job.undo
    <3>1. specs[job.app] = job.prev
      BY <2>1, <2>6 DEF JobPlace
    <3> QED
      BY <1>2, <2>1, <2>2, <2>3, <2>4, <2>6, <3>1 DEF JobFiles, FilesBack, RouteKept, Me
  <2> QED
    BY <2>5, <2>6
<1>11. CASE Refused \/ HostStepFails
  <2>1. Abandon /\ pc \in HostPc /\ specs' = specs
    BY <1>11 DEF Refused, Refusal, HostStepFails, HostPc
  <2>2. CASE job.undo
    <3>1. job'.undo /\ job'.outcome = "failed"
      BY <1>1, <2>1, <2>2 DEF Abandon, Job
    <3> QED
      BY <3>1 DEF JobFiles
  <2>3. CASE ~job.undo
    <3>1. job' = job /\ pc' = "fail" /\ InRun
      BY <2>1, <2>3 DEF Abandon, Goto, InRun
    <3>2. job.stage = "healthcheck" => pc = "health"
      BY <2>1, <2>3, <3>1 DEF JobPlace, HostPc, Untouched
    <3>3. pc \in {"health", "work"} => host' = host
      BY <1>11 DEF Refused, HostStepFails, Damaged, Torn
    <3>4. \/ Me'.unit = Me.unit /\ Me'.loaded = Me.loaded
          \/ job.stage \notin {"route", "healthcheck"}
      <4>1. job.stage \in {"route", "healthcheck"} => pc \in {"route", "caddy", "health"}
        BY <2>1, <2>3, <3>1 DEF JobPlace, HostPc, Untouched
      <4>2. pc \in {"route", "caddy", "health"} =>
              host' = host \/ host' = [host EXCEPT ![job.app]["fragment"] = Unowned]
        BY <1>11 DEF Refused, HostStepFails, Damaged, Torn
      <4> QED
        BY <1>1, <3>1, <4>1, <4>2, FieldWritten DEF Me
    <3> QED
      BY <2>3, <3>1, <3>2, <3>3, <3>4 DEF JobFiles, FilesForward, Me
  <2> QED
    BY <2>2, <2>3
<1>12. CASE LoadPrevious
  <2>1. /\ pc = "load" /\ pc' = "begin" /\ job' = [job EXCEPT !.prev = specs[job.app]]
        /\ ~job.undo /\ AtWork
    BY <1>12 DEF LoadPrevious, StoreStep, LockInv, SpecsKnown, Forward, AtWork
  <2>2. job'.stage = "detect" /\ ~job'.undo
    BY <1>1, <2>1 DEF LogInv, JobLogged, Job
  <2> QED
    BY <2>1, <2>2 DEF JobFiles, FilesForward
<1>13. CASE \/ \E a \in Apps, s \in Specs : Submit(a, s)
            \/ Acquire \/ LockBusy \/ Refuse \/ Finish \/ Release \/ StartReconcile
            \/ FinishReconcile \/ StoreStepFails \/ Crash
  <2>1. ~InRun'
    BY <1>13 DEF Submit, Acquire, LockBusy, Refuse, Finish, Release, StartReconcile,
       FinishReconcile, StoreStepFails, Crash, Goto, Rest, InRun, HostPc, InStages
  <2> QED
    BY <2>1 DEF JobFiles
<1>14. CASE UNCHANGED vars
  BY <1>14 DEF vars, JobFiles, InRun, FilesForward, FilesBack, Me, UnitKept, RouteKept, TargetRoute
<1> QED
  BY <1>3, <1>4, <1>6, <1>7, <1>8, <1>9, <1>10, <1>11, <1>12, <1>13, <1>14
  DEF Next, Step, DeployStep, HostAction, Failure

\* Finish and Refuse change no row but the job's own.
LEMMA OthersRowsSame ==
  ASSUME LockInv, Finish \/ Refuse, NEW d \in DeployIds, d # job.id
  PROVE  d \in DeployIds' /\ deploys'[d] = deploys[d]
<1>1. AtWork /\ \E st \in Terminal : FinishDeploy(job.id, st)
  BY DEF Finish, Refuse, FinishDeployWithEvent, StoreStep, AtWork, LockInv, TypeOK, Job, Terminal
<1>2. PICK i \in DeployIds : i = job.id
  BY <1>1, OwnId
<1>3. StoreTypeOK /\ \E st \in Terminal : FinishDeploy(i, st)
  BY <1>1, <1>2, OwnId
<1> QED
  BY <1>2, <1>3, FinishDeployEnds DEF DeployIds

\* What is owed stays owed, unless the row that owes it ends.
LEMMA OwedStays ==
  ASSUME LockInv, RowPlace, [Next]_vars, NEW a \in Apps,
         NEW S \in {{"apply", "route", "healthcheck"}, {"route", "healthcheck"}},
         Owed(a, S),
         Finish \/ Refuse => a # job.app \/ job.stage \notin S
  PROVE  Owed(a, S)'
<1>1. PICK d \in DeployIds : InProgress(d) /\ deploys[d].app = a /\ deploys[d].stage \in S
  BY DEF Owed, InProgressDeploys
<1>2. CASE Finish \/ Refuse
  <2>1. AtWork /\ pc # "begin"
    BY <1>2 DEF Finish, Refuse, StoreStep, AtWork
  <2>2. deploys[job.id].stage = job.stage /\ deploys[job.id].app = job.app
    BY <2>1 DEF RowPlace, LockInv, OwnRow
  <2>3. d # job.id
    BY <1>1, <1>2, <2>2
  <2>4. d \in DeployIds' /\ deploys'[d] = deploys[d]
    BY <1>2, <2>3, OthersRowsSame
  <2> QED
    BY <1>1, <2>4 DEF Owed, InProgressDeploys, InProgress
<1>3. CASE ~Finish /\ ~Refuse
  <2>1. /\ d \in DeployIds'
        /\ deploys'[d].app = deploys[d].app /\ deploys'[d].status = deploys[d].status
        /\ deploys'[d].stage = IF BeginStage /\ d = job.id THEN job.stage
                               ELSE deploys[d].stage
    BY <1>3, RowsKept
  <2>2. ASSUME BeginStage, d = job.id PROVE job.stage \in S
    <3>1. AtWork /\ pc = "begin" /\ job.stage \in Stage
      BY <2>2 DEF BeginStage, StoreStep, AtWork, LockInv, TypeOK, Job
    <3> QED
      BY <1>1, <2>2, <3>1 DEF RowPlace, Untouched, Stage
  <2>3. deploys'[d].stage \in S
    BY <1>1, <2>1, <2>2
  <2> QED
    BY <1>1, <2>1, <2>3 DEF Owed, InProgressDeploys, InProgress
<1> QED
  BY <1>2, <1>3

\* An attempt that ends in order leaves behind what it has touched as the last
\* good spec has it.
LEMMA FinishKept ==
  ASSUME LockInv, LogInv, JobPlace, JobFiles, pc = "finish", job.outcome # "failed"
  PROVE  /\ job.stage \notin Untouched => UnitKept(job.app)
         /\ job.stage \in {"route", "healthcheck"} => RouteKept(job.app)
<1>1. InRun
  BY DEF InRun, InStages
<1>2. CASE job.undo
  BY <1>1, <1>2 DEF JobFiles, FilesBack
<1>3. CASE ~job.undo
  <2>1. job.stage = "healthcheck" /\ specs[job.app] = job.spec /\ job.spec # NoSpec
    BY <1>1, <1>3, RunFacts DEF JobPlace
  <2> QED
    BY <1>1, <1>3, <2>1 DEF JobFiles, FilesForward, UnitKept, RouteKept, Me
<1> QED
  BY <1>2, <1>3

\* The job's row owes for the app while the job is in a stage.
LEMMA JobOwes ==
  ASSUME LockInv, RowPlace, AtWork, pc # "begin", NEW S, job.stage \in S
  PROVE  Owed(job.app, S)
<1>1. deploys[job.id].stage = job.stage /\ deploys[job.id].app = job.app
  BY DEF RowPlace, LockInv, OwnRow
<1> QED
  BY <1>1, OwnId DEF Owed, InProgressDeploys

\* ChangesOwed is inductive, next to the rest of FilesInv.
LEMMA ChangesOwedNext == LockInv /\ LogInv /\ FilesInv /\ [Next]_vars => ChangesOwed'
<1> SUFFICES ASSUME LockInv, LogInv, FilesInv, [Next]_vars, NEW a \in Apps, ~Wrecked(a)'
             PROVE  /\ UnitKept(a)' \/ Owed(a, {"apply", "route", "healthcheck"})'
                    /\ RouteKept(a)' \/ Owed(a, {"route", "healthcheck"})'
  BY DEF ChangesOwed
<1> DEFINE Late == {"route", "healthcheck"}
           Any == {"apply", "route", "healthcheck"}
<1>1. /\ ChangesOwed /\ RowPlace /\ JobPlace /\ JobFiles
      /\ job \in Job /\ job.stage \in Stage
      /\ specs \in [Apps -> Specs \cup {NoSpec}]
  BY DEF FilesInv, LockInv, TypeOK, StoreTypeOK, Job
<1>2. ~Wrecked(a)
  BY WreckedSame, FinishWrecks
<1>3. (UnitKept(a) \/ Owed(a, Any)) /\ (RouteKept(a) \/ Owed(a, Late))
  BY <1>1, <1>2 DEF ChangesOwed
<1>4. CASE Finish \/ Refuse
  <2>1. host' = host /\ specs' = specs /\ AtWork /\ pc # "begin" /\ pc \in {"finish", "refuse"}
    BY <1>4 DEF Finish, Refuse, StoreStep, AtWork
  <2>2. (UnitKept(a)' <=> UnitKept(a)) /\ (RouteKept(a)' <=> RouteKept(a))
    BY <2>1 DEF UnitKept, RouteKept
  <2>3. ASSUME a = job.app
        PROVE  /\ job.stage \in Any => UnitKept(a)
               /\ job.stage \in Late => RouteKept(a)
    <3>1. CASE pc = "finish"
      <4>1. Finish
        BY <1>4, <3>1 DEF Refuse, StoreStep
      <4>2. job.outcome # "failed"
        BY <2>3, <4>1, FinishWrecks
      <4> QED
        BY <1>1, <2>3, <3>1, <4>2, FinishKept DEF Untouched
    <3>2. CASE pc = "refuse"
      <4>1. job.stage = "detect"
        BY <2>1, <3>2 DEF LogInv, JobLogged, LockInv, SpecsKnown, Forward
      <4> QED
        BY <4>1
    <3> QED
      BY <2>1, <3>1, <3>2
  <2>4. UnitKept(a) \/ Owed(a, Any)'
    BY <1>1, <1>3, <2>3, OwedStays
  <2>5. RouteKept(a) \/ Owed(a, Late)'
    BY <1>1, <1>3, <2>3, OwedStays
  <2> QED
    BY <2>2, <2>4, <2>5
<1>5. CASE RecordSpec
  <2>1. /\ AtWork /\ pc = "put_spec" /\ InRun /\ host' = host
        /\ specs' = [specs EXCEPT ![job.app] = job.spec]
        /\ ~Finish /\ ~Refuse
    BY <1>5 DEF RecordSpec, StoreStep, PutSpec, AtWork, InRun, InStages, Finish, Refuse
  <2>2. CASE a = job.app
    <3>1. job.stage = "healthcheck" /\ ~job.undo /\ job.spec # NoSpec
      BY <1>1, <2>1, RunFacts DEF JobPlace, Forward
    <3>2. specs'[a] = job.spec /\ host'[a] = Me
      BY <1>1, <2>1, <2>2 DEF Me
    <3> QED
      BY <1>1, <2>1, <2>2, <3>1, <3>2 DEF JobFiles, FilesForward, UnitKept, RouteKept, Me
  <2>3. CASE a # job.app
    <3>1. (UnitKept(a)' <=> UnitKept(a)) /\ (RouteKept(a)' <=> RouteKept(a))
      BY <1>1, <2>1, <2>3 DEF UnitKept, RouteKept
    <3>2. /\ Owed(a, Any) => Owed(a, Any)'
          /\ Owed(a, Late) => Owed(a, Late)'
      BY <1>1, <2>1, OwedStays
    <3> QED
      BY <1>3, <3>1, <3>2
  <2> QED
    BY <2>2, <2>3
<1>6. CASE ~Finish /\ ~Refuse /\ ~RecordSpec
  <2>1. specs' = specs
    BY <1>6
    DEF Next, Step, DeployStep, HostAction, Failure, Submit, Acquire, LockBusy, LoadPrevious,
       BeginStage, EmitStarted, EarlyStage, Healthy, EmitSucceeded, EmitFailed,
       Release, WriteUnit, DaemonReload, StartUnit, NothingToRemove, StopUnit, DeleteUnit,
       Unload, WriteFragment, ReloadCaddy, Refused, HostStepFails, StoreStepFails,
       Crash, StartReconcile, NextRow, FinishReconcile, HostStep, CreateDeploy, storeVars, vars
  <2>2. /\ Owed(a, Any) => Owed(a, Any)'
        /\ Owed(a, Late) => Owed(a, Late)'
    BY <1>1, <1>6, OwedStays
  <2>3. UnitKept(a) => UnitKept(a)' \/ Owed(a, Any)
    <3>1. CASE host'[a].unit = host[a].unit /\ host'[a].loaded = host[a].loaded
      BY <2>1, <3>1 DEF UnitKept
    <3>2. CASE ~(host'[a].unit = host[a].unit /\ host'[a].loaded = host[a].loaded)
      <4>1. pc \in HostPc /\ a = job.app /\ job.stage \in Any
        BY <1>1, <3>2, Touches
      <4> QED
        BY <1>1, <4>1, JobOwes DEF AtWork, HostPc
    <3> QED
      BY <3>1, <3>2
  <2>4. RouteKept(a) => RouteKept(a)' \/ Owed(a, Late)
    <3>1. CASE host'[a].fragment = host[a].fragment /\ host'[a].served = host[a].served
      BY <2>1, <3>1 DEF RouteKept
    <3>2. CASE ~(host'[a].fragment = host[a].fragment /\ host'[a].served = host[a].served)
      <4>1. pc \in HostPc /\ a = job.app /\ job.stage \in Late
        BY <1>1, <3>2, Touches
      <4> QED
        BY <1>1, <4>1, JobOwes DEF AtWork, HostPc
    <3> QED
      BY <3>1, <3>2
  <2> QED
    BY <1>3, <2>2, <2>3, <2>4
<1> QED
  BY <1>4, <1>5, <1>6

\* FilesInv holds next to LockInv and LogInv, whatever fails and wherever the
\* process dies.
LEMMA FilesInvHolds ==
  ASSUME RoutesKept
  PROVE  Spec => [](LockInv /\ LogInv /\ FilesInv)
<1>1. Init => FilesInv
  <2> SUFFICES ASSUME Init PROVE FilesInv
    OBVIOUS
  <2>1. ~InRun /\ ~AtWork
    BY DEF Init, InRun, HostPc, InStages, AtWork
  <2>2. \A a \in Apps : /\ specs[a] = NoSpec /\ host[a].unit \in {None, Unowned}
                        /\ host[a].fragment \in {None, Unowned}
    BY DEF Init, StoreInit
  <2> QED
    BY <2>1, <2>2 DEF FilesInv, ChangesOwed, RowPlace, JobPlace, JobFiles, UnitKept, RouteKept
<1>2. LockInv /\ LogInv /\ FilesInv /\ [Next]_vars => FilesInv'
  BY ChangesOwedNext, RowPlaceNext, JobPlaceNext, JobFilesNext DEF FilesInv
<1> QED
  BY <1>1, <1>2, LogInvHolds, PTL DEF Spec

\* With no attempt under way and none ever `failed`, the files are those of the
\* last good spec, and systemd and Caddy have read them, whichever commands
\* failed, whichever writes were torn and wherever the process died; provided
\* that no spec clears the route (run.rs:388-470, reconcile.rs:19-74).
THEOREM FilesStayLastGood ==
  ASSUME RoutesKept
  PROVE  Spec => []FilesLastGood
<1>1. LockInv /\ LogInv /\ FilesInv => FilesLastGood
  <2> SUFFICES ASSUME ChangesOwed, NEW a \in Apps, Quiet(a), ~Wrecked(a)
               PROVE  UnitKept(a) /\ RouteKept(a)
    BY DEF FilesInv, FilesLastGood, UnitKept, RouteKept
  <2> QED
    BY DEF ChangesOwed, Quiet, Owed
<1> QED
  BY <1>1, FilesInvHolds, PTL
==============================================================================

-------------------------------- MODULE Daemon --------------------------------
(***************************************************************************)
(* Who may deploy when: the daemon's request handlers and background tasks *)
(* (crates/daemon/src/api.rs, hooks.rs, lib.rs), the CLI running a deploy  *)
(* or a recovery in its own process (crates/cli/src/main.rs), and the      *)
(* recovery every daemon start performs, all over one DeployStore.         *)
(*                                                                         *)
(* Three guards meet here: trigger_lock, a mutex held by a handler from    *)
(* its first check to its spawn; deploy_slot, the one permit under which   *)
(* the daemon's tasks run stages; and the store's per-app lock, the only   *)
(* one another process can see.  Each store call is a step.                *)
(*                                                                         *)
(* A thread is a request from its arrival to the end of the task it        *)
(* spawns, or a CLI process.  Of the engine (module DeployEngine) it keeps *)
(* the store calls and whether the host is being changed; stage events     *)
(* stay out of the log here, endings go in.                                *)
(***************************************************************************)
EXTENDS DeployStore

CONSTANTS
    Threads,      \* requests and processes alive at once
    Nobody,       \* no thread
    RepoPath,     \* per app: the checkout it is registered with
    Pipeline,     \* the stages an attempt runs, in order
    Kinds,        \* what may start: subset of ThreadKind
    MaxCrashes,   \* bound: deaths of the daemon or of a CLI process
    Disconnects,  \* BOOLEAN: clients may hang up on a running handler
    Careful       \* BOOLEAN: recoveries and local deploys are kept apart

ThreadKind == {"button", "hook", "reconcile_api", "boot", "cli", "cli_reconcile"}

DaemonKind == {"button", "hook", "reconcile_api", "boot"}

ASSUME DaemonAssumption ==
    /\ Nobody \notin Threads
    /\ Apps # {}
    /\ Kinds \subseteq ThreadKind
    /\ Pipeline \in Seq(Stage) /\ Pipeline # <<>>
    /\ MaxCrashes \in Nat
    /\ Disconnects \in BOOLEAN
    /\ Careful \in BOOLEAN
    /\ 1..MaxDeploys \subseteq Specs    \* a spec is named by its attempt

VARIABLES
    daemon,       \* is the daemon process there, and does it listen yet
    th,           \* the threads' locals
    trigger,      \* who holds trigger_lock
    slot,         \* who holds the permit of deploy_slot
    crashes       \* crashes so far

vars == <<deploys, locks, specs, events, daemon, th, trigger, slot, crashes>>

------------------------------------------------------------------------------
Work == [id : 1..MaxDeploys, stage : Stage]

Place == {"idle", "lock", "check", "record", "create", "acquire", "refuse", "give_up",
          "git", "slot", "begin", "stage", "undo", "put_spec", "finish", "release",
          "snapshot", "next_row"}

Thread == [kind : ThreadKind,
           pc : Place,
           app : Apps,
           id : 0..MaxDeploys,
           step : 1..Len(Pipeline),            \* position in Pipeline
           outcome : Terminal,
           todo : SUBSET Work]                 \* rows read by reconcile

IdleThread == [kind |-> "button", pc |-> "idle", app |-> CHOOSE a \in Apps : TRUE,
               id |-> NoDeploy, step |-> 1, outcome |-> "done", todo |-> {}]

Init ==
    /\ StoreInit
    /\ daemon \in {"down", "up"}
    /\ th = [t \in Threads |-> IdleThread]
    /\ trigger = Nobody
    /\ slot = Nobody
    /\ crashes = 0

------------------------------------------------------------------------------
Idle(t) == th[t].pc = "idle"

At(t, pc) == th[t].pc = pc

Goto(t, pc) == th' = [th EXCEPT ![t].pc = pc]

\* Mutant: the task ends with its permit.
QuitHoldingPermit(t) ==
    /\ th' = [th EXCEPT ![t] = IdleThread]
    /\ trigger' = IF trigger = t THEN Nobody ELSE trigger
    /\ UNCHANGED slot

\* The thread is over, and with it its hold on the mutex and the permit.
Quit(t) ==
    /\ th' = [th EXCEPT ![t] = IdleThread]
    /\ trigger' = IF trigger = t THEN Nobody ELSE trigger
    /\ slot' = IF slot = t THEN Nobody ELSE slot

Untouched == {"detect", "build", "secrets"}

Running(t) == Pipeline[th[t].step]

IsReconcile(t) == th[t].kind \in {"reconcile_api", "boot", "cli_reconcile"}

Same == UNCHANGED <<daemon, crashes>>

Keep == UNCHANGED <<daemon, trigger, slot, crashes>>

StoreSame == UNCHANGED storeVars

------------------------------------------------------------------------------
(* Arrivals *)

\* The bound on rows leaves room for the row of every thread yet to create one.
Creating(t) == th[t].pc \in {"lock", "check", "record", "create"}

Room == Len(deploys) + Cardinality({t \in Threads : Creating(t)}) < MaxDeploys

Start(t, kind, app, pc) ==
    /\ Idle(t)
    /\ kind \in Kinds
    /\ th' = [th EXCEPT ![t] = [IdleThread EXCEPT !.kind = kind, !.app = app, !.pc = pc]]
    /\ StoreSame
    /\ UNCHANGED <<trigger, slot, crashes>>

\* start_deploy and dispatch_push begin by waiting for trigger_lock.
Request(t, app) ==
    /\ daemon = "up" /\ Room
    /\ Start(t, "button", app, "lock") \/ Start(t, "hook", app, "lock")
    /\ UNCHANGED daemon

\* reconcile_api waits for the deploy slot.
AskReconcile(t, app) ==
    /\ daemon = "up"
    /\ Start(t, "reconcile_api", app, "slot")
    /\ UNCHANGED daemon

\* The CLI's reconcile "is only correct to use when no daemon runs"
\* (api.rs:376-377), and by the same reasoning when no CLI deploys; so is a
\* daemon's own.  A careful operator sees to it.
NoLocalDeploy == \A t \in Threads : ~Idle(t) => th[t].kind # "cli"

NobodyRecovers == \A t \in Threads : ~Idle(t) => ~IsReconcile(t)

\* The CLI deploys by itself when no daemon answers, and, daemon or not, when
\* it was given --root or cannot run curl.
CliDeploy(t, app) ==
    /\ Room
    /\ Careful => NobodyRecovers
    /\ Start(t, "cli", app, "create")
    /\ UNCHANGED daemon

CliReconcile(t, app) ==
    /\ Careful => daemon = "down" /\ NoLocalDeploy /\ NobodyRecovers
    /\ Start(t, "cli_reconcile", app, "snapshot")
    /\ UNCHANGED daemon

\* serve: reconcile first, listen after.
Boot(t, app) ==
    /\ daemon = "down"
    /\ Careful => NoLocalDeploy /\ NobodyRecovers
    /\ Start(t, "boot", app, "snapshot")
    /\ daemon' = "booting"

------------------------------------------------------------------------------
(* Handlers *)

TakeTrigger(t) ==
    /\ At(t, "lock")
    /\ trigger = Nobody
    /\ trigger' = t
    /\ Goto(t, "check")
    /\ StoreSame /\ UNCHANGED <<daemon, slot, crashes>>

\* Mutant: the durable row does not keep others out.
NeverBusy(app) == FALSE

AppBusy(app) == \E d \in InProgressDeploys : deploys[d].app = app

\* ensure_not_busy: a button is answered 409, a hook records its refusal.
EnsureNotBusy(t) ==
    /\ At(t, "check")
    /\ IF ~AppBusy(th[t].app) THEN Goto(t, "create") /\ UNCHANGED <<trigger, slot>>
       ELSE IF th[t].kind = "hook" THEN Goto(t, "record") /\ UNCHANGED <<trigger, slot>>
       ELSE Quit(t)
    /\ StoreSame /\ Same

\* No such app, a push that is not a branch's, a spec that cannot be used: the
\* request is over before it has a row.
TurnAway(t) == At(t, "check") /\ Quit(t) /\ StoreSame /\ Same

\* record_refusal: a row of its own, ended at once by finish_attempt.
RecordRefusal(t) ==
    /\ At(t, "record")
    /\ CreateDeploy(th[t].app)
    /\ th' = [th EXCEPT ![t].id = Len(deploys) + 1, ![t].pc = "give_up"]
    /\ UNCHANGED <<locks, specs>> /\ Keep

\* Mutant: the attempt is dropped without an ending.
GiveUpSilently(t) ==
    /\ At(t, "give_up")
    /\ Quit(t)
    /\ StoreSame /\ Same

\* finish_attempt: failed, with an event.
GiveUp(t) ==
    /\ At(t, "give_up")
    /\ FinishDeployWithEvent(th[t].id, "failed")
    /\ Quit(t)
    /\ UNCHANGED specs /\ Same

\* reserve, first half.
Create(t) ==
    /\ At(t, "create")
    /\ CreateDeploy(th[t].app)
    /\ th' = [th EXCEPT ![t].id = Len(deploys) + 1, ![t].pc = "acquire"]
    /\ UNCHANGED <<locks, specs>> /\ Keep

\* A button spawns its task and lets go of the mutex; a hook goes to git with
\* the mutex in hand; a CLI process runs the stages there and then.
Acquire(t) ==
    /\ At(t, "acquire")
    /\ AcquireLock(th[t].app, th[t].id)
    /\ \/ th[t].kind = "button" /\ Goto(t, "slot") /\ trigger' = Nobody
       \/ th[t].kind = "hook" /\ Goto(t, "git") /\ UNCHANGED trigger
       \/ th[t].kind = "cli" /\ Goto(t, "begin") /\ UNCHANGED trigger
    /\ UNCHANGED <<deploys, specs, events, slot>> /\ Same

LockBusy(t) ==
    /\ At(t, "acquire")
    /\ LockHeld(th[t].app)
    /\ Goto(t, "refuse")
    /\ StoreSame /\ Keep

\* The refused row ends without an event; a hook then adds one.
Refuse(t) ==
    /\ At(t, "refuse")
    /\ FinishDeploy(th[t].id, "failed")
    /\ IF th[t].kind = "hook" THEN Goto(t, "give_up") /\ UNCHANGED <<trigger, slot>>
       ELSE Quit(t)
    /\ UNCHANGED <<locks, specs, events>> /\ Same

\* Branch read, fetch, reset and the spec: all done, and the task is spawned.
GitDone(t) ==
    /\ At(t, "git")
    /\ Goto(t, "slot")
    /\ trigger' = Nobody
    /\ StoreSame /\ UNCHANGED <<daemon, slot, crashes>>

\* Another branch, a git failure or timeout, an unusable spec.
GitFails(t) ==
    /\ At(t, "git")
    /\ Goto(t, "give_up")
    /\ StoreSame /\ Keep

\* Mutant: nobody waits for the permit.
EnterSlotTogether(t) ==
    /\ At(t, "slot")
    /\ slot' = t
    /\ Goto(t, IF IsReconcile(t) THEN "snapshot" ELSE "begin")
    /\ StoreSame /\ UNCHANGED <<daemon, trigger, crashes>>

EnterSlot(t) ==
    /\ At(t, "slot")
    /\ slot = Nobody
    /\ slot' = t
    /\ Goto(t, IF IsReconcile(t) THEN "snapshot" ELSE "begin")
    /\ StoreSame /\ UNCHANGED <<daemon, trigger, crashes>>

------------------------------------------------------------------------------
(* run_reserved *)

Begin(t) ==
    /\ At(t, "begin")
    /\ AdvanceStage(th[t].id, Running(t))
    /\ Goto(t, "stage")
    /\ UNCHANGED <<locks, specs, events>> /\ Keep

\* Somebody else ended the row: advance_stage errs, the lock is let go.
BeginStale(t) ==
    /\ At(t, "begin")
    /\ ~InProgress(th[t].id)
    /\ Goto(t, "release")
    /\ StoreSame /\ Keep

StageDone(t) ==
    /\ At(t, "stage")
    /\ IF th[t].step < Len(Pipeline)
       THEN th' = [th EXCEPT ![t].step = @ + 1, ![t].pc = "begin"]
       ELSE Goto(t, "put_spec")
    /\ StoreSame /\ Keep

StageFails(t) ==
    /\ At(t, "stage")
    /\ th' = [th EXCEPT ![t].outcome = "rolled_back",
                        ![t].pc = IF Running(t) \in Untouched THEN "finish" ELSE "undo"]
    /\ StoreSame /\ Keep

Compensate(t) ==
    /\ At(t, "undo")
    /\ \E result \in {"rolled_back", "failed"} :
         th' = [th EXCEPT ![t].outcome = result, ![t].pc = "finish"]
    /\ StoreSame /\ Keep

RecordSpec(t) ==
    /\ At(t, "put_spec")
    /\ PutSpec(th[t].app, th[t].id)
    /\ Goto(t, "finish")
    /\ UNCHANGED <<deploys, locks, events>> /\ Keep

Finish(t) ==
    /\ At(t, "finish")
    /\ FinishDeployWithEvent(th[t].id, th[t].outcome)
    /\ Goto(t, "release")
    /\ UNCHANGED specs /\ Keep

Release(t) ==
    /\ At(t, "release")
    /\ ReleaseLock(th[t].app)
    /\ IF IsReconcile(t) THEN Goto(t, "next_row") /\ UNCHANGED <<trigger, slot>>
       ELSE Quit(t)
    /\ UNCHANGED <<deploys, specs, events>> /\ Same

------------------------------------------------------------------------------
(* reconcile *)

\* Id and stage of every unfinished row, read once.
Snapshot(t) ==
    /\ At(t, "snapshot")
    /\ th' = [th EXCEPT
         ![t].todo = {[id |-> d, stage |-> deploys[d].stage] : d \in InProgressDeploys},
         ![t].pc = "next_row"]
    /\ StoreSame /\ Keep

NextRow(t) ==
    /\ At(t, "next_row")
    /\ \E row \in th[t].todo :
         /\ \A other \in th[t].todo : row.id <= other.id
         /\ th' = [th EXCEPT
              ![t].todo = @ \ {row},
              ![t].id = row.id,
              ![t].app = deploys[row.id].app,
              ![t].outcome = "rolled_back",
              ![t].pc = IF row.stage \in Untouched THEN "finish" ELSE "undo"]
    /\ StoreSame /\ Keep

FinishReconcile(t) ==
    /\ At(t, "next_row")
    /\ th[t].todo = {}
    /\ ReleaseOrphanedLocks
    /\ daemon' = IF th[t].kind = "boot" THEN "up" ELSE daemon
    /\ Quit(t)
    /\ UNCHANGED <<deploys, specs, events, crashes>>

------------------------------------------------------------------------------
(* The environment *)

\* The daemon dies, with every thread in it and both guards.
DaemonDies ==
    /\ daemon # "down"
    /\ crashes < MaxCrashes
    /\ crashes' = crashes + 1
    /\ daemon' = "down"
    /\ th' = [t \in Threads |-> IF th[t].kind \in DaemonKind THEN IdleThread ELSE th[t]]
    /\ trigger' = Nobody
    /\ slot' = Nobody
    /\ StoreSame

CliDies(t) ==
    /\ ~Idle(t)
    /\ th[t].kind \notin DaemonKind
    /\ crashes < MaxCrashes
    /\ crashes' = crashes + 1
    /\ Quit(t)
    /\ StoreSame /\ UNCHANGED daemon

\* A handler whose client hangs up is dropped where it awaits: the mutex, git,
\* or, for reconcile_api, the slot and the commands that compensate.
Disconnect(t) ==
    /\ Disconnects
    /\ \/ At(t, "lock")
       \/ At(t, "git")
       \/ th[t].kind = "reconcile_api" /\ th[t].pc \in {"slot", "undo"}
    /\ Quit(t)
    /\ StoreSame /\ Same

------------------------------------------------------------------------------
Arrive(t, app) ==
    \/ Request(t, app) \/ AskReconcile(t, app) \/ CliDeploy(t, app)
    \/ CliReconcile(t, app) \/ Boot(t, app)

\* What a thread does of its own accord.
Proceed(t) ==
    \/ EnsureNotBusy(t) \/ TurnAway(t) \/ RecordRefusal(t) \/ GiveUp(t)
    \/ Create(t) \/ Acquire(t) \/ LockBusy(t) \/ Refuse(t) \/ GitDone(t) \/ GitFails(t)
    \/ Begin(t) \/ BeginStale(t) \/ StageDone(t) \/ StageFails(t)
    \/ Compensate(t) \/ RecordSpec(t) \/ Finish(t) \/ Release(t)
    \/ Snapshot(t) \/ NextRow(t) \/ FinishReconcile(t)

\* What it has to wait its turn for.
GetsTurn(t) == TakeTrigger(t) \/ EnterSlot(t)

ThreadStep(t) ==
    \/ \E app \in Apps : Arrive(t, app)
    \/ GetsTurn(t) \/ Proceed(t)
    \/ CliDies(t) \/ Disconnect(t)

Next == DaemonDies \/ \E t \in Threads : ThreadStep(t)

Spec == Init /\ [][Next]_vars

\* Commands end (each has a timeout or is the operator's to kill), and tokio's
\* mutex and semaphore serve their waiters in order, so none waits forever.
FairSpec ==
    /\ Spec
    /\ \A t \in Threads : WF_vars(Proceed(t)) /\ SF_vars(GetsTurn(t))

------------------------------------------------------------------------------
(* Invariants *)

\* Every variable keeps its type.
TypeOK ==
    /\ StoreTypeOK
    /\ daemon \in {"down", "booting", "up"}
    /\ th \in [Threads -> Thread]
    /\ \A t \in Threads : th[t].id <= Len(deploys)
    /\ trigger \in Threads \cup {Nobody}
    /\ slot \in Threads \cup {Nobody}
    /\ crashes \in 0..MaxCrashes

\* A lock is held for an unfinished attempt of its app, under every
\* interleaving of handlers, tasks and processes.
LockHolderLive ==
    \A a \in Apps : LockHeld(a) =>
        /\ deploys[locks[a]].app = a
        /\ InProgress(locks[a])

Endings(d) == {i \in DOMAIN events[d] : events[d][i].stage = "deploy"}

\* A row and its log agree about the ending: none while in progress, and one,
\* naming the row's status, after; a refused row may have none (yet).
RowAgrees(d) ==
    IF InProgress(d) THEN Endings(d) = {}
    ELSE \/ deploys[d].status = "failed" /\ Endings(d) = {}
         \/ \E i \in DOMAIN events[d] : /\ Endings(d) = {i}
                                      /\ events[d][i].status = deploys[d].status

RowLogAgree == \A d \in DeployIds : RowAgrees(d)

\* Between Apply and the end of its compensation an attempt, or a recovery on
\* its behalf, is writing the app's unit and route.
Writing(t) ==
    \/ At(t, "undo")
    \/ At(t, "stage") /\ Running(t) \notin Untouched

\* Two writers never meet on one app.
OneWriterPerApp ==
    \A t, u \in Threads : t # u /\ Writing(t) /\ Writing(u) => th[t].app # th[u].app

\* Nothing in register_app keeps two apps off one checkout.
CheckoutsOwned == \A a, b \in Apps : RepoPath[a] = RepoPath[b] => a = b

\* No hook fetches into or resets a checkout that a running deploy is reading,
\* or that another hook is at work on (hooks.rs:176-190, state.rs:31-34).  The
\* row that keeps it off names an app, not a checkout: it takes CheckoutsOwned.
CheckoutExclusive ==
    \A t, u \in Threads :
        t # u /\ At(t, "git") /\ th[u].pc \in {"git", "stage"} =>
            RepoPath[th[t].app] # RepoPath[th[u].app]

\* The last good spec is never older than a successful attempt: a rollback
\* to it cannot bring back a version that a later deploy had replaced.
LastGoodIsNewest ==
    \A d \in DeployIds :
        deploys[d].status = "done" =>
            LET good == specs[deploys[d].app] IN good # NoSpec /\ d <= good

\* An attempt that was admitted and has not ended.
Admitted(t) ==
    /\ ~IsReconcile(t)
    /\ th[t].pc \in {"git", "slot", "begin", "stage", "undo", "put_spec", "finish"}

\* A recovery never rolls back an attempt that is still alive.
OnlyStrandedReconciled ==
    \A r, t \in Threads :
        IsReconcile(r) /\ th[r].pc \in {"undo", "finish"} /\ Admitted(t) =>
            th[t].id # th[r].id

\* What deploy_slot buys inside the daemon: a recovery asked for through the
\* API never touches an attempt one of whose stages is running.
RunningNotReconciled ==
    \A r, t \in Threads :
        /\ IsReconcile(r) /\ th[r].pc \in {"undo", "finish"}
        /\ ~IsReconcile(t) /\ th[t].pc \in {"stage", "undo", "put_spec"}
        => th[t].id # th[r].id

------------------------------------------------------------------------------
(* What makes them inductive: GuardInv, for the daemon by itself, and         *)
(* LedgerInv, for careful operators.  BaseInv is what both begin with.        *)

\* Where a thread of each kind can be.
Reserving == {"create", "acquire", "refuse"}
Deploying == {"begin", "stage", "undo", "put_spec", "finish", "release"}
Recovering == {"snapshot", "next_row", "undo", "finish", "release"}

PlaceKept(t) ==
    /\ ~Idle(t) => th[t].kind \in Kinds
    /\ \/ /\ th[t].kind = "button"
          /\ th[t].pc \in {"idle", "lock", "check", "slot"} \cup Reserving \cup Deploying
       \/ /\ th[t].kind = "hook"
          /\ th[t].pc \in {"lock", "check", "record", "give_up", "git", "slot"}
                             \cup Reserving \cup Deploying
       \/ th[t].kind = "cli" /\ th[t].pc \in Reserving \cup Deploying
       \/ th[t].kind = "reconcile_api" /\ th[t].pc \in {"slot"} \cup Recovering
       \/ th[t].kind \in {"boot", "cli_reconcile"} /\ th[t].pc \in Recovering

PlacesKept == \A t \in Threads : PlaceKept(t)

\* From its first check to its spawn, or to its refusal, a handler holds the
\* mutex.
NeedsMutex(t) ==
    \/ th[t].pc \in {"check", "record", "give_up", "git"}
    \/ th[t].pc \in Reserving /\ th[t].kind # "cli"

MutexHeld == \A t \in Threads : NeedsMutex(t) => trigger = t

\* A task, or a recovery asked for through the API, that has got past the slot
\* holds it.
NeedsSlot(t) ==
    /\ th[t].kind \in {"button", "hook", "reconcile_api"}
    /\ th[t].pc \in Deploying \cup Recovering

SlotHeld == \A t \in Threads : NeedsSlot(t) => slot = t

\* The daemon serves nobody before its own recovery is over.
ServingKnown ==
    \A t \in Threads : ~Idle(t) =>
        /\ th[t].kind \in {"button", "hook", "reconcile_api"} => daemon = "up"
        /\ th[t].kind = "boot" =>
             /\ daemon = "booting"
             /\ \A u \in Threads : ~Idle(u) /\ th[u].kind = "boot" => u = t

\* A thread that works for a row.
HasRow(t) ==
    \/ th[t].pc \in {"acquire", "refuse", "give_up", "git"} \cup Deploying
    \/ th[t].pc = "slot" /\ ~IsReconcile(t)

RowOwned(t) ==
    /\ HasRow(t) => th[t].id \in DeployIds /\ deploys[th[t].id].app = th[t].app
    /\ \A row \in th[t].todo : row.id \in DeployIds

RowsOwned == \A t \in Threads : RowOwned(t)

\* No two requests share a row.
OwnsRow(t) == HasRow(t) /\ ~IsReconcile(t)

IdsDistinct ==
    \A t, u \in Threads : t # u /\ OwnsRow(t) /\ OwnsRow(u) => th[t].id # th[u].id

BaseInv ==
    /\ TypeOK
    /\ PlacesKept
    /\ MutexHeld
    /\ SlotHeld
    /\ ServingKnown
    /\ RowsOwned
    /\ IdsDistinct

\* An attempt that has been let in and that no recovery has ended.  A handler
\* that still holds the mutex counts even then: nobody was let in after it.
Current(t) ==
    /\ ~IsReconcile(t)
    /\ \/ th[t].pc \in {"create", "acquire", "git"}
       \/ /\ th[t].pc \in {"slot", "begin", "stage", "undo", "put_spec", "finish"}
          /\ InProgress(th[t].id)

\* An attempt at work has an unfinished row: what could end it under its hands
\* waits for the slot.
WorkIsLive ==
    \A t \in Threads :
        ~IsReconcile(t) /\ th[t].pc \in {"stage", "undo", "put_spec", "finish"}
        => InProgress(th[t].id)

OnePerApp ==
    \A t, u \in Threads :
        t # u /\ Current(t) /\ Current(u) => th[t].app # th[u].app

\* No attempt that came later has overtaken a current one.
NotOvertaken ==
    \A t \in Threads : Current(t) /\ th[t].pc # "create" =>
        \A d \in DeployIds :
            d > th[t].id /\ deploys[d].app = th[t].app => deploys[d].status # "done"

\* Whoever is about to end well has its spec recorded.
DoneIsRecorded ==
    \A t \in Threads : At(t, "finish") /\ th[t].outcome = "done" =>
        ~IsReconcile(t) /\ specs[th[t].app] = th[t].id

\* Inductive when the daemon is the only one at work.
GuardInv ==
    /\ BaseInv
    /\ WorkIsLive
    /\ OnePerApp
    /\ NotOvertaken
    /\ DoneIsRecorded
    /\ LastGoodIsNewest

\* A careful recovery has the store to itself.
RecoveryAlone ==
    \A r \in Threads : ~Idle(r) /\ IsReconcile(r) =>
        /\ daemon # "up"
        /\ th[r].kind = "cli_reconcile" => daemon = "down"
        /\ \A t \in Threads : t # r => Idle(t)

\* The row a thread works for is unfinished until the thread ends it.  A hook
\* that was refused ends it twice, the second time with its event.
RowOpen(t) ==
    HasRow(t) /\ ~At(t, "release") =>
        /\ InProgress(th[t].id) \/ (At(t, "give_up") /\ deploys[th[t].id].status = "failed")
        /\ Endings(th[t].id) = {}

RowsOpen == \A t \in Threads : RowOpen(t)

\* So are the rows a recovery, and nobody else, has read and not come to.
TodoOpen(t) ==
    /\ th[t].todo # {} => ~Idle(t) /\ IsReconcile(t)
    /\ \A row \in th[t].todo :
         /\ InProgress(row.id)
         /\ HasRow(t) => row.id # th[t].id
         /\ \A other \in th[t].todo : row.id = other.id => row = other

TodosOpen == \A t \in Threads : TodoOpen(t)

\* An attempt that has not been let in holds no lock.
NothingHeld(t) ==
    th[t].pc \in {"acquire", "refuse"} => \A a \in Apps : locks[a] # th[t].id

NothingHeldYet == \A t \in Threads : NothingHeld(t)

\* Inductive when nobody recovers beside a living attempt.
LedgerInv ==
    /\ BaseInv
    /\ RecoveryAlone
    /\ RowsOpen
    /\ TodosOpen
    /\ NothingHeldYet
    /\ LockHolderLive
    /\ RowLogAgree

------------------------------------------------------------------------------
(* Liveness properties *)

\* Every row that was created ends.
EveryAttemptEnds ==
    \A d \in 1..MaxDeploys :
        d \in DeployIds ~> (d \in DeployIds /\ ~InProgress(d))

\* Every request gets past trigger_lock, however long hooks hold it for git,
\* and every thread comes to an end: nobody waits for the slot forever.
EveryThreadEnds == \A t \in Threads : ~Idle(t) ~> Idle(t)
==============================================================================

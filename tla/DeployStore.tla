----------------------------- MODULE DeployStore -----------------------------
(***************************************************************************)
(* The SQLite store of crates/core/src/store/mod.rs: the tables a deploy   *)
(* reads and writes, and one operator per store method.                    *)
(*                                                                         *)
(* Every method locks the connection for its whole duration, and SQLite    *)
(* serialises writers of different processes, so one method is one atomic  *)
(* step; two methods called in a row are two steps.  The operators below   *)
(* are conjuncts for the actions of the modules that extend this one: each *)
(* leaves every table it does not prime to its caller's UNCHANGED.         *)
(*                                                                         *)
(* Ids are the AUTOINCREMENT keys: the position of a row in the table.  An *)
(* event's id is abstracted to its position in its own deploy's log, which *)
(* keeps the order `events_for` returns.                                   *)
(***************************************************************************)
EXTENDS Naturals, Sequences, FiniteSets

CONSTANTS
    Apps,         \* application names
    Specs,        \* resolved workload specs, as stored in apps.spec_json
    NoSpec,       \* "no row in apps"
    MaxDeploys    \* bound: rows the deploys table may grow to

ASSUME StoreAssumption ==
    /\ NoSpec \notin Specs
    /\ MaxDeploys \in Nat

VARIABLES
    deploys,      \* table deploys: one row per attempt, in id order
    locks,        \* table locks: the deploy id holding an app's lock, or 0
    specs,        \* table apps: the current (last good) spec of an app
    events        \* table events, grouped by deploy id

storeVars == <<deploys, locks, specs, events>>

------------------------------------------------------------------------------
StageOrder == <<"detect", "build", "secrets", "apply", "route", "healthcheck">>

Stage == {"detect", "build", "secrets", "apply", "route", "healthcheck"}

Terminal == {"done", "rolled_back", "failed"}

DeployStatus == {"in_progress"} \cup Terminal

\* The stage column holds "deploy" for the deploy-level event.
Event == [stage : Stage, status : {"started", "succeeded", "failed"}]
           \cup [stage : {"deploy"}, status : Terminal]

DeployRow == [app : Apps, stage : Stage, status : DeployStatus]

NoDeploy == 0

DeployIds == 1..Len(deploys)

StoreTypeOK ==
    /\ deploys \in Seq(DeployRow)
    /\ Len(deploys) <= MaxDeploys
    /\ locks \in [Apps -> 0..Len(deploys)]
    /\ specs \in [Apps -> Specs \cup {NoSpec}]
    /\ events \in Seq(Seq(Event))
    /\ Len(events) = Len(deploys)

StoreInit ==
    /\ deploys = <<>>
    /\ locks = [a \in Apps |-> NoDeploy]
    /\ specs = [a \in Apps |-> NoSpec]
    /\ events = <<>>

------------------------------------------------------------------------------
InProgress(d) == deploys[d].status = "in_progress"

\* Mutant: the query forgets its condition on the status.
AllDeploys == DeployIds

\* Mutant: only rows that went past their first stage.
StartedDeploys == {d \in DeployIds : InProgress(d) /\ deploys[d].stage # "detect"}

InProgressDeploys == {d \in DeployIds : InProgress(d)}

LockHeld(a) == locks[a] # NoDeploy

CreateDeploy(a) ==
    /\ Len(deploys) < MaxDeploys
    /\ deploys' = Append(deploys,
                    [app |-> a, stage |-> "detect", status |-> "in_progress"])
    /\ events' = Append(events, <<>>)

\* Only an in-progress row moves; the method errs on any other.
AdvanceStage(d, s) ==
    /\ InProgress(d)
    /\ deploys' = [deploys EXCEPT ![d].stage = s]

\* The UPDATE has no condition on the status the row already has.
FinishDeploy(d, status) ==
    deploys' = [deploys EXCEPT ![d].status = status]

AppendEvent(d, s, status) ==
    events' = [events EXCEPT ![d] =
                 Append(@, [stage |-> s, status |-> status])]

\* Mutant: the transaction forgets the lock.
FinishKeepingLock(d, status) ==
    /\ FinishDeploy(d, status)
    /\ AppendEvent(d, "deploy", status)
    /\ UNCHANGED locks

\* Mutant: the transaction forgets the event.
FinishWithoutEvent(d, status) ==
    /\ FinishDeploy(d, status)
    /\ locks' = [a \in Apps |-> IF locks[a] = d THEN NoDeploy ELSE locks[a]]
    /\ UNCHANGED events

\* One transaction: terminal status, the lock of this deploy id, the event.
FinishDeployWithEvent(d, status) ==
    /\ FinishDeploy(d, status)
    /\ locks' = [a \in Apps |-> IF locks[a] = d THEN NoDeploy ELSE locks[a]]
    /\ AppendEvent(d, "deploy", status)

AcquireLock(a, d) ==
    /\ ~LockHeld(a)
    /\ locks' = [locks EXCEPT ![a] = d]

\* By app, whoever holds it.
ReleaseLock(a) == locks' = [locks EXCEPT ![a] = NoDeploy]

Orphaned(a) == LockHeld(a) /\ ~InProgress(locks[a])

ReleaseOrphanedLocks ==
    locks' = [a \in Apps |-> IF Orphaned(a) THEN NoDeploy ELSE locks[a]]

PutSpec(a, s) == specs' = [specs EXCEPT ![a] = s]
==============================================================================

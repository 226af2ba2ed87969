----------------------------- MODULE DaemonProofs -----------------------------
(***************************************************************************)
(* Safety of the daemon's handlers, tasks and recoveries for any threads,  *)
(* apps, pipelines and crashes.                                            *)
(***************************************************************************)
EXTENDS Daemon, DeployStoreProofs

------------------------------------------------------------------------------
(* Threads *)

\* A thread that is over, or has not begun.
LEMMA IdleThreadType ==
  /\ IdleThread \in Thread
  /\ IdleThread.pc = "idle" /\ IdleThread.kind = "button" /\ IdleThread.id = 0
  /\ IdleThread.todo = {}
<1> DEFINE a0 == CHOOSE a \in Apps : TRUE
<1>1. a0 \in Apps
  BY DaemonAssumption
<1>2. 0 \in 0..MaxDeploys /\ NoDeploy = 0
  BY StoreAssumption DEF NoDeploy
<1>3. Len(Pipeline) \in Nat /\ Len(Pipeline) >= 1
  BY DaemonAssumption, EmptySeq, LenProperties
<1>4. 1 \in 1..Len(Pipeline)
  BY <1>3
<1>5. IdleThread = [kind |-> "button", pc |-> "idle", app |-> a0, id |-> NoDeploy,
                    step |-> 1, outcome |-> "done", todo |-> {}]
  BY DEF IdleThread
<1> HIDE DEF a0
<1> QED
  BY <1>1, <1>2, <1>4, <1>5 DEF Thread, ThreadKind, Place, Terminal

\* What a thread knows, but for its place.
Kept(new, old) ==
  /\ new.kind = old.kind /\ new.app = old.app /\ new.id = old.id
  /\ new.step = old.step /\ new.outcome = old.outcome /\ new.todo = old.todo

\* Nobody but t moves.
Alone(t) ==
  /\ th' \in [Threads -> Thread]
  /\ \A u \in Threads : u # t => th'[u] = th[u]

\* A thread goes on to its next place and keeps what it knows.
LEMMA GotoFact ==
  ASSUME NEW t \in Threads, th \in [Threads -> Thread], NEW pc \in Place, Goto(t, pc)
  PROVE  Alone(t) /\ th'[t].pc = pc /\ Kept(th'[t], th[t])
<1>1. th[t] \in Thread
  OBVIOUS
<1>2. /\ [th[t] EXCEPT !.pc = pc] \in Thread
      /\ [th[t] EXCEPT !.pc = pc].pc = pc /\ Kept([th[t] EXCEPT !.pc = pc], th[t])
  BY <1>1 DEF Thread, Kept
<1> QED
  BY <1>2 DEF Goto, Alone

\* It is over, and lets go of the mutex and the permit.
LEMMA QuitFact ==
  ASSUME NEW t \in Threads, th \in [Threads -> Thread], Quit(t)
  PROVE  /\ Alone(t) /\ th'[t] = IdleThread
         /\ trigger' = IF trigger = t THEN Nobody ELSE trigger
         /\ slot' = IF slot = t THEN Nobody ELSE slot
BY IdleThreadType DEF Quit, Alone

------------------------------------------------------------------------------
(* The store *)

\* Rows are neither removed nor given to another app.
RowsStay ==
  /\ StoreTypeOK'
  /\ DeployIds \subseteq DeployIds' /\ Len(deploys) <= Len(deploys')
  /\ \A d \in DeployIds : deploys'[d].app = deploys[d].app

\* Ids of rows are numbers, specs, and not the id of no deploy.
LEMMA IdsKnown ==
  ASSUME StoreTypeOK
  PROVE  /\ Len(deploys) \in Nat /\ MaxDeploys \in Nat /\ Len(deploys) <= MaxDeploys
         /\ DeployIds \subseteq 1..MaxDeploys /\ DeployIds \subseteq Specs
         /\ \A d \in DeployIds : d \in 0..Len(deploys) /\ d # NoDeploy
BY LenProperties, StoreAssumption, DaemonAssumption DEF StoreTypeOK, DeployIds, NoDeploy

\* A row has its three columns.
LEMMA RowTyped ==
  ASSUME StoreTypeOK, NEW d \in DeployIds
  PROVE  deploys[d].app \in Apps /\ deploys[d].stage \in Stage
         /\ deploys[d].status \in DeployStatus
<1>1. deploys[d] \in DeployRow
  BY ElementOfSeq DEF StoreTypeOK, DeployIds
<1> QED
  BY <1>1, RowColumns

\* A step that leaves the store alone.
LEMMA StoreSameStays ==
  ASSUME StoreTypeOK, StoreSame
  PROVE  RowsStay /\ UNCHANGED <<deploys, locks, specs, events>>
<1>1. UNCHANGED <<deploys, locks, specs, events>>
  BY DEF StoreSame, storeVars
<1> QED
  BY <1>1, IdsKnown DEF RowsStay, StoreTypeOK, DeployIds

\* A new row: in progress, with an empty log; the others stay as they are.
LEMMA CreateStays ==
  ASSUME StoreTypeOK, NEW a \in Apps, CreateDeploy(a), UNCHANGED <<locks, specs>>
  PROVE  /\ RowsStay
         /\ Len(deploys) + 1 \in DeployIds' /\ Len(deploys) + 1 \notin DeployIds
         /\ Len(deploys) + 1 \in 0..MaxDeploys /\ Len(deploys') = Len(deploys) + 1
         /\ DeployIds' = DeployIds \cup {Len(deploys) + 1}
         /\ deploys'[Len(deploys) + 1].app = a
         /\ deploys'[Len(deploys) + 1].status = "in_progress"
         /\ events'[Len(deploys) + 1] = <<>>
         /\ \A d \in DeployIds : deploys'[d] = deploys[d] /\ events'[d] = events[d]
<1> DEFINE n == Len(deploys) + 1
<1>1. /\ deploys' \in Seq(DeployRow) /\ Len(deploys') = n /\ n <= MaxDeploys
      /\ DeployIds' = DeployIds \cup {n}
      /\ \A d \in DeployIds : deploys'[d] = deploys[d] /\ events'[d] = events[d]
      /\ deploys'[n].app = a /\ deploys'[n].status = "in_progress"
      /\ events' \in Seq(Seq(Event)) /\ Len(events') = Len(deploys')
      /\ events'[n] = <<>>
  BY CreateDeployAdds
<1>2. n \in 0..MaxDeploys /\ n \notin DeployIds /\ Len(deploys) <= n
  BY <1>1, IdsKnown DEF DeployIds
<1>3. locks' \in [Apps -> 0..n]
  BY IdsKnown DEF StoreTypeOK
<1> HIDE DEF n
<1>4. RowsStay
  BY <1>1, <1>2, <1>3 DEF RowsStay, StoreTypeOK
<1> QED
  BY <1>1, <1>2, <1>4 DEF n

\* A new ending, with or without its event.
LEMMA EndingStays ==
  ASSUME StoreTypeOK, NEW d \in DeployIds, NEW st \in Terminal, FinishDeploy(d, st),
         locks' \in [Apps -> 0..Len(deploys)], UNCHANGED specs,
         events' \in Seq(Seq(Event)), Len(events') = Len(events)
  PROVE  /\ RowsStay /\ DeployIds' = DeployIds
         /\ deploys'[d].status = st
         /\ \A i \in DeployIds : i # d => deploys'[i] = deploys[i]
<1>1. /\ deploys' \in Seq(DeployRow) /\ Len(deploys') = Len(deploys)
      /\ deploys'[d].status = st /\ deploys'[d].app = deploys[d].app
      /\ \A i \in DeployIds : i # d => deploys'[i] = deploys[i]
  BY FinishDeployEnds
<1>2. DeployIds' = DeployIds
  BY <1>1 DEF DeployIds
<1>3. \A i \in DeployIds : deploys'[i].app = deploys[i].app
  BY <1>1
<1> QED
  BY <1>1, <1>2, <1>3, IdsKnown DEF RowsStay, StoreTypeOK

\* An ending with its event, and the lock of the row let go.
LEMMA FinishEventStays ==
  ASSUME StoreTypeOK, NEW d \in DeployIds, NEW st \in Terminal,
         FinishDeployWithEvent(d, st), UNCHANGED specs
  PROVE  /\ RowsStay /\ DeployIds' = DeployIds
         /\ deploys'[d].status = st
         /\ \A i \in DeployIds : i # d => deploys'[i] = deploys[i] /\ events'[i] = events[i]
         /\ events[d] \in Seq(Event)
         /\ events'[d] = Append(events[d], [stage |-> "deploy", status |-> st])
         /\ \A a \in Apps : locks'[a] = IF locks[a] = d THEN NoDeploy ELSE locks[a]
<1>1. /\ FinishDeploy(d, st) /\ AppendEvent(d, "deploy", st)
      /\ locks' = [a \in Apps |-> IF locks[a] = d THEN NoDeploy ELSE locks[a]]
  BY DEF FinishDeployWithEvent
<1>2. [stage |-> "deploy", status |-> st] \in Event
  BY DEF Event
<1>3. /\ events' \in Seq(Seq(Event)) /\ Len(events') = Len(events)
      /\ events[d] \in Seq(Event)
      /\ events'[d] = Append(events[d], [stage |-> "deploy", status |-> st])
      /\ \A i \in DeployIds : i # d => events'[i] = events[i]
  BY <1>1, <1>2, AppendEventAdds
<1>4. locks' \in [Apps -> 0..Len(deploys)]
  BY <1>1, IdsKnown DEF StoreTypeOK, NoDeploy
<1>5. /\ RowsStay /\ DeployIds' = DeployIds /\ deploys'[d].status = st
      /\ \A i \in DeployIds : i # d => deploys'[i] = deploys[i]
  BY <1>1, <1>3, <1>4, EndingStays
<1> QED
  BY <1>1, <1>3, <1>5

\* The ending of a refused row, which has no event yet.
LEMMA RefusalStays ==
  ASSUME StoreTypeOK, NEW d \in DeployIds, FinishDeploy(d, "failed"),
         UNCHANGED <<locks, specs, events>>
  PROVE  /\ RowsStay /\ DeployIds' = DeployIds
         /\ deploys'[d].status = "failed"
         /\ \A i \in DeployIds : i # d => deploys'[i] = deploys[i]
BY EndingStays DEF StoreTypeOK, Terminal

\* The next stage, of an unfinished row.
LEMMA AdvanceStays ==
  ASSUME StoreTypeOK, NEW d \in DeployIds, NEW s \in Stage, AdvanceStage(d, s),
         UNCHANGED <<locks, specs, events>>
  PROVE  /\ RowsStay /\ DeployIds' = DeployIds /\ InProgress(d)
         /\ \A i \in DeployIds : deploys'[i].status = deploys[i].status
<1>1. /\ deploys' \in Seq(DeployRow) /\ Len(deploys') = Len(deploys)
      /\ \A i \in DeployIds : /\ deploys'[i].app = deploys[i].app
                              /\ deploys'[i].status = deploys[i].status
  BY AdvanceStageKeeps
<1> QED
  BY <1>1, IdsKnown DEF RowsStay, StoreTypeOK, DeployIds, AdvanceStage

\* Steps that write the locks only, or the specs only.
LEMMA LocksStay ==
  ASSUME StoreTypeOK, locks' \in [Apps -> 0..Len(deploys)], UNCHANGED <<deploys, specs, events>>
  PROVE  RowsStay /\ DeployIds' = DeployIds
BY IdsKnown DEF RowsStay, StoreTypeOK, DeployIds

\* The last good spec of one app, and of no other.
LEMMA SpecStays ==
  ASSUME StoreTypeOK, NEW a \in Apps, NEW d \in DeployIds, PutSpec(a, d),
         UNCHANGED <<deploys, locks, events>>
  PROVE  /\ RowsStay /\ DeployIds' = DeployIds
         /\ \A b \in Apps : specs'[b] = IF b = a THEN d ELSE specs[b]
BY IdsKnown DEF RowsStay, StoreTypeOK, DeployIds, PutSpec

------------------------------------------------------------------------------
(* What an action makes of its thread *)

\* A new row, and the thread's hold on it.
LEMMA CreatesFact ==
  ASSUME TypeOK, NEW t \in Threads, RecordRefusal(t) \/ Create(t)
  PROVE  LET n == Len(deploys) + 1 IN
         /\ Alone(t) /\ th'[t].kind = th[t].kind /\ th'[t].app = th[t].app
         /\ th'[t].todo = th[t].todo /\ th'[t].outcome = th[t].outcome /\ th'[t].id = n
         /\ \/ th[t].pc = "record" /\ th'[t].pc = "give_up"
            \/ th[t].pc = "create" /\ th'[t].pc = "acquire"
         /\ CreateDeploy(th[t].app) /\ UNCHANGED <<locks, specs>> /\ Keep
         /\ th[t].app \in Apps
<1> DEFINE n == Len(deploys) + 1
           pc == IF RecordRefusal(t) THEN "give_up" ELSE "acquire"
           rec == [th[t] EXCEPT !.id = n, !.pc = pc]
<1>1. /\ th \in [Threads -> Thread] /\ StoreTypeOK /\ th[t] \in Thread /\ th[t].app \in Apps
  BY DEF TypeOK, Thread
<1>2. /\ CreateDeploy(th[t].app) /\ UNCHANGED <<locks, specs>> /\ Keep
      /\ th' = [th EXCEPT ![t] = rec]
      /\ \/ th[t].pc = "record" /\ pc = "give_up"
         \/ th[t].pc = "create" /\ pc = "acquire"
  BY DEF RecordRefusal, Create, At
<1> HIDE DEF pc
<1>3. pc \in Place
  BY <1>2 DEF Place
<1>4. n \in 0..MaxDeploys
  BY <1>1, <1>2, CreateStays
<1> HIDE DEF n
<1>5. rec \in Thread /\ rec.id = n /\ rec.pc = pc /\ rec.kind = th[t].kind
      /\ rec.app = th[t].app /\ rec.todo = th[t].todo /\ rec.outcome = th[t].outcome
  BY <1>1, <1>3, <1>4 DEF Thread
<1> HIDE DEF rec
<1>6. Alone(t) /\ th'[t] = rec
  BY <1>1, <1>2, <1>5 DEF Alone
<1> QED
  BY <1>1, <1>2, <1>5, <1>6 DEF n

\* The next stage, or the record of success.
LEMMA StageDoneFact ==
  ASSUME TypeOK, NEW t \in Threads, StageDone(t)
  PROVE  /\ th[t].pc = "stage" /\ Alone(t) /\ StoreSame /\ Keep
         /\ th'[t].kind = th[t].kind /\ th'[t].app = th[t].app /\ th'[t].id = th[t].id
         /\ th'[t].todo = th[t].todo /\ th'[t].outcome = th[t].outcome
         /\ th'[t].pc \in {"begin", "put_spec"}
<1>1. th[t].pc = "stage" /\ StoreSame /\ Keep /\ th \in [Threads -> Thread] /\ th[t] \in Thread
  BY DEF StageDone, At, TypeOK
<1>2. CASE Goto(t, "put_spec")
  BY <1>1, <1>2, GotoFact DEF Kept, Place
<1>3. CASE /\ th[t].step < Len(Pipeline)
           /\ th' = [th EXCEPT ![t].step = @ + 1, ![t].pc = "begin"]
  <2> DEFINE rec == [th[t] EXCEPT !.step = @ + 1, !.pc = "begin"]
  <2>1. th[t].step + 1 \in 1..Len(Pipeline)
    BY <1>1, <1>3, DaemonAssumption, LenProperties DEF Thread
  <2>2. /\ rec \in Thread /\ rec.pc = "begin" /\ rec.kind = th[t].kind
        /\ rec.id = th[t].id /\ rec.app = th[t].app /\ rec.todo = th[t].todo
        /\ rec.outcome = th[t].outcome
    BY <1>1, <2>1 DEF Thread, Place
  <2>3. th' = [th EXCEPT ![t] = rec]
    BY <1>1, <1>3
  <2> HIDE DEF rec
  <2>4. Alone(t) /\ th'[t] = rec
    BY <1>1, <2>2, <2>3 DEF Alone
  <2> QED
    BY <1>1, <2>2, <2>4
<1> QED
  BY <1>2, <1>3 DEF StageDone

\* A failure, or the compensation that answers it.
LEMMA FailureFact ==
  ASSUME TypeOK, NEW t \in Threads, StageFails(t) \/ Compensate(t)
  PROVE  /\ th[t].pc \in {"stage", "undo"} /\ Alone(t) /\ StoreSame /\ Keep
         /\ th'[t].kind = th[t].kind /\ th'[t].app = th[t].app /\ th'[t].id = th[t].id
         /\ th'[t].todo = th[t].todo
         /\ th'[t].pc \in {"undo", "finish"}
         /\ th'[t].pc = "undo" => th[t].pc = "stage"
         /\ th'[t].outcome # "done"
<1>1. PICK result \in {"rolled_back", "failed"}, pc \in {"undo", "finish"} :
         /\ th' = [th EXCEPT ![t].outcome = result, ![t].pc = pc]
         /\ pc = "undo" => th[t].pc = "stage"
  BY DEF StageFails, Compensate, At
<1>2. /\ th[t].pc \in {"stage", "undo"} /\ StoreSame /\ Keep
      /\ th \in [Threads -> Thread] /\ th[t] \in Thread
  BY DEF StageFails, Compensate, At, TypeOK
<1> DEFINE rec == [th[t] EXCEPT !.outcome = result, !.pc = pc]
<1>3. /\ rec \in Thread /\ rec.pc = pc /\ rec.kind = th[t].kind /\ rec.outcome = result
      /\ rec.id = th[t].id /\ rec.app = th[t].app /\ rec.todo = th[t].todo
  BY <1>2 DEF Thread, Terminal, Place
<1>4. th' = [th EXCEPT ![t] = rec]
  BY <1>1, <1>2
<1> HIDE DEF rec
<1>5. Alone(t) /\ th'[t] = rec
  BY <1>2, <1>3, <1>4 DEF Alone
<1> QED
  BY <1>1, <1>2, <1>3, <1>5

\* A recovery reads every unfinished row, once.
LEMMA SnapshotFact ==
  ASSUME TypeOK, NEW t \in Threads, Snapshot(t)
  PROVE  /\ th[t].pc = "snapshot" /\ th'[t].pc = "next_row" /\ Alone(t) /\ StoreSame /\ Keep
         /\ th'[t].kind = th[t].kind /\ th'[t].app = th[t].app /\ th'[t].id = th[t].id
         /\ \A row \in th'[t].todo : row.id \in DeployIds /\ InProgress(row.id)
         /\ \A row, other \in th'[t].todo : row.id = other.id => row = other
<1> DEFINE work == {[id |-> d, stage |-> deploys[d].stage] : d \in InProgressDeploys}
           rec == [th[t] EXCEPT !.todo = work, !.pc = "next_row"]
<1>1. /\ th[t].pc = "snapshot" /\ th' = [th EXCEPT ![t] = rec] /\ StoreSame /\ Keep
      /\ th \in [Threads -> Thread] /\ th[t] \in Thread /\ StoreTypeOK
  BY DEF Snapshot, At, TypeOK
<1>2. \A d \in InProgressDeploys : d \in DeployIds /\ d \in 1..MaxDeploys
                                     /\ deploys[d].stage \in Stage /\ InProgress(d)
  BY <1>1, IdsKnown, RowTyped DEF InProgressDeploys
<1>3. /\ work \in SUBSET Work
      /\ \A row \in work : row.id \in DeployIds /\ InProgress(row.id)
      /\ \A row, other \in work : row.id = other.id => row = other
  BY <1>2 DEF Work
<1> HIDE DEF work
<1>4. /\ rec \in Thread /\ rec.pc = "next_row" /\ rec.kind = th[t].kind
      /\ rec.id = th[t].id /\ rec.app = th[t].app /\ rec.todo = work
  BY <1>1, <1>3 DEF Thread, Place
<1> HIDE DEF rec
<1>5. Alone(t) /\ th'[t] = rec
  BY <1>1, <1>4 DEF Alone
<1> QED
  BY <1>1, <1>3, <1>4, <1>5

\* It takes the rows one by one.
LEMMA NextRowFact ==
  ASSUME TypeOK, NEW t \in Threads, NextRow(t),
         \A row \in th[t].todo : row.id \in DeployIds
  PROVE  \E row \in th[t].todo :
         /\ th[t].pc = "next_row" /\ th'[t].pc \in {"undo", "finish"} /\ Alone(t)
         /\ StoreSame /\ Keep
         /\ th'[t].kind = th[t].kind /\ th'[t].id = row.id /\ th'[t].outcome # "done"
         /\ th'[t].app = deploys[row.id].app /\ th'[t].todo = th[t].todo \ {row}
<1>1. PICK row \in th[t].todo :
        th' = [th EXCEPT ![t].todo = @ \ {row},
                         ![t].id = row.id,
                         ![t].app = deploys[row.id].app,
                         ![t].outcome = "rolled_back",
                         ![t].pc = IF row.stage \in Untouched THEN "finish" ELSE "undo"]
  BY DEF NextRow
<1> DEFINE pc == IF row.stage \in Untouched THEN "finish" ELSE "undo"
           rec == [th[t] EXCEPT !.todo = @ \ {row}, !.id = row.id,
                                !.app = deploys[row.id].app,
                                !.outcome = "rolled_back", !.pc = pc]
<1>2. /\ th[t].pc = "next_row" /\ StoreSame /\ Keep /\ th' = [th EXCEPT ![t] = rec]
      /\ th \in [Threads -> Thread] /\ th[t] \in Thread /\ StoreTypeOK
  BY <1>1 DEF NextRow, At, TypeOK
<1>3. pc \in {"finish", "undo"}
  OBVIOUS
<1> HIDE DEF pc
<1>4. /\ row.id \in DeployIds /\ row.id \in 0..MaxDeploys
      /\ deploys[row.id].app \in Apps
  BY <1>2, IdsKnown, RowTyped
<1>5. /\ rec \in Thread /\ rec.pc = pc /\ rec.kind = th[t].kind /\ rec.outcome = "rolled_back"
      /\ rec.id = row.id /\ rec.app = deploys[row.id].app
      /\ rec.todo = th[t].todo \ {row}
  BY <1>2, <1>3, <1>4 DEF Thread, Terminal, Place
<1> HIDE DEF rec
<1>6. Alone(t) /\ th'[t] = rec
  BY <1>2, <1>5 DEF Alone
<1> QED
  BY <1>2, <1>3, <1>5, <1>6

------------------------------------------------------------------------------
(* BaseInv *)

\* What t has to see to for BaseInv to go on.
LEMMA BaseFrame ==
  ASSUME BaseInv, NEW t \in Threads, Alone(t), RowsStay,
         daemon' \in {"down", "booting", "up"}, crashes' \in 0..MaxCrashes,
         trigger' \in {trigger, t, Nobody}, slot' \in {slot, t, Nobody},
         trigger' # trigger => trigger \in {t, Nobody},
         slot' # slot => slot \in {t, Nobody},
         th'[t].id <= Len(deploys'),
         PlaceKept(t)',
         NeedsMutex(t)' => trigger' = t,
         NeedsSlot(t)' => slot' = t,
         ServingKnown',
         RowOwned(t)',
         OwnsRow(t)' => \/ OwnsRow(t) /\ th'[t].id = th[t].id
                        \/ th'[t].id \notin DeployIds
  PROVE  BaseInv'
<1> USE DEF BaseInv
<1>1. Nobody \notin Threads
  BY DaemonAssumption
<1>2. \A u \in Threads : u # t => th'[u] = th[u]
  BY DEF Alone
<1>3. Len(deploys) \in Nat /\ Len(deploys') \in Nat
  BY LenProperties DEF TypeOK, RowsStay, StoreTypeOK
<1>4. TypeOK'
  <2>1. \A u \in Threads : th'[u].id <= Len(deploys')
    <3> TAKE u \in Threads
    <3>1. CASE u = t
      BY <3>1
    <3>2. CASE u # t
      <4>1. th[u] \in Thread /\ th[u].id <= Len(deploys)
        BY DEF TypeOK
      <4>2. th[u].id \in 0..MaxDeploys /\ MaxDeploys \in Nat
        BY <4>1, StoreAssumption DEF Thread
      <4> QED
        BY <1>2, <1>3, <3>2, <4>1, <4>2 DEF RowsStay
    <3> QED
      BY <3>1, <3>2
  <2> QED
    BY <2>1 DEF TypeOK, Alone, RowsStay
<1>5. PlacesKept'
  BY <1>2 DEF PlacesKept, PlaceKept, Idle
<1>6. MutexHeld'
  BY <1>1, <1>2 DEF MutexHeld, NeedsMutex
<1>7. SlotHeld'
  BY <1>1, <1>2 DEF SlotHeld, NeedsSlot
<1>8. RowsOwned'
  <2> SUFFICES ASSUME NEW u \in Threads, u # t PROVE RowOwned(u)'
    BY DEF RowsOwned
  <2>1. RowOwned(u)
    BY DEF RowsOwned
  <2> QED
    BY <1>2, <2>1 DEF RowOwned, HasRow, IsReconcile, RowsStay
<1>9. IdsDistinct'
  <2>1. \A u \in Threads : u # t => (OwnsRow(u)' <=> OwnsRow(u))
    BY <1>2 DEF OwnsRow, HasRow, IsReconcile
  <2>2. \A u \in Threads : OwnsRow(u) => th[u].id \in DeployIds
    BY DEF RowsOwned, RowOwned, OwnsRow
  <2> QED
    BY <1>2, <2>1, <2>2 DEF IdsDistinct
<1> QED
  BY <1>4, <1>5, <1>6, <1>7, <1>8, <1>9

\* A thread that quits breaks nothing.
LEMMA QuitKeepsBase ==
  ASSUME BaseInv, NEW t \in Threads, Quit(t), RowsStay, crashes' \in 0..MaxCrashes,
         daemon' = daemon \/ (daemon' = "up" /\ th[t].kind = "boot" /\ ~Idle(t))
  PROVE  BaseInv'
<1> USE DEF BaseInv
<1>1. /\ Alone(t) /\ th'[t] = IdleThread
      /\ trigger' = IF trigger = t THEN Nobody ELSE trigger
      /\ slot' = IF slot = t THEN Nobody ELSE slot
  BY QuitFact DEF TypeOK
<1>2. /\ th'[t].pc = "idle" /\ th'[t].kind = "button" /\ th'[t].id = 0
      /\ th'[t].todo = {}
  BY <1>1, IdleThreadType
<1>3. \A u \in Threads : u # t => th'[u] = th[u]
  BY <1>1 DEF Alone
<1>4. ServingKnown'
  BY <1>2, <1>3 DEF ServingKnown, Idle
<1>5. PlaceKept(t)' /\ ~NeedsMutex(t)' /\ ~NeedsSlot(t)' /\ RowOwned(t)' /\ ~OwnsRow(t)'
  BY <1>2 DEF PlaceKept, Idle, NeedsMutex, NeedsSlot, Reserving, Deploying, Recovering,
              RowOwned, HasRow, OwnsRow, IsReconcile
<1>6. daemon' \in {"down", "booting", "up"} /\ 0 <= Len(deploys')
  BY LenProperties DEF TypeOK, RowsStay, StoreTypeOK
<1> QED
  BY <1>1, <1>2, <1>4, <1>5, <1>6, BaseFrame

\* Nor one that goes on, within its kind's places, with the guards it needs.
LEMMA MoveKeepsBase ==
  ASSUME BaseInv, NEW t \in Threads, Alone(t), RowsStay, Same, ~Idle(t), ~Idle(t)',
         th'[t].kind = th[t].kind,
         trigger' \in {trigger, t, Nobody}, slot' \in {slot, t, Nobody},
         trigger' # trigger => trigger \in {t, Nobody},
         slot' # slot => slot \in {t, Nobody},
         PlaceKept(t)',
         NeedsMutex(t)' => trigger' = t,
         NeedsSlot(t)' => slot' = t,
         RowOwned(t)',
         \/ th'[t].id = th[t].id /\ (OwnsRow(t)' => OwnsRow(t))
         \/ th'[t].id \notin DeployIds /\ th'[t].id \in DeployIds'
         \/ th'[t].id \in DeployIds' /\ IsReconcile(t)
  PROVE  BaseInv'
<1> USE DEF BaseInv
<1>1. \A u \in Threads : u # t => th'[u] = th[u]
  BY DEF Alone
<1>2. ServingKnown'
  BY <1>1 DEF ServingKnown, Idle, Same
<1>3. th'[t].id <= Len(deploys')
  <2>1. CASE th'[t].id = th[t].id
    <3>1. th[t] \in Thread /\ th[t].id <= Len(deploys)
      BY DEF TypeOK
    <3>2. th[t].id \in 0..MaxDeploys /\ MaxDeploys \in Nat
      BY <3>1, StoreAssumption DEF Thread
    <3>3. Len(deploys) \in Nat /\ Len(deploys') \in Nat
      BY LenProperties DEF TypeOK, RowsStay, StoreTypeOK
    <3> QED
      BY <2>1, <3>1, <3>2, <3>3 DEF RowsStay
  <2>2. CASE th'[t].id \in DeployIds'
    BY <2>2 DEF DeployIds
  <2> QED
    BY <2>1, <2>2
<1>4. OwnsRow(t)' => \/ OwnsRow(t) /\ th'[t].id = th[t].id
                     \/ th'[t].id \notin DeployIds
  BY DEF OwnsRow, IsReconcile
<1>5. daemon' \in {"down", "booting", "up"} /\ crashes' \in 0..MaxCrashes
  BY DEF TypeOK, Same
<1> QED
  BY <1>2, <1>3, <1>4, <1>5, BaseFrame

\* In particular a thread that only changes its place.
LEMMA GotoKeepsBase ==
  ASSUME BaseInv, NEW t \in Threads, NEW pc \in Place, Goto(t, pc), pc # "idle", ~Idle(t),
         RowsStay, Same,
         trigger' \in {trigger, t, Nobody}, slot' \in {slot, t, Nobody},
         trigger' # trigger => trigger \in {t, Nobody},
         slot' # slot => slot \in {t, Nobody},
         PlaceKept(t)',
         NeedsMutex(t)' => trigger' = t,
         NeedsSlot(t)' => slot' = t,
         HasRow(t)' => HasRow(t)
  PROVE  BaseInv'
<1>1. Alone(t) /\ th'[t].pc = pc /\ Kept(th'[t], th[t])
  BY GotoFact DEF BaseInv, TypeOK
<1>2. RowOwned(t)
  BY DEF BaseInv, RowsOwned
<1>3. RowOwned(t)'
  BY <1>1, <1>2 DEF RowOwned, Kept, RowsStay
<1>4. OwnsRow(t)' => OwnsRow(t)
  BY <1>1 DEF OwnsRow, IsReconcile, Kept
<1> QED
  BY <1>1, <1>3, <1>4, MoveKeepsBase DEF Kept, Idle

\* A thread begins with nothing but its kind, its app and its place.
LEMMA StartFact ==
  ASSUME NEW t \in Threads, th \in [Threads -> Thread], NEW kind \in ThreadKind,
         NEW app \in Apps, NEW pc \in Place, Start(t, kind, app, pc)
  PROVE  /\ Alone(t) /\ Idle(t) /\ kind \in Kinds
         /\ th'[t].kind = kind /\ th'[t].app = app /\ th'[t].pc = pc
         /\ th'[t].id = 0 /\ th'[t].todo = {}
         /\ StoreSame /\ UNCHANGED <<trigger, slot, crashes>>
<1> DEFINE rec == [IdleThread EXCEPT !.kind = kind, !.app = app, !.pc = pc]
<1>1. /\ rec \in Thread /\ rec.kind = kind /\ rec.app = app /\ rec.pc = pc
      /\ rec.id = 0 /\ rec.todo = {}
  BY IdleThreadType DEF Thread
<1>2. th' = [th EXCEPT ![t] = rec]
  BY DEF Start
<1> HIDE DEF rec
<1> QED
  BY <1>1, <1>2 DEF Alone, Start

\* Requests and processes that arrive hold no guard and own no row.
LEMMA ArriveKeepsBase ==
  ASSUME BaseInv, NEW t \in Threads, NEW app \in Apps, Arrive(t, app)
  PROVE  BaseInv'
<1> USE DEF BaseInv
<1>1. th \in [Threads -> Thread] /\ StoreTypeOK
  BY DEF TypeOK
<1>2. ASSUME NEW kind \in ThreadKind, NEW pc \in Place, Start(t, kind, app, pc),
             \/ kind \in {"button", "hook"} /\ pc = "lock"
             \/ kind = "reconcile_api" /\ pc = "slot"
             \/ kind = "cli" /\ pc = "create"
             \/ kind \in {"cli_reconcile", "boot"} /\ pc = "snapshot",
             \/ UNCHANGED daemon /\ (kind \in {"button", "hook", "reconcile_api"} => daemon = "up")
                  /\ kind # "boot"
             \/ kind = "boot" /\ daemon = "down" /\ daemon' = "booting"
      PROVE  BaseInv'
    <2>1. /\ Alone(t) /\ Idle(t) /\ kind \in Kinds
          /\ th'[t].kind = kind /\ th'[t].app = app /\ th'[t].pc = pc
          /\ th'[t].id = 0 /\ th'[t].todo = {}
          /\ StoreSame /\ UNCHANGED <<trigger, slot, crashes>>
      BY <1>1, <1>2, StartFact
    <2>2. RowsStay
      BY <1>1, <2>1, StoreSameStays
    <2>3. PlaceKept(t)'
      BY <1>2, <2>1 DEF PlaceKept, Idle, Reserving, Recovering
    <2>4. ~NeedsMutex(t)' /\ ~NeedsSlot(t)' /\ RowOwned(t)' /\ ~OwnsRow(t)'
      BY <1>2, <2>1 DEF NeedsMutex, NeedsSlot, RowOwned, OwnsRow, HasRow, IsReconcile,
                        Reserving, Deploying, Recovering
    <2>5. \A u \in Threads : u # t => th'[u] = th[u]
      BY <2>1 DEF Alone
    <2>6. ServingKnown'
      BY <1>2, <2>1, <2>5 DEF ServingKnown, Idle
    <2>7. 0 <= Len(deploys') /\ daemon' \in {"down", "booting", "up"}
          /\ crashes' \in 0..MaxCrashes
      BY <1>2, <2>1, <2>2, LenProperties DEF TypeOK, RowsStay, StoreTypeOK
    <2> QED
      BY <2>1, <2>2, <2>3, <2>4, <2>6, <2>7, BaseFrame
<1> USE DEF ThreadKind, Place
<1>3. CASE Request(t, app)
  BY <1>2, <1>3 DEF Request
<1>4. CASE AskReconcile(t, app)
  BY <1>2, <1>4 DEF AskReconcile
<1>5. CASE CliDeploy(t, app)
  BY <1>2, <1>5 DEF CliDeploy
<1>6. CASE CliReconcile(t, app)
  BY <1>2, <1>6 DEF CliReconcile
<1>7. CASE Boot(t, app)
  BY <1>2, <1>7 DEF Boot
<1> QED
  BY <1>3, <1>4, <1>5, <1>6, <1>7 DEF Arrive

\* The handlers, up to the spawn of their task.
LEMMA HandlersKeepBase ==
  ASSUME BaseInv, NEW t \in Threads,
         \/ TakeTrigger(t) \/ EnsureNotBusy(t) \/ TurnAway(t) \/ RecordRefusal(t)
         \/ GiveUp(t) \/ Create(t) \/ Acquire(t) \/ LockBusy(t) \/ Refuse(t)
         \/ GitDone(t) \/ GitFails(t) \/ EnterSlot(t)
  PROVE  BaseInv'
<1> USE DEF BaseInv
<1>1. /\ th \in [Threads -> Thread] /\ StoreTypeOK /\ crashes \in 0..MaxCrashes
      /\ th[t] \in Thread /\ th[t].app \in Apps /\ PlaceKept(t) /\ RowOwned(t)
      /\ NeedsMutex(t) => trigger = t
      /\ NeedsSlot(t) => slot = t
  BY DEF TypeOK, PlacesKept, RowsOwned, MutexHeld, SlotHeld, Thread
<1>2. StoreSame => RowsStay
  BY <1>1, StoreSameStays
<1>3. ASSUME Quit(t), RowsStay, Same PROVE BaseInv'
  BY <1>1, <1>3, QuitKeepsBase DEF Same
<1>4. ASSUME NEW pc \in Place, Goto(t, pc)
      PROVE  Alone(t) /\ th'[t].pc = pc /\ Kept(th'[t], th[t])
  BY <1>1, <1>4, GotoFact
<1> USE DEF PlaceKept, NeedsMutex, NeedsSlot, HasRow, Idle, At, Reserving, Deploying,
            Recovering, Keep, Same, Place
<1>5. CASE TakeTrigger(t)
  <2>1. /\ th[t].pc = "lock" /\ Goto(t, "check") /\ trigger' = t /\ trigger = Nobody
        /\ StoreSame /\ UNCHANGED <<daemon, slot, crashes>>
    BY <1>5 DEF TakeTrigger
  <2>2. th'[t].pc = "check" /\ th'[t].kind = th[t].kind
    BY <1>4, <2>1 DEF Kept
  <2> QED
    BY <1>1, <1>2, <2>1, <2>2, GotoKeepsBase

<1>6. CASE EnsureNotBusy(t)
  <2>1. th[t].pc = "check" /\ StoreSame /\ Same
    BY <1>6 DEF EnsureNotBusy
  <2>2. CASE Quit(t)
    BY <1>2, <1>3, <2>1, <2>2
  <2>3. CASE Goto(t, "create") /\ UNCHANGED <<trigger, slot>>
    <3>1. th'[t].pc = "create" /\ th'[t].kind = th[t].kind
      BY <1>4, <2>3 DEF Kept
    <3> QED
      BY <1>1, <1>2, <2>1, <2>3, <3>1, GotoKeepsBase
  <2>4. CASE th[t].kind = "hook" /\ Goto(t, "record") /\ UNCHANGED <<trigger, slot>>
    <3>1. th'[t].pc = "record" /\ th'[t].kind = th[t].kind
      BY <1>4, <2>4 DEF Kept
    <3> QED
      BY <1>1, <1>2, <2>1, <2>4, <3>1, GotoKeepsBase
  <2> QED
    BY <1>6, <2>2, <2>3, <2>4 DEF EnsureNotBusy
<1>7. CASE TurnAway(t)
  BY <1>2, <1>3, <1>7 DEF TurnAway
<1>8. CASE RecordRefusal(t) \/ Create(t)
  <2> DEFINE n == Len(deploys) + 1
  <2>1. /\ Alone(t) /\ th'[t].kind = th[t].kind /\ th'[t].app = th[t].app
        /\ th'[t].todo = th[t].todo /\ th'[t].id = n
        /\ \/ th[t].pc = "record" /\ th'[t].pc = "give_up"
           \/ th[t].pc = "create" /\ th'[t].pc = "acquire"
        /\ CreateDeploy(th[t].app) /\ UNCHANGED <<locks, specs>> /\ Keep
    BY <1>8, CreatesFact
  <2>2. /\ RowsStay /\ n \in DeployIds' /\ n \notin DeployIds
        /\ deploys'[n].app = th[t].app
    BY <1>1, <2>1, CreateStays
  <2> HIDE DEF n
  <2>3. RowOwned(t)'
    BY <1>1, <2>1, <2>2 DEF RowOwned, RowsStay
  <2>4. PlaceKept(t)' /\ (NeedsMutex(t)' => trigger' = t) /\ (NeedsSlot(t)' => slot' = t)
    BY <1>1, <2>1
  <2> QED
    BY <2>1, <2>2, <2>3, <2>4, MoveKeepsBase
<1>9. CASE GiveUp(t)
  <2>1. /\ th[t].pc = "give_up" /\ FinishDeployWithEvent(th[t].id, "failed")
        /\ Quit(t) /\ UNCHANGED specs /\ Same
    BY <1>9 DEF GiveUp
  <2>2. th[t].id \in DeployIds
    BY <1>1, <2>1 DEF RowOwned
  <2>3. RowsStay
    BY <1>1, <2>1, <2>2, FinishEventStays DEF Terminal
  <2> QED
    BY <1>3, <2>1, <2>3
<1>10. CASE Acquire(t)
  <2>1. /\ th[t].pc = "acquire" /\ locks' = [locks EXCEPT ![th[t].app] = th[t].id]
        /\ UNCHANGED <<deploys, specs, events, slot>> /\ Same
    BY <1>10 DEF Acquire, AcquireLock
  <2>2. th[t].id \in 0..Len(deploys)
    BY <1>1, <2>1, IdsKnown DEF RowOwned
  <2>3. RowsStay
    <3>1. locks' \in [Apps -> 0..Len(deploys)]
      BY <1>1, <2>1, <2>2 DEF StoreTypeOK
    <3> QED
      BY <1>1, <2>1, <3>1, LocksStay
  <2>4. PICK pc \in {"slot", "git", "begin"} :
          /\ Goto(t, pc)
          /\ \/ th[t].kind = "button" /\ pc = "slot" /\ trigger' = Nobody
             \/ th[t].kind = "hook" /\ pc = "git" /\ UNCHANGED trigger
             \/ th[t].kind = "cli" /\ pc = "begin" /\ UNCHANGED trigger
    BY <1>10 DEF Acquire
  <2>5. th'[t].pc = pc /\ th'[t].kind = th[t].kind
    BY <1>4, <2>4 DEF Kept
  <2> QED
    BY <1>1, <2>1, <2>3, <2>4, <2>5, GotoKeepsBase
<1>11. CASE LockBusy(t)
  <2>1. th[t].pc = "acquire" /\ Goto(t, "refuse") /\ StoreSame /\ Keep
    BY <1>11 DEF LockBusy
  <2>2. th'[t].pc = "refuse" /\ th'[t].kind = th[t].kind
    BY <1>4, <2>1 DEF Kept
  <2> QED
    BY <1>1, <1>2, <2>1, <2>2, GotoKeepsBase
<1>12. CASE Refuse(t)
  <2>1. /\ th[t].pc = "refuse" /\ FinishDeploy(th[t].id, "failed")
        /\ UNCHANGED <<locks, specs, events>> /\ Same
    BY <1>12 DEF Refuse
  <2>2. th[t].id \in DeployIds
    BY <1>1, <2>1 DEF RowOwned
  <2>3. RowsStay
    BY <1>1, <2>1, <2>2, RefusalStays
  <2>4. CASE Quit(t)
    BY <1>3, <2>1, <2>3, <2>4
  <2>5. CASE th[t].kind = "hook" /\ Goto(t, "give_up") /\ UNCHANGED <<trigger, slot>>
    <3>1. th'[t].pc = "give_up" /\ th'[t].kind = th[t].kind
      BY <1>4, <2>5 DEF Kept
    <3> QED
      BY <1>1, <2>1, <2>3, <2>5, <3>1, GotoKeepsBase
  <2> QED
    BY <1>12, <2>4, <2>5 DEF Refuse
<1>13. CASE GitDone(t)
  <2>1. /\ th[t].pc = "git" /\ Goto(t, "slot") /\ trigger' = Nobody
        /\ StoreSame /\ UNCHANGED <<daemon, slot, crashes>>
    BY <1>13 DEF GitDone
  <2>2. th'[t].pc = "slot" /\ th'[t].kind = th[t].kind
    BY <1>4, <2>1 DEF Kept
  <2> QED
    BY <1>1, <1>2, <2>1, <2>2, GotoKeepsBase
<1>14. CASE GitFails(t)
  <2>1. th[t].pc = "git" /\ Goto(t, "give_up") /\ StoreSame /\ Keep
    BY <1>14 DEF GitFails
  <2>2. th'[t].pc = "give_up" /\ th'[t].kind = th[t].kind
    BY <1>4, <2>1 DEF Kept
  <2> QED
    BY <1>1, <1>2, <2>1, <2>2, GotoKeepsBase
<1>15. CASE EnterSlot(t)
  <2>1. /\ th[t].pc = "slot" /\ slot = Nobody /\ slot' = t
        /\ Goto(t, IF IsReconcile(t) THEN "snapshot" ELSE "begin")
        /\ StoreSame /\ UNCHANGED <<daemon, trigger, crashes>>
    BY <1>15 DEF EnterSlot
  <2>2. th'[t].pc = (IF IsReconcile(t) THEN "snapshot" ELSE "begin")
        /\ th'[t].kind = th[t].kind
    BY <1>4, <2>1 DEF Kept
  <2> QED
    BY <1>1, <1>2, <2>1, <2>2, GotoKeepsBase DEF IsReconcile
<1> QED
  BY <1>5, <1>6, <1>7, <1>8, <1>9, <1>10, <1>11, <1>12, <1>13, <1>14, <1>15

\* The attempt itself, and the recovery of another's.
LEMMA WorkKeepsBase ==
  ASSUME BaseInv, NEW t \in Threads,
         \/ Begin(t) \/ BeginStale(t) \/ StageDone(t) \/ StageFails(t) \/ Compensate(t)
         \/ RecordSpec(t) \/ Finish(t) \/ Release(t)
         \/ Snapshot(t) \/ NextRow(t) \/ FinishReconcile(t)
  PROVE  BaseInv'
<1> USE DEF BaseInv
<1>1. /\ th \in [Threads -> Thread] /\ StoreTypeOK /\ crashes \in 0..MaxCrashes
      /\ th[t] \in Thread /\ th[t].app \in Apps /\ PlaceKept(t) /\ RowOwned(t)
      /\ NeedsMutex(t) => trigger = t
      /\ NeedsSlot(t) => slot = t
  BY DEF TypeOK, PlacesKept, RowsOwned, MutexHeld, SlotHeld, Thread
<1>2. StoreSame => RowsStay
  BY <1>1, StoreSameStays
<1>3. ASSUME NEW pc \in Place, Goto(t, pc)
      PROVE  Alone(t) /\ th'[t].pc = pc /\ Kept(th'[t], th[t])
  BY <1>1, <1>3, GotoFact
<1>4. th[t].step \in 1..Len(Pipeline) /\ Running(t) \in Stage
  <2>1. th[t].step \in 1..Len(Pipeline)
    BY <1>1 DEF Thread
  <2> QED
    BY <2>1, DaemonAssumption, ElementOfSeq DEF Running
<1> USE DEF PlaceKept, NeedsMutex, NeedsSlot, HasRow, Idle, At, Reserving, Deploying,
            Recovering, Keep, Same, Place
\* A step that stays in the attempt, or in the recovery.
<1>5. ASSUME Alone(t), RowsStay, Keep, HasRow(t), th'[t].id = th[t].id,
             th[t].pc \in Deploying \cup Recovering, th'[t].kind = th[t].kind,
             th'[t].app = th[t].app, th'[t].todo = th[t].todo,
             \/ th'[t].pc \in {"undo", "finish", "release"}
             \/ th[t].pc \in {"begin", "stage"} /\ th'[t].pc \in {"begin", "stage", "put_spec"}
      PROVE  BaseInv'
  <2>1. RowOwned(t)'
    BY <1>1, <1>5 DEF RowOwned, RowsStay
  <2>2. PlaceKept(t)' /\ (NeedsMutex(t)' => trigger' = t) /\ (NeedsSlot(t)' => slot' = t)
    BY <1>1, <1>5
  <2>3. OwnsRow(t)' => OwnsRow(t)
    BY <1>5 DEF OwnsRow, IsReconcile
  <2> QED
    BY <1>5, <2>1, <2>2, <2>3, MoveKeepsBase
<1>6. HasRow(t) => th[t].id \in DeployIds
  BY <1>1 DEF RowOwned
<1>7. CASE Begin(t)
  <2>1. /\ th[t].pc = "begin" /\ AdvanceStage(th[t].id, Running(t)) /\ Goto(t, "stage")
        /\ UNCHANGED <<locks, specs, events>> /\ Keep
    BY <1>7 DEF Begin
  <2>2. RowsStay
    BY <1>1, <1>4, <1>6, <2>1, AdvanceStays
  <2> QED
    BY <1>3, <1>5, <2>1, <2>2 DEF Kept
<1>8. CASE BeginStale(t)
  BY <1>2, <1>3, <1>5, <1>8 DEF BeginStale, Kept
<1>9. CASE StageDone(t)
  BY <1>2, <1>5, <1>9, StageDoneFact
<1>10. CASE StageFails(t) \/ Compensate(t)
  BY <1>2, <1>5, <1>10, FailureFact
<1>11. CASE RecordSpec(t)
  <2>1. /\ th[t].pc = "put_spec" /\ PutSpec(th[t].app, th[t].id) /\ Goto(t, "finish")
        /\ UNCHANGED <<deploys, locks, events>> /\ Keep
    BY <1>11 DEF RecordSpec
  <2>2. RowsStay
    BY <1>1, <1>6, <2>1, SpecStays
  <2> QED
    BY <1>3, <1>5, <2>1, <2>2 DEF Kept
<1>12. CASE Finish(t)
  <2>1. /\ th[t].pc = "finish" /\ FinishDeployWithEvent(th[t].id, th[t].outcome)
        /\ Goto(t, "release") /\ UNCHANGED specs /\ Keep
    BY <1>12 DEF Finish
  <2>2. RowsStay
    BY <1>1, <1>6, <2>1, FinishEventStays DEF Thread
  <2> QED
    BY <1>3, <1>5, <2>1, <2>2 DEF Kept
<1>13. CASE Release(t)
  <2>1. /\ th[t].pc = "release" /\ ReleaseLock(th[t].app)
        /\ UNCHANGED <<deploys, specs, events>> /\ Same
    BY <1>13 DEF Release
  <2>2. locks' \in [Apps -> 0..Len(deploys)]
    BY <1>1, <2>1, IdsKnown DEF ReleaseLock, StoreTypeOK, NoDeploy
  <2>3. RowsStay
    BY <1>1, <2>1, <2>2, LocksStay
  <2>4. CASE Quit(t)
    BY <1>1, <2>1, <2>3, <2>4, QuitKeepsBase
  <2>5. CASE IsReconcile(t) /\ Goto(t, "next_row") /\ UNCHANGED <<trigger, slot>>
    <3>1. th'[t].pc = "next_row" /\ th'[t].kind = th[t].kind
      BY <1>3, <2>5 DEF Kept
    <3> QED
      BY <1>1, <2>1, <2>3, <2>5, <3>1, GotoKeepsBase DEF IsReconcile
  <2> QED
    BY <1>13, <2>4, <2>5 DEF Release
<1>14. CASE Snapshot(t)
  <2>1. /\ th[t].pc = "snapshot" /\ th'[t].pc = "next_row" /\ Alone(t) /\ StoreSame /\ Keep
        /\ th'[t].kind = th[t].kind /\ th'[t].id = th[t].id
        /\ \A row \in th'[t].todo : row.id \in DeployIds
    BY <1>14, SnapshotFact
  <2>2. RowsStay /\ DeployIds' = DeployIds
    BY <1>1, <1>2, <2>1, StoreSameStays DEF DeployIds
  <2>3. RowOwned(t)' /\ ~HasRow(t)'
    BY <2>1, <2>2 DEF RowOwned
  <2>4. PlaceKept(t)' /\ (NeedsMutex(t)' => trigger' = t) /\ (NeedsSlot(t)' => slot' = t)
    BY <1>1, <2>1
  <2> QED
    BY <2>1, <2>2, <2>3, <2>4, MoveKeepsBase DEF OwnsRow
<1>15. CASE NextRow(t)
  <2>1. PICK row \in th[t].todo :
           /\ th[t].pc = "next_row" /\ th'[t].pc \in {"undo", "finish"} /\ Alone(t)
           /\ StoreSame /\ Keep
           /\ th'[t].kind = th[t].kind /\ th'[t].id = row.id
           /\ th'[t].app = deploys[row.id].app /\ th'[t].todo = th[t].todo \ {row}
    BY <1>1, <1>15, NextRowFact DEF RowOwned
  <2>2. row.id \in DeployIds
    BY <1>1 DEF RowOwned
  <2>3. RowsStay /\ DeployIds' = DeployIds /\ deploys' = deploys
    BY <1>1, <1>2, <2>1, StoreSameStays DEF DeployIds
  <2>4. RowOwned(t)'
    BY <1>1, <2>1, <2>2, <2>3 DEF RowOwned
  <2>5. PlaceKept(t)' /\ (NeedsMutex(t)' => trigger' = t) /\ (NeedsSlot(t)' => slot' = t)
    BY <1>1, <2>1
  <2>6. IsReconcile(t)
    BY <1>1, <2>1 DEF IsReconcile
  <2> QED
    BY <2>1, <2>2, <2>3, <2>4, <2>5, <2>6, MoveKeepsBase
<1>16. CASE FinishReconcile(t)
  <2>1. /\ th[t].pc = "next_row" /\ ReleaseOrphanedLocks /\ Quit(t)
        /\ daemon' = IF th[t].kind = "boot" THEN "up" ELSE daemon
        /\ UNCHANGED <<deploys, specs, events, crashes>>
    BY <1>16 DEF FinishReconcile
  <2>2. locks' \in [Apps -> 0..Len(deploys)]
    BY <1>1, <2>1, IdsKnown DEF ReleaseOrphanedLocks, StoreTypeOK, NoDeploy
  <2>3. RowsStay
    BY <1>1, <2>1, <2>2, LocksStay
  <2> QED
    BY <1>1, <2>1, <2>3, QuitKeepsBase
<1> QED
  BY <1>7, <1>8, <1>9, <1>10, <1>11, <1>12, <1>13, <1>14, <1>15, <1>16

\* A death, or a client's hanging up, takes threads away and adds nothing.
LEMMA DeathsKeepBase ==
  ASSUME BaseInv,
         DaemonDies \/ \E t \in Threads : CliDies(t) \/ Disconnect(t)
  PROVE  BaseInv'
<1> USE DEF BaseInv
<1>1. /\ th \in [Threads -> Thread] /\ StoreTypeOK
      /\ crashes \in 0..MaxCrashes /\ MaxCrashes \in Nat
  BY DaemonAssumption DEF TypeOK
<1>2. StoreSame => RowsStay
  BY <1>1, StoreSameStays
<1>3. ASSUME NEW t \in Threads, CliDies(t) \/ Disconnect(t) PROVE BaseInv'
  <2>1. Quit(t) /\ StoreSame /\ UNCHANGED daemon /\ crashes' \in 0..MaxCrashes
    BY <1>1, <1>3 DEF CliDies, Disconnect, Same
  <2> QED
    BY <1>2, <2>1, QuitKeepsBase
<1>4. CASE DaemonDies
  <2>1. /\ StoreSame /\ daemon' = "down" /\ trigger' = Nobody /\ slot' = Nobody
        /\ crashes' \in 0..MaxCrashes
        /\ th' = [u \in Threads |-> IF th[u].kind \in DaemonKind THEN IdleThread ELSE th[u]]
    BY <1>1, <1>4 DEF DaemonDies
  <2>2. /\ th' \in [Threads -> Thread]
        /\ \A u \in Threads : \/ th'[u].pc = "idle" /\ th'[u].kind = "button"
                                   /\ th'[u].id = 0 /\ th'[u].todo = {}
                              \/ th'[u] = th[u] /\ th[u].kind \notin DaemonKind
    BY <1>1, <2>1, IdleThreadType
  <2>3. UNCHANGED <<deploys, locks, specs, events>> /\ RowsStay /\ DeployIds' = DeployIds
    BY <1>1, <1>2, <2>1, StoreSameStays DEF DeployIds
  <2>4. TypeOK'
    BY <1>1, <2>1, <2>2, <2>3, IdsKnown DEF TypeOK, RowsStay
  <2>5. PlacesKept'
    BY <2>2 DEF PlacesKept, PlaceKept, Idle
  <2>6. MutexHeld' /\ SlotHeld'
    BY <2>2 DEF PlacesKept, PlaceKept, MutexHeld, NeedsMutex, SlotHeld, NeedsSlot, DaemonKind,
                Reserving, Deploying, Recovering
  <2>7. ServingKnown'
    BY <2>2 DEF ServingKnown, Idle, DaemonKind
  <2>8. RowsOwned'
    BY <2>2, <2>3 DEF RowsOwned, RowOwned, HasRow, IsReconcile, Deploying
  <2>9. IdsDistinct'
    BY <2>2 DEF IdsDistinct, OwnsRow, HasRow, IsReconcile, Deploying
  <2> QED
    BY <2>4, <2>5, <2>6, <2>7, <2>8, <2>9
<1> QED
  BY <1>3, <1>4

\* Nobody is at work at first.
LEMMA BaseInvInit == Init => BaseInv
<1> SUFFICES ASSUME Init PROVE BaseInv
  OBVIOUS
<1>1. StoreTypeOK
  BY EmptySeq, StoreAssumption DEF Init, StoreInit, StoreTypeOK, NoDeploy
<1>2. /\ th \in [Threads -> Thread]
      /\ \A t \in Threads : th[t].pc = "idle" /\ th[t].kind = "button"
                              /\ th[t].id = 0 /\ th[t].todo = {}
  BY IdleThreadType DEF Init
<1>3. TypeOK
  BY <1>1, <1>2, IdsKnown, DaemonAssumption DEF Init, TypeOK
<1> QED
  BY <1>2, <1>3 DEF BaseInv, PlacesKept, PlaceKept, MutexHeld, NeedsMutex, SlotHeld, NeedsSlot,
     ServingKnown, RowsOwned, RowOwned, IdsDistinct, OwnsRow, HasRow, IsReconcile, Idle,
     Reserving, Deploying, Recovering

\* BaseInv is inductive, whoever is at work.
LEMMA BaseInvNext == BaseInv /\ [Next]_vars => BaseInv'
<1> SUFFICES ASSUME BaseInv, [Next]_vars PROVE BaseInv'
  OBVIOUS
<1>1. ASSUME NEW t \in Threads, ThreadStep(t) PROVE BaseInv'
  BY <1>1, ArriveKeepsBase, HandlersKeepBase, WorkKeepsBase, DeathsKeepBase
  DEF ThreadStep, GetsTurn, Proceed
<1>2. CASE DaemonDies
  BY <1>2, DeathsKeepBase
<1>3. CASE UNCHANGED vars
  <2>1. UNCHANGED <<deploys, locks, specs, events, daemon, th, trigger, slot, crashes>>
    BY <1>3 DEF vars
  <2> QED
    BY <2>1 DEF BaseInv, TypeOK, StoreTypeOK, PlacesKept, PlaceKept, MutexHeld, NeedsMutex,
       SlotHeld, NeedsSlot, ServingKnown, RowsOwned, RowOwned, IdsDistinct, OwnsRow, HasRow,
       IsReconcile, Idle, DeployIds
<1> QED
  BY <1>1, <1>2, <1>3 DEF Next

------------------------------------------------------------------------------
(* GuardInv: the daemon by itself *)

\* No process deploys or recovers beside the daemon.
DaemonOnly == Kinds \subseteq DaemonKind

Working(t) == th[t].pc \in Deploying \cup Recovering

\* Every thread is then the daemon's.
LEMMA DaemonKinds ==
  ASSUME BaseInv, DaemonOnly, NEW t \in Threads
  PROVE  th[t].kind \in DaemonKind
BY DEF BaseInv, PlacesKept, PlaceKept, DaemonOnly, DaemonKind, Idle, Reserving, Deploying,
       Recovering

\* Whoever runs a stage, or a recovery, is alone: by the slot, or because the
\* daemon is not up yet.
LEMMA SlotExclusive ==
  ASSUME BaseInv, DaemonOnly, NEW t \in Threads, NEW u \in Threads, Working(t), Working(u)
  PROVE  t = u
<1>1. \A v \in Threads : th[v].kind \in DaemonKind
  BY DaemonKinds
<1>2. ~Idle(t) /\ ~Idle(u)
  BY DEF Working, Deploying, Recovering, Idle
<1>3. \A v \in {t, u} : th[v].kind = "boot" \/ slot = v
  BY <1>1 DEF BaseInv, SlotHeld, NeedsSlot, Working, DaemonKind
<1> QED
  BY <1>1, <1>2, <1>3 DEF BaseInv, ServingKnown, DaemonKind

\* One handler at a time is past the mutex.
LEMMA MutexExclusive ==
  ASSUME BaseInv, NEW t \in Threads, NEW u \in Threads, NeedsMutex(t), NeedsMutex(u)
  PROVE  t = u
BY DEF BaseInv, MutexHeld

\* The rows keep their statuses.
RowsSame ==
  /\ DeployIds' = DeployIds
  /\ \A d \in DeployIds : /\ deploys'[d].status = deploys[d].status
                          /\ deploys'[d].app = deploys[d].app

\* A step that ends no row, records no spec and lets nobody in.
LEMMA GuardFrame ==
  ASSUME GuardInv, BaseInv', NEW t \in Threads, Alone(t), RowsSame, UNCHANGED specs,
         Current(t)' => /\ Current(t) /\ th'[t].id = th[t].id /\ th'[t].app = th[t].app
                        /\ th[t].pc = "create" => th'[t].pc = "create",
         ~IsReconcile(t)' /\ th'[t].pc \in {"stage", "undo", "put_spec", "finish"}
           => InProgress(th[t].id)',
         th'[t].pc = "finish" => th'[t].outcome # "done"
  PROVE  GuardInv'
<1> USE DEF GuardInv
<1>1. \A u \in Threads : u # t => th'[u] = th[u]
  BY DEF Alone
<1>2. \A u \in Threads : HasRow(u) => th[u].id \in DeployIds
  BY DEF BaseInv, RowsOwned, RowOwned
<1>3. \A d \in DeployIds : InProgress(d)' <=> InProgress(d)
  BY DEF RowsSame, InProgress
<1>4. WorkIsLive'
  BY <1>1, <1>2, <1>3 DEF WorkIsLive, HasRow, Deploying, IsReconcile
<1>5. \A u \in Threads : Current(u)' =>
        /\ Current(u) /\ th'[u].id = th[u].id /\ th'[u].app = th[u].app
        /\ th[u].pc = "create" => th'[u].pc = "create"
  <2> SUFFICES ASSUME NEW u \in Threads, u # t, Current(u)'
               PROVE Current(u) /\ th'[u] = th[u]
    BY DEF Current
  <2>1. th'[u] = th[u]
    BY <1>1
  <2>2. th[u].pc \in {"slot", "begin", "stage", "undo", "put_spec", "finish"}
          /\ ~IsReconcile(u) => HasRow(u)
    BY DEF HasRow, Deploying
  <2> QED
    BY <1>2, <1>3, <2>1, <2>2 DEF Current, IsReconcile
<1>6. OnePerApp'
  BY <1>5 DEF OnePerApp
<1>7. NotOvertaken'
  BY <1>5 DEF NotOvertaken, RowsSame
<1>8. DoneIsRecorded'
  BY <1>1 DEF DoneIsRecorded, At, IsReconcile
<1>9. LastGoodIsNewest'
  BY DEF LastGoodIsNewest, RowsSame
<1> QED
  BY <1>4, <1>6, <1>7, <1>8, <1>9

\* A thread that quits, with the rows as they are.
LEMMA QuitKeepsGuard ==
  ASSUME GuardInv, BaseInv', NEW t \in Threads, Quit(t), RowsSame, UNCHANGED specs
  PROVE  GuardInv'
<1>1. Alone(t) /\ th'[t].pc = "idle"
  BY QuitFact, IdleThreadType DEF GuardInv, BaseInv, TypeOK
<1> QED
  BY <1>1, GuardFrame DEF Current

\* An ending: of the thread's own row, or of one no thread works for.
LEMMA EndingKeepsGuard ==
  ASSUME GuardInv, BaseInv', DaemonOnly, NEW t \in Threads, Alone(t), UNCHANGED specs,
         HasRow(t), DeployIds' = DeployIds,
         \A i \in DeployIds : i # th[t].id => deploys'[i] = deploys[i],
         deploys'[th[t].id].app = deploys[th[t].id].app,
         deploys'[th[t].id].status # "in_progress",
         IsReconcile(t) => Working(t),
         th'[t].pc \in {"idle", "give_up", "release"},
         deploys'[th[t].id].status = "done" => At(t, "finish") /\ th[t].outcome = "done"
  PROVE  GuardInv'
<1> USE DEF GuardInv
<1> DEFINE d == th[t].id
<1>1. \A u \in Threads : u # t => th'[u] = th[u]
  BY DEF Alone
<1>2. \A u \in Threads : HasRow(u) => th[u].id \in DeployIds /\ deploys[th[u].id].app = th[u].app
  BY DEF BaseInv, RowsOwned, RowOwned
<1>3. \A u \in Threads :
        u # t /\ ~IsReconcile(u) /\ th[u].pc \in {"stage", "undo", "put_spec", "finish"}
        => th[u].id # d
  <2> SUFFICES ASSUME NEW u \in Threads, u # t, ~IsReconcile(u),
                      th[u].pc \in {"stage", "undo", "put_spec", "finish"}, th[u].id = d
               PROVE FALSE
    OBVIOUS
  <2>1. HasRow(u) /\ Working(u)
    BY DEF HasRow, Working, Deploying, Recovering
  <2>2. CASE IsReconcile(t)
    BY <2>1, <2>2, SlotExclusive
  <2>3. CASE ~IsReconcile(t)
    BY <2>1, <2>3 DEF BaseInv, IdsDistinct, OwnsRow
  <2> QED
    BY <2>2, <2>3
<1>4. \A i \in DeployIds : InProgress(i)' => InProgress(i) /\ i # d
  BY DEF InProgress
<1>5. WorkIsLive'
  <2> SUFFICES ASSUME NEW u \in Threads, ~IsReconcile(u)',
                      th'[u].pc \in {"stage", "undo", "put_spec", "finish"}
               PROVE InProgress(th[u].id)'
    BY DEF WorkIsLive
  <2>1. u # t /\ th'[u] = th[u]
    BY <1>1
  <2>2. InProgress(th[u].id) /\ th[u].id # d /\ th[u].id \in DeployIds
    BY <1>2, <1>3, <2>1 DEF WorkIsLive, IsReconcile, HasRow, Deploying
  <2> QED
    BY <2>1, <2>2 DEF InProgress
<1>6. \A u \in Threads : Current(u)' => u # t /\ Current(u) /\ th'[u] = th[u]
  <2> SUFFICES ASSUME NEW u \in Threads, Current(u)' PROVE u # t /\ Current(u) /\ th'[u] = th[u]
    OBVIOUS
  <2>1. u # t /\ th'[u] = th[u]
    BY <1>1 DEF Current
  <2>2. th[u].pc \in {"slot", "begin", "stage", "undo", "put_spec", "finish"}
          /\ ~IsReconcile(u) => HasRow(u)
    BY DEF HasRow, Deploying
  <2> QED
    BY <1>2, <1>4, <2>1, <2>2 DEF Current, IsReconcile
<1>7. OnePerApp'
  BY <1>6 DEF OnePerApp
<1>8. deploys'[d].status = "done" =>
        Current(t) /\ ~IsReconcile(t) /\ specs[th[t].app] = d /\ deploys[d].app = th[t].app
  BY <1>2 DEF DoneIsRecorded, WorkIsLive, Current, At
<1>9. NotOvertaken'
  <2> SUFFICES ASSUME NEW u \in Threads, Current(u)', th'[u].pc # "create",
                      NEW i \in DeployIds, i > th[u].id, deploys'[i].app = th[u].app,
                      deploys'[i].status = "done"
               PROVE FALSE
    BY <1>6 DEF NotOvertaken
  <2>1. Current(u) /\ u # t /\ th'[u] = th[u]
    BY <1>6
  <2>2. CASE i = d
    BY <1>8, <2>1, <2>2 DEF OnePerApp
  <2>3. CASE i # d
    BY <2>1, <2>3 DEF NotOvertaken
  <2> QED
    BY <2>2, <2>3
<1>10. DoneIsRecorded'
  BY <1>1 DEF DoneIsRecorded, At, IsReconcile
<1>11. LastGoodIsNewest'
  <2> SUFFICES ASSUME NEW i \in DeployIds, deploys'[i].status = "done"
               PROVE  LET good == specs[deploys'[i].app] IN good # NoSpec /\ i <= good
    BY DEF LastGoodIsNewest
  <2>1. CASE i = d
    <3>1. d \in DeployIds /\ d \in Nat /\ d # NoSpec
      BY <1>2, IdsKnown, StoreAssumption DEF BaseInv, TypeOK
    <3> QED
      BY <1>8, <2>1, <3>1
  <2>2. CASE i # d
    BY <2>2 DEF LastGoodIsNewest
  <2> QED
    BY <2>1, <2>2
<1> QED
  BY <1>5, <1>7, <1>9, <1>10, <1>11

\* A handler is let in only where no attempt is current: the mutex keeps it
\* apart from those without a row, and the row from all others.
LEMMA EnsureKeepsGuard ==
  ASSUME GuardInv, BaseInv', DaemonOnly, NEW t \in Threads, EnsureNotBusy(t)
  PROVE  GuardInv'
<1> USE DEF GuardInv
<1>1. /\ th[t].pc = "check" /\ StoreSame /\ NeedsMutex(t)
      /\ th \in [Threads -> Thread] /\ StoreTypeOK
  BY DEF EnsureNotBusy, At, NeedsMutex, BaseInv, TypeOK
<1>2. RowsSame /\ UNCHANGED <<deploys, locks, specs, events>>
  BY <1>1, StoreSameStays DEF RowsSame, DeployIds
<1>3. CASE Quit(t)
  BY <1>2, <1>3, QuitKeepsGuard
<1>4. ASSUME Goto(t, "record") PROVE GuardInv'
  <2>1. Alone(t) /\ th'[t].pc = "record"
    BY <1>1, <1>4, GotoFact DEF Place
  <2> QED
    BY <1>2, <2>1, GuardFrame DEF Current
<1>5. \A u \in Threads : th[u].kind # "cli"
  BY DaemonKinds DEF DaemonKind
<1>6. CASE ~AppBusy(th[t].app) /\ Goto(t, "create")
  <2>1. Alone(t) /\ th'[t].pc = "create" /\ Kept(th'[t], th[t])
    BY <1>1, <1>6, GotoFact DEF Place
  <2>2. \A u \in Threads : u # t => th'[u] = th[u]
    BY <2>1 DEF Alone
  <2>3. \A u \in Threads : u # t /\ Current(u) => th[u].app # th[t].app
    <3> SUFFICES ASSUME NEW u \in Threads, u # t, Current(u), th[u].app = th[t].app
                 PROVE FALSE
      OBVIOUS
    <3>1. CASE th[u].pc \in {"create", "acquire", "git"}
      <4>1. NeedsMutex(u)
        BY <1>5, <3>1 DEF NeedsMutex, Reserving
      <4> QED
        BY <1>1, <4>1, MutexExclusive
    <3>2. CASE /\ th[u].pc \in {"slot", "begin", "stage", "undo", "put_spec", "finish"}
               /\ InProgress(th[u].id)
      <4>1. HasRow(u)
        BY <3>2 DEF HasRow, Deploying, Current
      <4>2. th[u].id \in InProgressDeploys /\ deploys[th[u].id].app = th[u].app
        BY <3>2, <4>1 DEF BaseInv, RowsOwned, RowOwned, InProgressDeploys
      <4> QED
        BY <1>6, <4>2 DEF AppBusy
    <3> QED
      BY <3>1, <3>2 DEF Current
  <2>4. \A u \in Threads : u # t => (Current(u)' <=> Current(u))
    BY <1>2, <2>2 DEF Current, IsReconcile, InProgress
  <2>5. OnePerApp'
    BY <2>1, <2>2, <2>3, <2>4 DEF OnePerApp, Kept
  <2>6. NotOvertaken'
    BY <1>2, <2>1, <2>2, <2>4 DEF NotOvertaken, DeployIds
  <2>7. WorkIsLive' /\ DoneIsRecorded' /\ LastGoodIsNewest'
    BY <1>2, <2>1, <2>2 DEF WorkIsLive, DoneIsRecorded, LastGoodIsNewest, At, IsReconcile,
                            InProgress, DeployIds
  <2> QED
    BY <2>5, <2>6, <2>7
<1> QED
  BY <1>3, <1>4, <1>6 DEF EnsureNotBusy

\* A new row belongs to the only handler that could create one.
LEMMA CreatesKeepGuard ==
  ASSUME GuardInv, BaseInv', NEW t \in Threads, RecordRefusal(t) \/ Create(t)
  PROVE  GuardInv'
<1> USE DEF GuardInv
<1> DEFINE n == Len(deploys) + 1
<1>1. /\ Alone(t) /\ th'[t].kind = th[t].kind /\ th'[t].app = th[t].app /\ th'[t].id = n
      /\ \/ th[t].pc = "record" /\ th'[t].pc = "give_up"
         \/ th[t].pc = "create" /\ th'[t].pc = "acquire"
      /\ CreateDeploy(th[t].app) /\ UNCHANGED <<locks, specs>>
      /\ th[t].app \in Apps /\ StoreTypeOK
  BY CreatesFact DEF BaseInv, TypeOK
<1>2. /\ DeployIds' = DeployIds \cup {n} /\ n \notin DeployIds
      /\ deploys'[n].status = "in_progress"
      /\ \A d \in DeployIds : deploys'[d] = deploys[d]
      /\ \A d \in DeployIds' : ~(d > n)
  BY <1>1, CreateStays, IdsKnown DEF DeployIds
<1> HIDE DEF n
<1>3. \A u \in Threads : u # t => th'[u] = th[u]
  BY <1>1 DEF Alone
<1>4. \A u \in Threads : HasRow(u) => th[u].id \in DeployIds
  BY DEF BaseInv, RowsOwned, RowOwned
<1>5. WorkIsLive'
  BY <1>1, <1>2, <1>3, <1>4 DEF WorkIsLive, InProgress, HasRow, Deploying, IsReconcile
<1>6. \A u \in Threads : u # t => (Current(u)' <=> Current(u))
  BY <1>2, <1>3, <1>4 DEF Current, InProgress, HasRow, Deploying, IsReconcile
<1>7. Current(t)' => Current(t) /\ th'[t].pc = "acquire"
  BY <1>1 DEF Current, IsReconcile
<1>8. OnePerApp'
  BY <1>1, <1>3, <1>6, <1>7 DEF OnePerApp
<1>9. NotOvertaken'
  <2> SUFFICES ASSUME NEW u \in Threads, Current(u)', th'[u].pc # "create",
                      NEW d \in DeployIds', d > th'[u].id, deploys'[d].app = th'[u].app,
                      deploys'[d].status = "done"
               PROVE FALSE
    BY DEF NotOvertaken
  <2>1. u # t
    BY <1>1, <1>2
  <2>2. d \in DeployIds
    BY <1>2
  <2> QED
    BY <1>2, <1>3, <1>6, <2>1, <2>2 DEF NotOvertaken
<1>10. DoneIsRecorded'
  BY <1>1, <1>3 DEF DoneIsRecorded, At, IsReconcile
<1>11. LastGoodIsNewest'
  BY <1>1, <1>2 DEF LastGoodIsNewest
<1> QED
  BY <1>5, <1>8, <1>9, <1>10, <1>11

\* The other steps of a handler.
LEMMA HandlersKeepGuard ==
  ASSUME GuardInv, BaseInv', DaemonOnly, NEW t \in Threads,
         \/ TakeTrigger(t) \/ TurnAway(t)
         \/ GiveUp(t) \/ Acquire(t) \/ LockBusy(t) \/ Refuse(t)
         \/ GitDone(t) \/ GitFails(t) \/ EnterSlot(t)
  PROVE  GuardInv'
<1>1. /\ th \in [Threads -> Thread] /\ StoreTypeOK /\ BaseInv
      /\ RowOwned(t) /\ PlaceKept(t) /\ th[t].kind # "cli"
  BY DaemonKinds DEF GuardInv, BaseInv, TypeOK, RowsOwned, PlacesKept, DaemonKind
<1>2. StoreSame => RowsSame /\ UNCHANGED specs
  BY <1>1, StoreSameStays DEF RowsSame, DeployIds
<1>3. ASSUME NEW pc \in Place, Goto(t, pc)
      PROVE  Alone(t) /\ th'[t].pc = pc /\ Kept(th'[t], th[t])
  BY <1>1, <1>3, GotoFact
<1>4. HasRow(t) => th[t].id \in DeployIds /\ deploys[th[t].id].app = th[t].app
  BY <1>1 DEF RowOwned
\* A step that only moves the thread.
<1>5. ASSUME NEW pc \in Place, Goto(t, pc), RowsSame, UNCHANGED specs,
             \/ pc \in {"check", "refuse", "give_up"}
             \/ th[t].pc \in {"acquire", "git"} /\ pc \in {"git", "slot"}
             \/ th[t].pc = "slot" /\ pc \in {"begin", "snapshot"}
      PROVE  GuardInv'
  <2>1. Alone(t) /\ th'[t].pc = pc /\ Kept(th'[t], th[t])
    BY <1>3, <1>5
  <2>2. Current(t)' => Current(t) /\ th[t].pc # "create"
    <3>1. CASE th[t].pc = "slot"
      <4>1. ~IsReconcile(t) => th[t].id \in DeployIds
        BY <1>4, <3>1 DEF HasRow
      <4> QED
        BY <1>5, <2>1, <3>1, <4>1 DEF Current, IsReconcile, Kept, InProgress, RowsSame
    <3>2. CASE th[t].pc # "slot"
      BY <1>5, <2>1, <3>2 DEF Current, IsReconcile, Kept
    <3> QED
      BY <3>1, <3>2
  <2> QED
    BY <1>5, <2>1, <2>2, GuardFrame DEF Kept
<1> USE DEF Place, At
<1>6. CASE TakeTrigger(t)
  BY <1>2, <1>5, <1>6 DEF TakeTrigger
<1>7. CASE TurnAway(t)
  BY <1>2, <1>7, QuitKeepsGuard DEF TurnAway
<1>8. CASE GiveUp(t)
  <2>1. /\ th[t].pc = "give_up" /\ FinishDeployWithEvent(th[t].id, "failed") /\ Quit(t)
        /\ UNCHANGED specs
    BY <1>8 DEF GiveUp
  <2>2. HasRow(t) /\ ~IsReconcile(t)
    BY <1>1, <2>1 DEF HasRow, IsReconcile, PlaceKept, Recovering, Deploying, Reserving
  <2>3. /\ RowsStay /\ DeployIds' = DeployIds /\ deploys'[th[t].id].status = "failed"
        /\ \A i \in DeployIds : i # th[t].id => deploys'[i] = deploys[i]
    BY <1>1, <1>4, <2>1, <2>2, FinishEventStays DEF Terminal
  <2>4. Alone(t) /\ th'[t].pc = "idle"
    BY <1>1, <2>1, QuitFact, IdleThreadType
  <2> QED
    BY <1>4, <2>1, <2>2, <2>3, <2>4, EndingKeepsGuard DEF RowsStay
<1>9. CASE Acquire(t)
  <2>1. th[t].pc = "acquire" /\ UNCHANGED <<deploys, specs>> /\ RowsSame
    BY <1>9 DEF Acquire, RowsSame, DeployIds
  <2>2. Goto(t, "slot") \/ Goto(t, "git")
    BY <1>1, <1>9 DEF Acquire
  <2> QED
    BY <1>5, <2>1, <2>2
<1>10. CASE LockBusy(t)
  BY <1>2, <1>5, <1>10 DEF LockBusy
<1>11. CASE Refuse(t)
  <2>1. /\ th[t].pc = "refuse" /\ FinishDeploy(th[t].id, "failed")
        /\ UNCHANGED <<locks, specs, events>>
        /\ Quit(t) \/ Goto(t, "give_up")
    BY <1>11 DEF Refuse
  <2>2. HasRow(t) /\ ~IsReconcile(t)
    BY <1>1, <2>1 DEF HasRow, IsReconcile, PlaceKept, Recovering, Deploying, Reserving
  <2>3. /\ RowsStay /\ DeployIds' = DeployIds /\ deploys'[th[t].id].status = "failed"
        /\ \A i \in DeployIds : i # th[t].id => deploys'[i] = deploys[i]
    BY <1>1, <1>4, <2>1, <2>2, RefusalStays
  <2>4. Alone(t) /\ th'[t].pc \in {"idle", "give_up"}
    BY <1>1, <1>3, <2>1, QuitFact, IdleThreadType
  <2> QED
    BY <1>4, <2>1, <2>2, <2>3, <2>4, EndingKeepsGuard DEF RowsStay
<1>12. CASE GitDone(t)
  BY <1>2, <1>5, <1>12 DEF GitDone
<1>13. CASE GitFails(t)
  BY <1>2, <1>5, <1>13 DEF GitFails
<1>14. CASE EnterSlot(t)
  BY <1>2, <1>5, <1>14 DEF EnterSlot
<1> QED
  BY <1>6, <1>7, <1>8, <1>9, <1>10, <1>11, <1>12, <1>13, <1>14

\* The record of success is the newest of its app: no later attempt can have
\* ended well while this one was current.
LEMMA RecordKeepsGuard ==
  ASSUME GuardInv, BaseInv', DaemonOnly, NEW t \in Threads, RecordSpec(t)
  PROVE  GuardInv'
<1> USE DEF GuardInv
<1> DEFINE d == th[t].id
<1>1. /\ th[t].pc = "put_spec" /\ PutSpec(th[t].app, d) /\ Goto(t, "finish")
      /\ UNCHANGED <<deploys, locks, events>>
      /\ th \in [Threads -> Thread] /\ StoreTypeOK /\ th[t].app \in Apps
  BY DEF RecordSpec, At, BaseInv, TypeOK, Thread
<1>2. Alone(t) /\ th'[t].pc = "finish" /\ Kept(th'[t], th[t])
  BY <1>1, GotoFact DEF Place
<1>3. \A u \in Threads : u # t => th'[u] = th[u]
  BY <1>2 DEF Alone
<1>4. ~IsReconcile(t) /\ HasRow(t) /\ d \in DeployIds
  BY <1>1 DEF BaseInv, PlacesKept, PlaceKept, RowsOwned, RowOwned, HasRow, IsReconcile,
              Deploying, Recovering
<1>5. Current(t)
  BY <1>1, <1>4 DEF Current, WorkIsLive
<1>6. DeployIds' = DeployIds /\ \A b \in Apps : specs'[b] = IF b = th[t].app THEN d ELSE specs[b]
  BY <1>1, <1>4, SpecStays
<1>7. \A u \in Threads : Current(u)' => Current(u) /\ th'[u].app = th[u].app
  BY <1>1, <1>2, <1>3, <1>5 DEF Current, InProgress, IsReconcile, Kept
<1>8. OnePerApp'
  BY <1>5, <1>7 DEF OnePerApp
<1>9. WorkIsLive'
  BY <1>1, <1>2, <1>3 DEF WorkIsLive, InProgress, IsReconcile, Kept
<1>10. NotOvertaken'
  BY <1>1, <1>2, <1>3, <1>5, <1>6 DEF NotOvertaken, Current, InProgress, IsReconcile, Kept
<1>11. DoneIsRecorded'
  <2> SUFFICES ASSUME NEW u \in Threads, th'[u].pc = "finish", th'[u].outcome = "done"
               PROVE ~IsReconcile(u)' /\ specs'[th'[u].app] = th'[u].id
    BY DEF DoneIsRecorded, At
  <2>1. u = t
    <3>1. u # t => Working(u) /\ Working(t)
      BY <1>1, <1>3 DEF Working, Deploying
    <3> QED
      BY <3>1, SlotExclusive
  <2> QED
    BY <1>1, <1>2, <1>4, <1>6, <2>1 DEF IsReconcile, Kept
<1>12. LastGoodIsNewest'
  <2> SUFFICES ASSUME NEW i \in DeployIds, deploys[i].status = "done"
               PROVE  LET good == specs'[deploys[i].app] IN good # NoSpec /\ i <= good
    BY <1>1, <1>6 DEF LastGoodIsNewest
  <2>1. deploys[i].app \in Apps
    BY <1>1, RowTyped
  <2>2. CASE deploys[i].app = th[t].app
    <3>1. ~(i > d)
      BY <1>1, <1>5, <2>2 DEF NotOvertaken
    <3>2. i \in Nat /\ d \in Nat /\ d # NoSpec
      BY <1>1, <1>4, IdsKnown, StoreAssumption
    <3> QED
      BY <1>6, <2>1, <2>2, <3>1, <3>2
  <2>3. CASE deploys[i].app # th[t].app
    BY <1>6, <2>1, <2>3 DEF LastGoodIsNewest
  <2> QED
    BY <2>2, <2>3
<1> QED
  BY <1>8, <1>9, <1>10, <1>11, <1>12

\* The other steps of an attempt and of a recovery.
LEMMA WorkKeepsGuard ==
  ASSUME GuardInv, BaseInv', DaemonOnly, NEW t \in Threads,
         \/ Begin(t) \/ BeginStale(t) \/ StageDone(t) \/ StageFails(t) \/ Compensate(t)
         \/ Finish(t) \/ Release(t) \/ Snapshot(t) \/ NextRow(t) \/ FinishReconcile(t)
  PROVE  GuardInv'
<1>1. /\ th \in [Threads -> Thread] /\ StoreTypeOK /\ BaseInv /\ TypeOK
      /\ RowOwned(t) /\ PlaceKept(t) /\ th[t] \in Thread
  BY DEF GuardInv, BaseInv, TypeOK, RowsOwned, PlacesKept
<1>2. StoreSame => RowsSame /\ UNCHANGED specs
  BY <1>1, StoreSameStays DEF RowsSame, DeployIds
<1>3. ASSUME NEW pc \in Place, Goto(t, pc)
      PROVE  Alone(t) /\ th'[t].pc = pc /\ Kept(th'[t], th[t])
  BY <1>1, <1>3, GotoFact
<1>4. HasRow(t) => th[t].id \in DeployIds /\ deploys[th[t].id].app = th[t].app
  BY <1>1 DEF RowOwned
<1>5. th[t].pc \in {"stage", "undo"} /\ ~IsReconcile(t) => InProgress(th[t].id)
  BY DEF GuardInv, WorkIsLive
\* A step of an attempt whose row is unfinished, or of a recovery.
<1>6. ASSUME Alone(t), RowsSame, UNCHANGED specs,
             th'[t].kind = th[t].kind, th'[t].app = th[t].app, th'[t].id = th[t].id,
             th[t].pc \in {"begin", "stage", "undo"},
             th'[t].pc \in {"begin", "stage", "put_spec", "undo", "finish"},
             ~IsReconcile(t) => InProgress(th[t].id),
             th'[t].pc = "finish" => th'[t].outcome # "done"
      PROVE  GuardInv'
  <2>1. th[t].id \in DeployIds
    BY <1>4, <1>6 DEF HasRow, Deploying
  <2>2. ~IsReconcile(t)' => InProgress(th[t].id)'
    BY <1>6, <2>1 DEF IsReconcile, RowsSame, InProgress
  <2>3. Current(t)' => Current(t)
    BY <1>6 DEF Current, IsReconcile
  <2> QED
    BY <1>6, <2>2, <2>3, GuardFrame
\* A step that leaves the attempt, or stays between two rows of a recovery.
<1>7. ASSUME Alone(t), RowsSame, UNCHANGED specs, th'[t].pc \in {"release", "next_row"}
      PROVE  GuardInv'
  BY <1>7, GuardFrame DEF Current
<1> USE DEF Place, At
<1>8. CASE Begin(t)
  <2>1. /\ th[t].pc = "begin" /\ AdvanceStage(th[t].id, Running(t)) /\ Goto(t, "stage")
        /\ UNCHANGED <<locks, specs, events>>
    BY <1>8 DEF Begin
  <2>2. Running(t) \in Stage
    BY <1>1, DaemonAssumption, ElementOfSeq DEF Running, Thread
  <2>3. th[t].id \in DeployIds
    BY <1>4, <2>1 DEF HasRow, Deploying
  <2>4. RowsSame /\ InProgress(th[t].id)
    BY <1>1, <2>1, <2>2, <2>3, AdvanceStays DEF RowsSame, RowsStay
  <2> QED
    BY <1>3, <1>6, <2>1, <2>4 DEF Kept
<1>9. CASE BeginStale(t)
  BY <1>2, <1>3, <1>7, <1>9 DEF BeginStale
<1>10. CASE StageDone(t)
  BY <1>1, <1>2, <1>5, <1>6, <1>10, StageDoneFact
<1>11. CASE StageFails(t) \/ Compensate(t)
  BY <1>1, <1>2, <1>5, <1>6, <1>11, FailureFact
<1>12. CASE Finish(t)
  <2>1. /\ th[t].pc = "finish" /\ FinishDeployWithEvent(th[t].id, th[t].outcome)
        /\ Goto(t, "release") /\ UNCHANGED specs
    BY <1>12 DEF Finish
  <2>2. HasRow(t) /\ Working(t)
    BY <2>1 DEF HasRow, Deploying, Working
  <2>3. th[t].outcome \in Terminal /\ th[t].outcome # "in_progress"
    BY <1>1 DEF Thread, Terminal
  <2>4. /\ RowsStay /\ DeployIds' = DeployIds /\ deploys'[th[t].id].status = th[t].outcome
        /\ \A i \in DeployIds : i # th[t].id => deploys'[i] = deploys[i]
    BY <1>1, <1>4, <2>1, <2>2, <2>3, FinishEventStays
  <2> QED
    BY <1>3, <1>4, <2>1, <2>2, <2>3, <2>4, EndingKeepsGuard DEF RowsStay
<1>13. CASE Release(t)
  <2>1. UNCHANGED <<deploys, specs>> /\ RowsSame
    BY <1>13 DEF Release, RowsSame, DeployIds
  <2> QED
    BY <1>3, <1>7, <1>13, <2>1, QuitKeepsGuard DEF Release
<1>14. CASE Snapshot(t)
  BY <1>1, <1>2, <1>7, <1>14, SnapshotFact
<1>15. CASE NextRow(t)
  <2>1. /\ th[t].pc = "next_row" /\ th'[t].pc \in {"undo", "finish"} /\ Alone(t) /\ StoreSame
        /\ th'[t].kind = th[t].kind /\ th'[t].outcome # "done"
    BY <1>1, <1>15, NextRowFact DEF RowOwned
  <2>2. IsReconcile(t)'
    BY <1>1, <2>1 DEF IsReconcile, PlaceKept, Reserving, Deploying
  <2> QED
    BY <1>2, <2>1, <2>2, GuardFrame DEF Current
<1>16. CASE FinishReconcile(t)
  <2>1. Quit(t) /\ UNCHANGED <<deploys, specs>> /\ RowsSame
    BY <1>16 DEF FinishReconcile, RowsSame, DeployIds
  <2> QED
    BY <2>1, QuitKeepsGuard
<1> QED
  BY <1>8, <1>9, <1>10, <1>11, <1>12, <1>13, <1>14, <1>15, <1>16

\* Arrivals, deaths and clients that hang up.
LEMMA OthersKeepGuard ==
  ASSUME GuardInv, BaseInv', DaemonOnly,
         \/ DaemonDies
         \/ \E t \in Threads : \/ CliDies(t) \/ Disconnect(t)
                               \/ \E app \in Apps : Arrive(t, app)
  PROVE  GuardInv'
<1>1. /\ th \in [Threads -> Thread] /\ StoreTypeOK /\ BaseInv
  BY DEF GuardInv, BaseInv, TypeOK
<1>2. StoreSame => RowsSame /\ UNCHANGED specs
  BY <1>1, StoreSameStays DEF RowsSame, DeployIds
<1>3. ASSUME NEW t \in Threads, CliDies(t) \/ Disconnect(t) PROVE GuardInv'
  BY <1>2, <1>3, QuitKeepsGuard DEF CliDies, Disconnect
<1>4. ASSUME NEW t \in Threads, NEW app \in Apps, Arrive(t, app) PROVE GuardInv'
  <2>1. PICK kind \in ThreadKind, pc \in Place :
          /\ Start(t, kind, app, pc)
          /\ \/ pc \in {"lock", "snapshot"}
             \/ kind = "reconcile_api" /\ pc = "slot"
             \/ kind = "cli" /\ pc = "create"
    BY <1>4 DEF Arrive, Request, AskReconcile, CliDeploy, CliReconcile, Boot, ThreadKind, Place
  <2>2. /\ Alone(t) /\ kind \in Kinds /\ StoreSame
        /\ th'[t].kind = kind /\ th'[t].pc = pc
    BY <1>1, <2>1, StartFact
  <2>3. kind # "cli"
    BY <2>2 DEF DaemonOnly, DaemonKind
  <2>4. ~Current(t)' /\ th'[t].pc \notin {"stage", "undo", "put_spec", "finish"}
    BY <2>1, <2>2, <2>3 DEF Current, IsReconcile
  <2> QED
    BY <1>2, <2>2, <2>4, GuardFrame
<1>5. CASE DaemonDies
  <2>1. StoreSame
        /\ th' = [t \in Threads |-> IF th[t].kind \in DaemonKind THEN IdleThread ELSE th[t]]
    BY <1>5 DEF DaemonDies
  <2>2. \A t \in Threads : th'[t].pc = "idle"
    BY <1>1, <2>1, DaemonKinds, IdleThreadType
  <2>3. RowsSame /\ UNCHANGED specs /\ LastGoodIsNewest
    BY <1>2, <2>1 DEF GuardInv
  <2> QED
    BY <2>2, <2>3 DEF GuardInv, WorkIsLive, OnePerApp, NotOvertaken, DoneIsRecorded, Current,
                      LastGoodIsNewest, RowsSame, At
<1> QED
  BY <1>3, <1>4, <1>5

\* GuardInv is inductive while the daemon is the only one at work.
LEMMA GuardInvNext ==
  ASSUME DaemonOnly, GuardInv, [Next]_vars
  PROVE  GuardInv'
<1>1. BaseInv'
  BY BaseInvNext DEF GuardInv
<1>2. ASSUME NEW t \in Threads, ThreadStep(t) PROVE GuardInv'
  BY <1>1, <1>2, EnsureKeepsGuard, CreatesKeepGuard, HandlersKeepGuard, RecordKeepsGuard,
     WorkKeepsGuard, OthersKeepGuard
  DEF ThreadStep, GetsTurn, Proceed
<1>3. CASE DaemonDies
  BY <1>1, <1>3, OthersKeepGuard
<1>4. CASE UNCHANGED vars
  <2>1. UNCHANGED <<deploys, locks, specs, events, daemon, th, trigger, slot, crashes>>
    BY <1>4 DEF vars
  <2> QED
    BY <1>1, <2>1 DEF GuardInv, WorkIsLive, OnePerApp, NotOvertaken, DoneIsRecorded, Current,
                      LastGoodIsNewest, InProgress, IsReconcile, At, DeployIds
<1> QED
  BY <1>2, <1>3, <1>4 DEF Next

\* Before the first request there is nothing to guard.
LEMMA GuardInvInit == Init => GuardInv
<1> SUFFICES ASSUME Init PROVE GuardInv
  OBVIOUS
<1>1. \A t \in Threads : th[t].pc = "idle"
  BY IdleThreadType DEF Init
<1>2. DeployIds = {}
  BY EmptySeq, IdsKnown, BaseInvInit DEF Init, StoreInit, DeployIds
<1> QED
  BY <1>1, <1>2, BaseInvInit DEF GuardInv, WorkIsLive, OnePerApp, NotOvertaken, DoneIsRecorded,
     Current, LastGoodIsNewest, At

\* The mutex, the slot and the rows do what the handlers rely on: for any
\* threads, apps, crashes and hang-ups, when no CLI process works beside the
\* daemon.
THEOREM GuardsHold ==
  ASSUME DaemonOnly
  PROVE  Spec => []GuardInv
<1>1. Init => GuardInv
  BY GuardInvInit
<1>2. GuardInv /\ [Next]_vars => GuardInv'
  BY GuardInvNext
<1> QED
  BY <1>1, <1>2, PTL DEF Spec

\* Two tasks, or a task and a recovery, never write one app's unit and route
\* at once: only the holder of the slot, or a boot before the daemon serves,
\* writes at all.
THEOREM WritersApart ==
  ASSUME DaemonOnly
  PROVE  Spec => []OneWriterPerApp
<1>1. GuardInv => OneWriterPerApp
  <2>1. \A t \in Threads : Writing(t) => Working(t)
    BY DEF Writing, Working, At, Deploying
  <2> QED
    BY <2>1, SlotExclusive DEF OneWriterPerApp, GuardInv
<1> QED
  BY <1>1, GuardsHold, PTL

\* A hook's fetch and reset meet neither another hook's nor a running stage of
\* the same app: a hook at git is current, so is an attempt at a stage, and there
\* is one current attempt per app; hence, where every app has a checkout of its
\* own, of the same checkout.
THEOREM CheckoutsApart ==
  ASSUME DaemonOnly, CheckoutsOwned
  PROVE  Spec => []CheckoutExclusive
<1>1. GuardInv => CheckoutExclusive
  <2> SUFFICES ASSUME GuardInv, NEW t \in Threads, NEW u \in Threads, t # u,
                      th[t].pc = "git", th[u].pc \in {"git", "stage"}
               PROVE  RepoPath[th[t].app] # RepoPath[th[u].app]
    BY DEF CheckoutExclusive, At
  <2>1. ~IsReconcile(t) /\ ~IsReconcile(u)
    BY DEF GuardInv, BaseInv, PlacesKept, PlaceKept, IsReconcile, Recovering
  <2>2. Current(t) /\ Current(u)
    BY <2>1 DEF GuardInv, WorkIsLive, Current
  <2>3. th[t].app # th[u].app
    BY <2>2 DEF GuardInv, OnePerApp
  <2>4. th[t].app \in Apps /\ th[u].app \in Apps
    BY DEF GuardInv, BaseInv, TypeOK, Thread
  <2> QED
    BY <2>3, <2>4 DEF CheckoutsOwned
<1> QED
  BY <1>1, GuardsHold, PTL

\* A rollback to the last good spec never undoes a later success, crashes and
\* recoveries included.
THEOREM NewestIsLastGood ==
  ASSUME DaemonOnly
  PROVE  Spec => []LastGoodIsNewest
<1>1. GuardInv => LastGoodIsNewest
  BY DEF GuardInv
<1> QED
  BY <1>1, GuardsHold, PTL

\* A recovery asked for while the daemon serves never ends an attempt one of
\* whose stages is running: it waits for the slot.
THEOREM RunningLeftAlone ==
  ASSUME DaemonOnly
  PROVE  Spec => []RunningNotReconciled
<1>1. GuardInv => RunningNotReconciled
  <2> SUFFICES ASSUME GuardInv, NEW r \in Threads, NEW t \in Threads,
                      IsReconcile(r), th[r].pc \in {"undo", "finish"},
                      ~IsReconcile(t), th[t].pc \in {"stage", "undo", "put_spec"}
               PROVE  FALSE
    BY DEF RunningNotReconciled
  <2>1. Working(r) /\ Working(t)
    BY DEF Working, Deploying
  <2> QED
    BY <2>1, SlotExclusive DEF GuardInv
<1> QED
  BY <1>1, GuardsHold, PTL

------------------------------------------------------------------------------
(* LedgerInv: careful operators *)

\* Local deploys and recoveries are kept apart, and nobody asks a serving
\* daemon for a recovery.
CarefulOnly == Careful /\ "reconcile_api" \notin Kinds

\* Who works for different rows, works for different rows after a step too;
\* and where somebody recovers nobody else works.
LEMMA RowsApart ==
  ASSUME LedgerInv, NEW t \in Threads, NEW u \in Threads, t # u, HasRow(t),
         NEW d \in DeployIds,
         \/ HasRow(u) /\ d = th[u].id
         \/ \E row \in th[u].todo : d = row.id
  PROVE  d # th[t].id
<1>1. ~Idle(t)
  BY DEF HasRow, Idle, Deploying
<1>2. ~Idle(u) /\ ~IsReconcile(t) /\ ~IsReconcile(u)
  BY <1>1 DEF HasRow, Idle, Deploying, LedgerInv, RecoveryAlone, TodosOpen, TodoOpen
<1>3. HasRow(u) /\ d = th[u].id
  BY <1>2 DEF LedgerInv, TodosOpen, TodoOpen
<1> QED
  BY <1>2, <1>3 DEF LedgerInv, BaseInv, IdsDistinct, OwnsRow

\* What t has to see to for LedgerInv to go on.
LEMMA LedgerFrame ==
  ASSUME LedgerInv, BaseInv', NEW t \in Threads, Alone(t), RowsStay,
         \A d \in DeployIds : (HasRow(t) => d # th[t].id) =>
            deploys'[d].status = deploys[d].status /\ events'[d] = events[d],
         \A d \in DeployIds' :
            RowAgrees(d)' \/ (d \in DeployIds /\ (HasRow(t) => d # th[t].id)),
         \A a \in Apps : locks'[a] # NoDeploy =>
            \/ /\ locks'[a] = locks[a]
               /\ HasRow(t) /\ locks[a] = th[t].id => InProgress(locks[a])'
            \/ /\ HasRow(t) /\ locks'[a] = th[t].id /\ th[t].app = a
               /\ InProgress(locks[a])',
         RecoveryAlone', RowOpen(t)', TodoOpen(t)', NothingHeld(t)'
  PROVE  LedgerInv'
<1> USE DEF LedgerInv
<1>1. \A u \in Threads : u # t => th'[u] = th[u]
  BY DEF Alone
<1>2. StoreTypeOK /\ StoreTypeOK' /\ DeployIds \subseteq DeployIds'
  BY DEF BaseInv, TypeOK, RowsStay
<1>3. \A u \in Threads : /\ HasRow(u) => th[u].id \in DeployIds
                                           /\ deploys[th[u].id].app = th[u].app
                         /\ \A row \in th[u].todo : row.id \in DeployIds
  BY DEF BaseInv, RowsOwned, RowOwned
<1>4. RowsOpen'
  <2> SUFFICES ASSUME NEW u \in Threads, u # t PROVE RowOpen(u)'
    BY DEF RowsOpen
  <2>1. th'[u] = th[u] /\ RowOpen(u)
    BY <1>1 DEF RowsOpen
  <2>2. CASE ~HasRow(u)
    BY <2>1, <2>2 DEF RowOpen, HasRow, IsReconcile
  <2>3. CASE HasRow(u)
    <3>1. th[u].id \in DeployIds /\ (HasRow(t) => th[u].id # th[t].id)
      BY <1>3, <2>3, RowsApart
    <3>2. /\ deploys'[th[u].id].status = deploys[th[u].id].status
          /\ events'[th[u].id] = events[th[u].id]
      BY <3>1
    <3> QED
      BY <2>1, <2>3, <3>2 DEF RowOpen, InProgress, Endings, At
  <2> QED
    BY <2>2, <2>3
<1>5. TodosOpen'
  <2> SUFFICES ASSUME NEW u \in Threads, u # t PROVE TodoOpen(u)'
    BY DEF TodosOpen
  <2>1. th'[u] = th[u] /\ TodoOpen(u)
    BY <1>1 DEF TodosOpen
  <2>2. \A row \in th[u].todo : row.id \in DeployIds /\ (HasRow(t) => row.id # th[t].id)
    BY <1>3, RowsApart
  <2>3. \A row \in th[u].todo : InProgress(row.id) => InProgress(row.id)'
    BY <2>2 DEF InProgress
  <2>4. (Idle(u)' <=> Idle(u)) /\ (IsReconcile(u)' <=> IsReconcile(u))
          /\ (HasRow(u)' <=> HasRow(u))
    BY <2>1 DEF Idle, IsReconcile, HasRow
  <2> QED
    BY <2>1, <2>3, <2>4 DEF TodoOpen
<1>6. NothingHeldYet'
  <2> SUFFICES ASSUME NEW u \in Threads, u # t, th'[u].pc \in {"acquire", "refuse"},
                      NEW a \in Apps
               PROVE  locks'[a] # th[u].id
    BY <1>1 DEF NothingHeldYet, NothingHeld
  <2>1. HasRow(u) /\ locks[a] # th[u].id
    BY <1>1 DEF HasRow, NothingHeldYet, NothingHeld
  <2>2. th[u].id \in DeployIds /\ th[u].id # NoDeploy /\ (HasRow(t) => th[u].id # th[t].id)
    BY <1>2, <1>3, <2>1, IdsKnown, RowsApart
  <2> QED
    BY <2>1, <2>2
<1>7. LockHolderLive'
  <2> SUFFICES ASSUME NEW a \in Apps, locks'[a] # NoDeploy
               PROVE  deploys'[locks'[a]].app = a /\ InProgress(locks[a])'
    BY DEF LockHolderLive, LockHeld
  <2>1. CASE /\ locks'[a] = locks[a]
             /\ HasRow(t) /\ locks[a] = th[t].id => InProgress(locks[a])'
    <3>1. deploys[locks[a]].app = a /\ InProgress(locks[a])
      BY <2>1 DEF LockHolderLive, LockHeld
    <3>2. locks[a] \in DeployIds
      BY <1>2, <2>1, IdsKnown DEF StoreTypeOK, DeployIds, NoDeploy
    <3>3. InProgress(locks[a])'
      BY <2>1, <3>1, <3>2 DEF InProgress
    <3> QED
      BY <2>1, <3>1, <3>2, <3>3 DEF RowsStay
  <2>2. CASE /\ HasRow(t) /\ locks'[a] = th[t].id /\ th[t].app = a
             /\ InProgress(locks[a])'
    BY <1>3, <2>2 DEF RowsStay, InProgress
  <2> QED
    BY <2>1, <2>2
<1>8. RowLogAgree'
  <2> SUFFICES ASSUME NEW d \in DeployIds, HasRow(t) => d # th[t].id PROVE RowAgrees(d)'
    BY DEF RowLogAgree
  <2>1. deploys'[d].status = deploys[d].status /\ events'[d] = events[d]
    OBVIOUS
  <2>2. RowAgrees(d)
    BY DEF RowLogAgree
  <2> QED
    BY <2>1, <2>2 DEF RowAgrees, InProgress, Endings
<1> QED
  BY <1>4, <1>5, <1>6, <1>7, <1>8

\* A recovery goes on alone, and beside anything else there is none.
LEMMA AloneGoesOn ==
  ASSUME LedgerInv, NEW t \in Threads, Alone(t), ~Idle(t),
         \/ th'[t].pc = "idle" /\ (daemon' = daemon \/ IsReconcile(t))
         \/ th'[t].kind = th[t].kind /\ daemon' = daemon
  PROVE  RecoveryAlone'
<1>1. \A u \in Threads : u # t => th'[u] = th[u]
  BY DEF Alone
<1> QED
  BY <1>1 DEF LedgerInv, RecoveryAlone, Idle, IsReconcile

\* A step that ends no row, writes no log and takes no lock.
LEMMA StillKeepsLedger ==
  ASSUME LedgerInv, BaseInv', NEW t \in Threads, Alone(t), RowsStay, RowsSame,
         UNCHANGED events, \A a \in Apps : locks'[a] \in {locks[a], NoDeploy},
         RecoveryAlone', RowOpen(t)', TodoOpen(t)', NothingHeld(t)'
  PROVE  LedgerInv'
<1>1. \A d \in DeployIds' : RowAgrees(d)'
  <2> SUFFICES ASSUME NEW d \in DeployIds PROVE RowAgrees(d)'
    BY DEF RowsSame
  <2>1. deploys'[d].status = deploys[d].status /\ events'[d] = events[d] /\ RowAgrees(d)
    BY DEF RowsSame, LedgerInv, RowLogAgree
  <2> QED
    BY <2>1 DEF RowAgrees, InProgress, Endings
<1>2. \A a \in Apps : locks'[a] # NoDeploy => locks'[a] = locks[a] /\ InProgress(locks[a])'
  <2> SUFFICES ASSUME NEW a \in Apps, locks'[a] # NoDeploy, locks'[a] = locks[a]
               PROVE  deploys'[locks[a]].status = "in_progress"
    BY DEF InProgress
  <2>1. locks[a] \in DeployIds
    BY IdsKnown DEF LedgerInv, BaseInv, TypeOK, StoreTypeOK, DeployIds, NoDeploy
  <2>2. deploys[locks[a]].status = "in_progress"
    BY DEF LedgerInv, LockHolderLive, LockHeld, InProgress
  <2> QED
    BY <2>1, <2>2 DEF RowsSame
<1>3. \A d \in DeployIds : /\ deploys'[d].status = deploys[d].status
                           /\ events'[d] = events[d]
  BY DEF RowsSame
<1> QED
  BY <1>1, <1>2, <1>3, LedgerFrame

\* A thread that quits, its row as it is: dead, or turned away, or released.
LEMMA QuitKeepsLedger ==
  ASSUME LedgerInv, BaseInv', NEW t \in Threads, Quit(t), ~Idle(t), RowsStay, RowsSame,
         UNCHANGED events, \A a \in Apps : locks'[a] \in {locks[a], NoDeploy},
         daemon' = daemon \/ IsReconcile(t)
  PROVE  LedgerInv'
<1>1. Alone(t) /\ th'[t].pc = "idle" /\ th'[t].todo = {}
  BY QuitFact, IdleThreadType DEF LedgerInv, BaseInv, TypeOK
<1>2. RecoveryAlone'
  BY <1>1, AloneGoesOn
<1>3. RowOpen(t)' /\ TodoOpen(t)' /\ NothingHeld(t)'
  BY <1>1 DEF RowOpen, HasRow, TodoOpen, NothingHeld, Deploying
<1> QED
  BY <1>1, <1>2, <1>3, StillKeepsLedger

\* A thread that goes on, its row, if it has one, unfinished.
LEMMA MoveKeepsLedger ==
  ASSUME LedgerInv, BaseInv', NEW t \in Threads, Alone(t), ~Idle(t), RowsStay, RowsSame,
         UNCHANGED <<events, daemon>>, \A a \in Apps : locks'[a] \in {locks[a], NoDeploy},
         th'[t].pc \notin {"idle", "acquire"}, th'[t].kind = th[t].kind,
         th'[t].pc = "refuse" => th[t].pc = "acquire" /\ UNCHANGED locks,
         th'[t].todo = th[t].todo,
         HasRow(t)' => /\ HasRow(t) /\ th'[t].id = th[t].id
                       /\ th[t].pc \notin {"give_up", "release"}
  PROVE  LedgerInv'
<1>1. RecoveryAlone'
  BY AloneGoesOn
<1>2. HasRow(t) => th[t].id \in DeployIds
  BY DEF LedgerInv, BaseInv, RowsOwned, RowOwned
<1>3. RowOpen(t) /\ TodoOpen(t) /\ NothingHeld(t)
  BY DEF LedgerInv, RowsOpen, TodosOpen, NothingHeldYet
<1>4. RowOpen(t)'
  BY <1>2, <1>3 DEF RowOpen, RowsSame, InProgress, Endings, At
<1>5. TodoOpen(t)'
  <2>1. \A row \in th[t].todo : row.id \in DeployIds
    BY DEF LedgerInv, BaseInv, RowsOwned, RowOwned
  <2>2. \A row \in th[t].todo : InProgress(row.id)
    BY <1>3 DEF TodoOpen
  <2>3. \A row \in th[t].todo : InProgress(row.id)'
    BY <2>1, <2>2 DEF RowsSame, InProgress
  <2>4. ~Idle(t)' /\ (IsReconcile(t)' <=> IsReconcile(t))
    BY DEF Idle, IsReconcile
  <2> QED
    BY <1>3, <2>3, <2>4 DEF TodoOpen
<1>6. NothingHeld(t)'
  <2>1. HasRow(t)' => th'[t].id = th[t].id
    OBVIOUS
  <2> QED
    BY <1>3, <2>1 DEF NothingHeld, HasRow
<1> QED
  BY <1>1, <1>4, <1>5, <1>6, StillKeepsLedger

\* A thread ends its row and lets go of its lock.
LEMMA EndingKeepsLedger ==
  ASSUME LedgerInv, BaseInv', NEW t \in Threads, Alone(t), HasRow(t), RowsStay,
         UNCHANGED daemon, DeployIds' = DeployIds, NEW d \in DeployIds, d = th[t].id,
         \A i \in DeployIds : i # d =>
            deploys'[i].status = deploys[i].status /\ events'[i] = events[i],
         \A a \in Apps : locks'[a] = IF locks[a] = d THEN NoDeploy ELSE locks[a],
         RowAgrees(d)',
         \/ th'[t].pc = "idle" /\ th'[t].todo = {}
         \/ /\ th'[t].pc = "give_up" /\ deploys'[d].status = "failed"
            /\ events'[d] = events[d] /\ th[t].pc = "refuse"
            /\ Kept(th'[t], th[t])
         \/ th'[t].pc = "release" /\ th[t].pc = "finish" /\ Kept(th'[t], th[t])
  PROVE  LedgerInv'
<1>1. ~Idle(t)
  BY DEF HasRow, Idle, Deploying
<1>2. RecoveryAlone'
  BY <1>1, AloneGoesOn DEF Kept
<1>3. RowOpen(t) /\ TodoOpen(t)
  BY DEF LedgerInv, RowsOpen, TodosOpen
<1>4. RowOpen(t)'
  BY <1>3 DEF RowOpen, HasRow, At, Endings, Kept, Deploying
<1>5. TodoOpen(t)'
  <2>1. CASE th'[t].todo = {}
    BY <2>1 DEF TodoOpen
  <2>2. CASE Kept(th'[t], th[t]) /\ th'[t].pc # "idle"
    <3>1. \A row \in th[t].todo : row.id \in DeployIds /\ row.id # d /\ InProgress(row.id)
      BY <1>3 DEF TodoOpen, LedgerInv, BaseInv, RowsOwned, RowOwned
    <3>2. \A row \in th[t].todo : InProgress(row.id)'
      BY <3>1 DEF InProgress
    <3>3. ~Idle(t)' /\ (IsReconcile(t)' <=> IsReconcile(t))
      BY <2>2 DEF Idle, IsReconcile, Kept
    <3> QED
      BY <1>3, <2>2, <3>1, <3>2, <3>3 DEF TodoOpen, Kept
  <2> QED
    BY <2>1, <2>2
<1>6. NothingHeld(t)'
  BY DEF NothingHeld
<1>7. \A i \in DeployIds' : RowAgrees(i)' \/ (i \in DeployIds /\ (HasRow(t) => i # d))
  OBVIOUS
<1> QED
  BY <1>2, <1>4, <1>5, <1>6, <1>7, LedgerFrame

\* A row that ends with its event agrees with its log, if it had no ending yet.
LEMMA EndingLogged ==
  ASSUME StoreTypeOK, NEW d \in DeployIds, NEW st \in Terminal,
         FinishDeployWithEvent(d, st), UNCHANGED specs, Endings(d) = {}
  PROVE  RowAgrees(d)'
<1> DEFINE ev == [stage |-> "deploy", status |-> st]
           n == Len(events[d]) + 1
<1>1. /\ deploys'[d].status = st /\ events[d] \in Seq(Event)
      /\ events'[d] = Append(events[d], ev)
  BY FinishEventStays
<1>2. ev \in Event
  BY DEF Event
<1>3. ev.stage = "deploy" /\ ev.status = st
  OBVIOUS
<1> HIDE DEF ev
<1>4. /\ DOMAIN events'[d] = 1..n /\ n \in 1..n /\ DOMAIN events[d] = 1..(n - 1)
      /\ events'[d][n] = ev
      /\ \A i \in 1..(n - 1) : events'[d][i] = events[d][i]
  <2>1. Len(events[d]) \in Nat /\ DOMAIN events[d] = 1..Len(events[d])
    BY <1>1, LenProperties
  <2>2. /\ Append(events[d], ev) \in Seq(Event)
        /\ Len(Append(events[d], ev)) = n
        /\ Append(events[d], ev)[n] = ev
        /\ \A i \in 1..Len(events[d]) : Append(events[d], ev)[i] = events[d][i]
    BY <1>1, <1>2, AppendProperties
  <2> QED
    BY <1>1, <2>1, <2>2, LenProperties
<1>5. \A i \in 1..(n - 1) : events[d][i].stage # "deploy"
  BY <1>4 DEF Endings
<1>6. \A i \in 1..n : i = n \/ i \in 1..(n - 1)
  BY <1>4
<1>7. Endings(d)' = {n}
  BY <1>3, <1>4, <1>5, <1>6 DEF Endings
<1>8. n \in DOMAIN events'[d] /\ events'[d][n].status = deploys'[d].status
  BY <1>1, <1>3, <1>4
<1>9. deploys'[d].status # "in_progress"
  BY <1>1 DEF Terminal
<1> QED
  BY <1>7, <1>8, <1>9 DEF RowAgrees, InProgress

\* Who arrives finds the recovery over, or is a recovery and finds nobody.
LEMMA ArriveKeepsLedger ==
  ASSUME LedgerInv, BaseInv', CarefulOnly, NEW t \in Threads, NEW app \in Apps, Arrive(t, app)
  PROVE  LedgerInv'
<1>1. th \in [Threads -> Thread] /\ StoreTypeOK
  BY DEF LedgerInv, BaseInv, TypeOK
<1>2. ASSUME NEW kind \in ThreadKind, NEW pc \in Place, Start(t, kind, app, pc),
             pc \in {"lock", "slot", "create", "snapshot"}, pc = "slot" => kind = "reconcile_api",
             \/ kind \in {"button", "hook", "cli"} /\ UNCHANGED daemon
                  /\ \A u \in Threads : ~Idle(u) => ~IsReconcile(u)
             \/ /\ kind \in {"boot", "cli_reconcile"} /\ \A u \in Threads : Idle(u)
                /\ daemon' # "up"
                /\ kind = "cli_reconcile" => daemon' = "down"
      PROVE  LedgerInv'
    <2>1. /\ Alone(t) /\ th'[t].kind = kind /\ th'[t].pc = pc /\ th'[t].todo = {}
          /\ StoreSame
      BY <1>1, <1>2, StartFact
    <2>2. RowsStay /\ RowsSame /\ UNCHANGED <<locks, events>>
      BY <1>1, <2>1, StoreSameStays DEF RowsSame, DeployIds
    <2>3. \A u \in Threads : u # t => th'[u] = th[u]
      BY <2>1 DEF Alone
    <2>4. RecoveryAlone'
      BY <1>2, <2>1, <2>3 DEF RecoveryAlone, Idle, IsReconcile
    <2>5. ~HasRow(t)'
      BY <1>2, <2>1 DEF HasRow, IsReconcile, Deploying
    <2>6. RowOpen(t)' /\ TodoOpen(t)' /\ NothingHeld(t)'
      BY <2>1, <2>5 DEF RowOpen, TodoOpen, NothingHeld, HasRow
    <2> QED
      BY <2>1, <2>2, <2>4, <2>6, StillKeepsLedger
<1>3. daemon = "up" => \A u \in Threads : ~Idle(u) => ~IsReconcile(u)
  BY DEF LedgerInv, RecoveryAlone
<1>4. daemon = "down" /\ NoLocalDeploy /\ NobodyRecovers => \A u \in Threads : Idle(u)
  BY DEF LedgerInv, BaseInv, ServingKnown, PlacesKept, PlaceKept, NoLocalDeploy,
         NobodyRecovers, IsReconcile, Idle
<1> USE DEF ThreadKind, Place, CarefulOnly
<1>5. CASE Request(t, app)
  BY <1>2, <1>3, <1>5 DEF Request
<1>6. CASE AskReconcile(t, app)
  BY <1>6 DEF AskReconcile, Start
<1>7. CASE CliDeploy(t, app)
  BY <1>2, <1>7 DEF CliDeploy, NobodyRecovers
<1>8. CASE CliReconcile(t, app)
  BY <1>2, <1>4, <1>8 DEF CliReconcile
<1>9. CASE Boot(t, app)
  BY <1>2, <1>4, <1>9 DEF Boot
<1> QED
  BY <1>5, <1>6, <1>7, <1>8, <1>9 DEF Arrive

\* A new row has an empty log and no lock.
LEMMA CreatesKeepLedger ==
  ASSUME LedgerInv, BaseInv', NEW t \in Threads, RecordRefusal(t) \/ Create(t)
  PROVE  LedgerInv'
<1>1. StoreTypeOK /\ TypeOK
  BY DEF LedgerInv, BaseInv, TypeOK
<1>2. PICK n : n = Len(deploys) + 1
  OBVIOUS
<1>3. /\ Alone(t) /\ th'[t].kind = th[t].kind /\ th'[t].todo = th[t].todo /\ th'[t].id = n
      /\ \/ th[t].pc = "record" /\ th'[t].pc = "give_up"
         \/ th[t].pc = "create" /\ th'[t].pc = "acquire"
      /\ CreateDeploy(th[t].app) /\ UNCHANGED <<locks, specs>> /\ Keep
      /\ th[t].app \in Apps /\ StoreTypeOK
  BY <1>1, <1>2, CreatesFact
<1>4. /\ RowsStay /\ DeployIds' = DeployIds \cup {n} /\ n \notin DeployIds
      /\ deploys'[n].status = "in_progress" /\ events'[n] = <<>>
      /\ \A d \in DeployIds : deploys'[d] = deploys[d] /\ events'[d] = events[d]
  BY <1>3, <1>2, CreateStays
<1>5. \A a \in Apps : locks[a] # n /\ (locks[a] # NoDeploy => locks[a] \in DeployIds)
  <2>1. Len(deploys) \in Nat /\ locks \in [Apps -> 0..Len(deploys)]
    BY <1>3, IdsKnown DEF StoreTypeOK
  <2> QED
    BY <1>2, <2>1 DEF DeployIds, NoDeploy
<1>6. Endings(n)' = {} /\ InProgress(n)'
  BY <1>4 DEF Endings, InProgress
<1>7. ~Idle(t) /\ ~HasRow(t) /\ ~IsReconcile(t)
  BY <1>3 DEF Idle, HasRow, Deploying, IsReconcile, LedgerInv, BaseInv, PlacesKept, PlaceKept,
              Recovering
<1>8. RecoveryAlone'
  BY <1>3, <1>7, AloneGoesOn DEF Keep
<1>9. th[t].todo = {}
  BY <1>7 DEF LedgerInv, TodosOpen, TodoOpen
<1>10. RowOpen(t)' /\ TodoOpen(t)' /\ NothingHeld(t)'
  <2>1. Endings(th[t].id)' = {} /\ InProgress(th[t].id)'
    BY <1>3, <1>6 DEF Endings, InProgress
  <2> QED
    BY <1>3, <1>5, <1>9, <2>1 DEF RowOpen, TodoOpen, NothingHeld
<1>11. RowAgrees(n)'
  BY <1>6 DEF RowAgrees
<1> QED
  BY <1>3, <1>4, <1>7, <1>8, <1>10, <1>11, LedgerFrame

\* The other steps of a handler.
LEMMA HandlersKeepLedger ==
  ASSUME LedgerInv, BaseInv', NEW t \in Threads,
         \/ TakeTrigger(t) \/ EnsureNotBusy(t) \/ TurnAway(t)
         \/ GiveUp(t) \/ Acquire(t) \/ LockBusy(t) \/ Refuse(t)
         \/ GitDone(t) \/ GitFails(t) \/ EnterSlot(t)
  PROVE  LedgerInv'
<1>1. /\ th \in [Threads -> Thread] /\ StoreTypeOK
      /\ RowOwned(t) /\ PlaceKept(t) /\ RowOpen(t) /\ NothingHeld(t)
  BY DEF LedgerInv, BaseInv, TypeOK, RowsOwned, PlacesKept, RowsOpen, NothingHeldYet
<1>2. StoreSame => RowsStay /\ RowsSame /\ UNCHANGED <<locks, events>>
  BY <1>1, StoreSameStays DEF RowsSame, DeployIds
<1>3. ASSUME NEW pc \in Place, Goto(t, pc)
      PROVE  Alone(t) /\ th'[t].pc = pc /\ Kept(th'[t], th[t])
  BY <1>1, <1>3, GotoFact
<1>4. HasRow(t) => th[t].id \in DeployIds /\ deploys[th[t].id].app = th[t].app
  BY <1>1 DEF RowOwned
\* A step that only moves the thread.
<1>5. ASSUME NEW pc \in Place, Goto(t, pc), StoreSame, UNCHANGED daemon,
             \/ th[t].pc \in {"lock", "check"} /\ pc \in {"check", "record", "create"}
             \/ th[t].pc = "acquire" /\ pc = "refuse"
             \/ th[t].pc = "git" /\ pc \in {"slot", "give_up"}
             \/ th[t].pc = "slot" /\ pc = IF IsReconcile(t) THEN "snapshot" ELSE "begin"
      PROVE  LedgerInv'
  <2>1. Alone(t) /\ th'[t].pc = pc /\ Kept(th'[t], th[t])
    BY <1>3, <1>5
  <2>2. HasRow(t)' => HasRow(t)
    BY <1>5, <2>1 DEF HasRow, IsReconcile, Kept, Deploying
  <2>3. ~Idle(t) /\ th[t].pc \notin {"give_up", "release"}
    BY <1>5 DEF Idle
  <2> QED
    BY <1>2, <1>5, <2>1, <2>2, <2>3, MoveKeepsLedger DEF Kept
<1>6. ASSUME Quit(t), StoreSame, UNCHANGED daemon, ~Idle(t) PROVE LedgerInv'
  BY <1>2, <1>6, QuitKeepsLedger
<1> USE DEF Place, At
<1>7. CASE TakeTrigger(t)
  BY <1>5, <1>7 DEF TakeTrigger
<1>8. CASE EnsureNotBusy(t)
  BY <1>5, <1>6, <1>8 DEF EnsureNotBusy, Same, Idle
<1>9. CASE TurnAway(t)
  BY <1>6, <1>9 DEF TurnAway, Same, Idle
<1>10. CASE GiveUp(t)
  <2>1. /\ th[t].pc = "give_up" /\ FinishDeployWithEvent(th[t].id, "failed") /\ Quit(t)
        /\ UNCHANGED specs /\ Same /\ HasRow(t)
    BY <1>10 DEF GiveUp, HasRow
  <2>2. /\ RowsStay /\ DeployIds' = DeployIds
        /\ \A i \in DeployIds : i # th[t].id => deploys'[i] = deploys[i] /\ events'[i] = events[i]
        /\ \A a \in Apps : locks'[a] = IF locks[a] = th[t].id THEN NoDeploy ELSE locks[a]
    BY <1>1, <1>4, <2>1, FinishEventStays DEF Terminal
  <2>3. Endings(th[t].id) = {}
    BY <1>1, <2>1 DEF RowOpen
  <2>4. Alone(t) /\ th'[t].pc = "idle" /\ th'[t].todo = {}
    BY <1>1, <2>1, QuitFact, IdleThreadType
  <2>5. PICK d \in DeployIds : d = th[t].id
    BY <1>4, <2>1
  <2>6. RowAgrees(d)'
    BY <1>1, <2>1, <2>3, <2>5, EndingLogged DEF Terminal
  <2> QED
    BY <2>1, <2>2, <2>4, <2>5, <2>6, EndingKeepsLedger DEF Same
<1>11. CASE Acquire(t)
  <2>1. /\ th[t].pc = "acquire" /\ locks' = [locks EXCEPT ![th[t].app] = th[t].id]
        /\ UNCHANGED <<deploys, specs, events>> /\ Same /\ HasRow(t)
    BY <1>11 DEF Acquire, AcquireLock, HasRow
  <2>2. PICK pc \in {"slot", "git", "begin"} : Goto(t, pc)
    BY <1>11 DEF Acquire
  <2>3. Alone(t) /\ th'[t].pc = pc /\ Kept(th'[t], th[t])
    BY <1>3, <2>2
  <2>4. RowsStay /\ DeployIds' = DeployIds
    BY <2>1 DEF RowsStay, BaseInv, TypeOK, DeployIds, StoreTypeOK
  <2>5. InProgress(th[t].id) /\ Endings(th[t].id) = {} /\ ~IsReconcile(t)
    BY <1>1, <2>1 DEF RowOpen, PlaceKept, IsReconcile, Recovering
  <2>6. RecoveryAlone'
    BY <2>1, <2>3, AloneGoesOn DEF Kept, Same, Idle
  <2>7. RowOpen(t)' /\ NothingHeld(t)'
    BY <2>1, <2>3, <2>5 DEF RowOpen, NothingHeld, InProgress, Endings, Kept
  <2>8. TodoOpen(t)'
    BY <2>3, <2>5 DEF TodoOpen, Kept, LedgerInv, TodosOpen
  <2>9. \A d \in DeployIds' : RowAgrees(d)'
    BY <2>1, <2>4 DEF RowAgrees, InProgress, Endings, LedgerInv, RowLogAgree
  <2>10. \A a \in Apps : locks'[a] # NoDeploy =>
            \/ /\ locks'[a] = locks[a]
               /\ HasRow(t) /\ locks[a] = th[t].id => InProgress(locks[a])'
            \/ /\ HasRow(t) /\ locks'[a] = th[t].id /\ th[t].app = a
               /\ InProgress(locks[a])'
    BY <1>1, <2>1, <2>5 DEF InProgress, StoreTypeOK
  <2> QED
    BY <2>1, <2>3, <2>4, <2>6, <2>7, <2>8, <2>9, <2>10, LedgerFrame
<1>12. CASE LockBusy(t)
  BY <1>5, <1>12 DEF LockBusy, Keep
<1>13. CASE Refuse(t)
  <2>1. /\ th[t].pc = "refuse" /\ FinishDeploy(th[t].id, "failed") /\ HasRow(t)
        /\ UNCHANGED <<locks, specs, events>> /\ Same
        /\ Quit(t) \/ Goto(t, "give_up")
    BY <1>13 DEF Refuse, HasRow
  <2>2. PICK d \in DeployIds : d = th[t].id
    BY <1>4, <2>1
  <2>3. /\ RowsStay /\ DeployIds' = DeployIds /\ deploys'[d].status = "failed"
        /\ \A i \in DeployIds : i # d => deploys'[i] = deploys[i]
    BY <1>1, <2>1, <2>2, RefusalStays
  <2>4. Endings(d) = {} /\ \A a \in Apps : locks[a] # d
    BY <1>1, <2>1, <2>2 DEF RowOpen, NothingHeld
  <2>5. RowAgrees(d)'
    BY <2>1, <2>3, <2>4 DEF RowAgrees, Endings, InProgress
  <2>6. CASE Quit(t)
    <3>1. Alone(t) /\ th'[t].pc = "idle" /\ th'[t].todo = {}
      BY <1>1, <2>6, QuitFact, IdleThreadType
    <3> QED
      BY <2>1, <2>2, <2>3, <2>4, <2>5, <3>1, EndingKeepsLedger DEF Same
  <2>7. CASE Goto(t, "give_up")
    <3>1. Alone(t) /\ th'[t].pc = "give_up" /\ Kept(th'[t], th[t])
      BY <1>3, <2>7
    <3> QED
      BY <2>1, <2>2, <2>3, <2>4, <2>5, <3>1, EndingKeepsLedger DEF Same
  <2> QED
    BY <2>1, <2>6, <2>7
<1>14. CASE GitDone(t)
  BY <1>5, <1>14 DEF GitDone
<1>15. CASE GitFails(t)
  BY <1>5, <1>15 DEF GitFails, Keep
<1>16. CASE EnterSlot(t)
  BY <1>5, <1>16 DEF EnterSlot
<1> QED
  BY <1>7, <1>8, <1>9, <1>10, <1>11, <1>12, <1>13, <1>14, <1>15, <1>16

\* The attempt and the recovery.
LEMMA WorkKeepsLedger ==
  ASSUME LedgerInv, BaseInv', NEW t \in Threads,
         \/ Begin(t) \/ BeginStale(t) \/ StageDone(t) \/ StageFails(t) \/ Compensate(t)
         \/ RecordSpec(t) \/ Finish(t) \/ Release(t)
         \/ Snapshot(t) \/ NextRow(t) \/ FinishReconcile(t)
  PROVE  LedgerInv'
<1>1. /\ th \in [Threads -> Thread] /\ StoreTypeOK /\ TypeOK /\ th[t] \in Thread
      /\ RowOwned(t) /\ PlaceKept(t) /\ RowOpen(t) /\ TodoOpen(t)
  BY DEF LedgerInv, BaseInv, TypeOK, RowsOwned, PlacesKept, RowsOpen, TodosOpen
<1>2. StoreSame => RowsStay /\ RowsSame /\ UNCHANGED <<locks, events>>
  BY <1>1, StoreSameStays DEF RowsSame, DeployIds
<1>3. ASSUME NEW pc \in Place, Goto(t, pc)
      PROVE  Alone(t) /\ th'[t].pc = pc /\ Kept(th'[t], th[t])
  BY <1>1, <1>3, GotoFact
<1>4. HasRow(t) => th[t].id \in DeployIds
  BY <1>1 DEF RowOwned
\* A step within the attempt, or within the recovery of a row.
<1>5. ASSUME Alone(t), RowsStay, RowsSame, UNCHANGED <<locks, events, daemon>>,
             th[t].pc \in {"begin", "stage", "undo", "put_spec"},
             th'[t].pc \in {"begin", "stage", "undo", "put_spec", "finish", "release"},
             th'[t].kind = th[t].kind, th'[t].id = th[t].id, th'[t].todo = th[t].todo
      PROVE  LedgerInv'
  BY <1>5, MoveKeepsLedger DEF HasRow, Idle, Deploying
<1> USE DEF Place, At, Keep, Same
<1>6. CASE Begin(t)
  <2>1. /\ th[t].pc = "begin" /\ AdvanceStage(th[t].id, Running(t)) /\ Goto(t, "stage")
        /\ UNCHANGED <<locks, specs, events>> /\ Keep
    BY <1>6 DEF Begin
  <2>2. Running(t) \in Stage
    BY <1>1, DaemonAssumption, ElementOfSeq DEF Running, Thread
  <2>3. th[t].id \in DeployIds
    BY <1>4, <2>1 DEF HasRow, Deploying
  <2>4. RowsStay /\ RowsSame
    BY <1>1, <2>1, <2>2, <2>3, AdvanceStays DEF RowsSame, RowsStay
  <2> QED
    BY <1>3, <1>5, <2>1, <2>4 DEF Kept
<1>7. CASE BeginStale(t)
  BY <1>2, <1>3, <1>5, <1>7 DEF BeginStale, Kept
<1>8. CASE StageDone(t)
  BY <1>1, <1>2, <1>5, <1>8, StageDoneFact
<1>9. CASE StageFails(t) \/ Compensate(t)
  BY <1>1, <1>2, <1>5, <1>9, FailureFact
<1>10. CASE RecordSpec(t)
  <2>1. /\ th[t].pc = "put_spec" /\ PutSpec(th[t].app, th[t].id) /\ Goto(t, "finish")
        /\ UNCHANGED <<deploys, locks, events>> /\ Keep
    BY <1>10 DEF RecordSpec
  <2>2. th[t].id \in DeployIds /\ th[t].app \in Apps
    BY <1>1, <1>4, <2>1 DEF HasRow, Deploying, Thread
  <2>3. RowsStay /\ RowsSame
    BY <1>1, <2>1, <2>2, SpecStays DEF RowsSame
  <2> QED
    BY <1>3, <1>5, <2>1, <2>3 DEF Kept
<1>11. CASE Finish(t)
  <2>1. /\ th[t].pc = "finish" /\ FinishDeployWithEvent(th[t].id, th[t].outcome) /\ HasRow(t)
        /\ Goto(t, "release") /\ UNCHANGED specs /\ Keep
    BY <1>11 DEF Finish, HasRow, Deploying
  <2>2. th[t].outcome \in Terminal /\ Endings(th[t].id) = {}
    BY <1>1, <2>1 DEF Thread, RowOpen
  <2>3. PICK d \in DeployIds : d = th[t].id
    BY <1>4, <2>1
  <2>4. /\ RowsStay /\ DeployIds' = DeployIds
        /\ \A i \in DeployIds : i # d => deploys'[i] = deploys[i] /\ events'[i] = events[i]
        /\ \A a \in Apps : locks'[a] = IF locks[a] = d THEN NoDeploy ELSE locks[a]
    BY <1>1, <2>1, <2>2, <2>3, FinishEventStays
  <2>5. Alone(t) /\ th'[t].pc = "release" /\ Kept(th'[t], th[t])
    BY <1>3, <2>1
  <2>6. RowAgrees(d)'
    BY <1>1, <2>1, <2>2, <2>3, EndingLogged
  <2> QED
    BY <2>1, <2>3, <2>4, <2>5, <2>6, EndingKeepsLedger
<1>12. CASE Release(t)
  <2>1. /\ th[t].pc = "release" /\ ReleaseLock(th[t].app) /\ ~Idle(t)
        /\ UNCHANGED <<deploys, specs, events>> /\ Same
    BY <1>12 DEF Release, Idle
  <2>2. RowsSame
    BY <2>1 DEF RowsSame, DeployIds
  <2>3. \A a \in Apps : locks'[a] \in {locks[a], NoDeploy}
    BY <1>1, <2>1 DEF ReleaseLock, StoreTypeOK
  <2>4. RowsStay
    BY <2>1 DEF RowsStay, BaseInv, TypeOK, DeployIds, StoreTypeOK
  <2>5. CASE Quit(t)
    BY <2>1, <2>2, <2>3, <2>4, <2>5, QuitKeepsLedger
  <2>6. CASE Goto(t, "next_row")
    <3>1. Alone(t) /\ th'[t].pc = "next_row" /\ Kept(th'[t], th[t])
      BY <1>3, <2>6
    <3> QED
      BY <2>1, <2>2, <2>3, <2>4, <3>1, MoveKeepsLedger DEF Kept, HasRow, Deploying
  <2> QED
    BY <1>12, <2>5, <2>6 DEF Release
<1>13. CASE Snapshot(t)
  <2>1. /\ th[t].pc = "snapshot" /\ th'[t].pc = "next_row" /\ Alone(t) /\ StoreSame /\ Keep
        /\ th'[t].kind = th[t].kind
        /\ \A row \in th'[t].todo : row.id \in DeployIds /\ InProgress(row.id)
        /\ \A row, other \in th'[t].todo : row.id = other.id => row = other
    BY <1>1, <1>13, SnapshotFact
  <2>2. ~Idle(t)' /\ IsReconcile(t)' /\ ~HasRow(t)' /\ ~Idle(t)
    BY <1>1, <2>1 DEF Idle, IsReconcile, HasRow, PlaceKept, Deploying, Reserving
  <2>3. \A row \in th'[t].todo : InProgress(row.id)'
    BY <1>2, <2>1 DEF RowsSame, InProgress
  <2>4. RowOpen(t)' /\ TodoOpen(t)' /\ NothingHeld(t)'
    BY <2>1, <2>2, <2>3 DEF RowOpen, TodoOpen, NothingHeld
  <2>5. RecoveryAlone'
    BY <2>1, <2>2, AloneGoesOn
  <2> QED
    BY <1>2, <2>1, <2>4, <2>5, StillKeepsLedger
<1>14. CASE NextRow(t)
  <2>1. PICK row \in th[t].todo :
           /\ th[t].pc = "next_row" /\ th'[t].pc \in {"undo", "finish"} /\ Alone(t)
           /\ StoreSame /\ Keep
           /\ th'[t].kind = th[t].kind /\ th'[t].id = row.id
           /\ th'[t].todo = th[t].todo \ {row}
    BY <1>1, <1>14, NextRowFact DEF RowOwned
  <2>2. /\ row.id \in DeployIds /\ InProgress(row.id) /\ Endings(row.id) = {}
        /\ \A other \in th[t].todo \ {row} : /\ other.id \in DeployIds /\ other.id # row.id
                                             /\ InProgress(other.id)
        /\ \A r1, r2 \in th[t].todo : r1.id = r2.id => r1 = r2
    BY <1>1 DEF RowOwned, TodoOpen, LedgerInv, RowLogAgree, RowAgrees
  <2>3. UNCHANGED <<deploys, events>>
    BY <2>1 DEF StoreSame, storeVars
  <2>4. ~Idle(t)' /\ IsReconcile(t)' /\ ~Idle(t)
    BY <1>1, <2>1 DEF Idle, IsReconcile, PlaceKept, Deploying, Reserving
  <2>5. RowOpen(t)' /\ NothingHeld(t)'
    BY <2>1, <2>2, <2>3 DEF RowOpen, NothingHeld, InProgress, Endings
  <2>6. TodoOpen(t)'
    <3>1. \A other \in th'[t].todo : InProgress(other.id)' /\ other.id # row.id
      BY <2>1, <2>2, <2>3 DEF InProgress
    <3> QED
      BY <2>1, <2>2, <2>4, <3>1 DEF TodoOpen
  <2>7. RecoveryAlone'
    BY <2>1, <2>4, AloneGoesOn
  <2> QED
    BY <1>2, <2>1, <2>5, <2>6, <2>7, StillKeepsLedger
<1>15. CASE FinishReconcile(t)
  <2>1. /\ th[t].pc = "next_row" /\ ReleaseOrphanedLocks /\ Quit(t) /\ ~Idle(t)
        /\ UNCHANGED <<deploys, specs, events>>
    BY <1>15 DEF FinishReconcile, Idle
  <2>2. RowsSame
    BY <2>1 DEF RowsSame, DeployIds
  <2>3. \A a \in Apps : locks'[a] \in {locks[a], NoDeploy}
    BY <2>1 DEF ReleaseOrphanedLocks
  <2>4. RowsStay
    BY <2>1 DEF RowsStay, BaseInv, TypeOK, DeployIds, StoreTypeOK
  <2>5. IsReconcile(t)
    BY <1>1, <2>1 DEF IsReconcile, PlaceKept, Deploying, Reserving
  <2> QED
    BY <2>1, <2>2, <2>3, <2>4, <2>5, QuitKeepsLedger
<1> QED
  BY <1>6, <1>7, <1>8, <1>9, <1>10, <1>11, <1>12, <1>13, <1>14, <1>15

\* A death leaves a row unfinished and its lock held, never the other way round.
LEMMA DeathsKeepLedger ==
  ASSUME LedgerInv, BaseInv',
         DaemonDies \/ \E t \in Threads : CliDies(t) \/ Disconnect(t)
  PROVE  LedgerInv'
<1>1. /\ th \in [Threads -> Thread] /\ StoreTypeOK
  BY DEF LedgerInv, BaseInv, TypeOK
<1>2. StoreSame => RowsStay /\ RowsSame /\ UNCHANGED <<deploys, locks, specs, events>>
  BY <1>1, StoreSameStays DEF RowsSame, DeployIds
<1>3. ASSUME NEW t \in Threads, CliDies(t) \/ Disconnect(t) PROVE LedgerInv'
  <2>1. Quit(t) /\ StoreSame /\ UNCHANGED daemon /\ ~Idle(t)
    BY <1>3 DEF CliDies, Disconnect, Same, Idle, At
  <2> QED
    BY <1>2, <2>1, QuitKeepsLedger
<1>4. CASE DaemonDies
  <2>1. /\ StoreSame /\ daemon' = "down"
        /\ th' = [t \in Threads |-> IF th[t].kind \in DaemonKind THEN IdleThread ELSE th[t]]
    BY <1>4 DEF DaemonDies
  <2>2. \A u \in Threads : \/ th'[u].pc = "idle" /\ th'[u].todo = {}
                           \/ th'[u] = th[u]
    BY <1>1, <2>1, IdleThreadType
  <2>3. UNCHANGED <<deploys, locks, specs, events>>
    BY <1>2, <2>1
  <2>4. LockHolderLive' /\ RowLogAgree'
    BY <2>3 DEF LedgerInv, LockHolderLive, LockHeld, RowLogAgree, RowAgrees, InProgress,
                Endings, DeployIds
  <2>5. RecoveryAlone'
    BY <2>1, <2>2 DEF LedgerInv, RecoveryAlone, Idle, IsReconcile
  <2>6. RowsOpen'
    <3> SUFFICES ASSUME NEW u \in Threads PROVE RowOpen(u)'
      BY DEF RowsOpen
    <3>1. RowOpen(u)
      BY DEF LedgerInv, RowsOpen
    <3> QED
      BY <2>2, <2>3, <3>1 DEF RowOpen, HasRow, IsReconcile, InProgress, Endings, At, Deploying
  <2>7. TodosOpen'
    <3> SUFFICES ASSUME NEW u \in Threads PROVE TodoOpen(u)'
      BY DEF TodosOpen
    <3>1. TodoOpen(u)
      BY DEF LedgerInv, TodosOpen
    <3> QED
      BY <2>2, <2>3, <3>1 DEF TodoOpen, HasRow, IsReconcile, InProgress, Idle
  <2>8. NothingHeldYet'
    BY <2>2, <2>3 DEF LedgerInv, NothingHeldYet, NothingHeld
  <2> QED
    BY <2>4, <2>5, <2>6, <2>7, <2>8 DEF LedgerInv
<1> QED
  BY <1>3, <1>4

\* LedgerInv is inductive when nobody recovers beside a living attempt.
LEMMA LedgerInvNext ==
  ASSUME CarefulOnly, LedgerInv, [Next]_vars
  PROVE  LedgerInv'
<1>1. BaseInv'
  BY BaseInvNext DEF LedgerInv
<1>2. ASSUME NEW t \in Threads, ThreadStep(t) PROVE LedgerInv'
  BY <1>1, <1>2, ArriveKeepsLedger, CreatesKeepLedger, HandlersKeepLedger, WorkKeepsLedger,
     DeathsKeepLedger
  DEF ThreadStep, GetsTurn, Proceed
<1>3. CASE DaemonDies
  BY <1>1, <1>3, DeathsKeepLedger
<1>4. CASE UNCHANGED vars
  <2>1. UNCHANGED <<deploys, locks, specs, events, daemon, th, trigger, slot, crashes>>
    BY <1>4 DEF vars
  <2>2. RecoveryAlone' /\ RowsOpen' /\ NothingHeldYet'
    BY <2>1 DEF LedgerInv, RecoveryAlone, RowsOpen, RowOpen, HasRow, NothingHeldYet,
                NothingHeld, InProgress, Endings, IsReconcile, Idle, At
  <2>3. TodosOpen'
    BY <2>1 DEF LedgerInv, TodosOpen, TodoOpen, HasRow, InProgress, IsReconcile, Idle
  <2>4. LockHolderLive' /\ RowLogAgree'
    BY <2>1 DEF LedgerInv, LockHolderLive, LockHeld, RowLogAgree, RowAgrees, InProgress,
                Endings, DeployIds
  <2> QED
    BY <1>1, <2>2, <2>3, <2>4 DEF LedgerInv
<1> QED
  BY <1>2, <1>3, <1>4 DEF Next

\* Before the first request the books are empty.
LEMMA LedgerInvInit == Init => LedgerInv
<1> SUFFICES ASSUME Init PROVE LedgerInv
  OBVIOUS
<1>1. \A t \in Threads : th[t].pc = "idle" /\ th[t].todo = {}
  BY IdleThreadType DEF Init
<1>2. DeployIds = {} /\ \A a \in Apps : locks[a] = NoDeploy
  BY EmptySeq, IdsKnown, BaseInvInit DEF Init, StoreInit, DeployIds
<1> QED
  BY <1>1, <1>2, BaseInvInit DEF LedgerInv, RecoveryAlone, RowsOpen, RowOpen, HasRow, TodosOpen,
     TodoOpen, NothingHeldYet, NothingHeld, LockHolderLive, LockHeld, RowLogAgree, Idle,
     Deploying

\* Types, the mutex, the slot and the ownership of rows, with every kind of
\* thread at work: careless operators included.
THEOREM BasicsHold == Spec => []BaseInv
<1>1. Init => BaseInv
  BY BaseInvInit
<1>2. BaseInv /\ [Next]_vars => BaseInv'
  BY BaseInvNext
<1> QED
  BY <1>1, <1>2, PTL DEF Spec

\* The books of the store, rows, locks and logs, stay right for any number of
\* handlers, CLI deploys, deaths and hang-ups, when recoveries are kept apart.
THEOREM LedgerHolds ==
  ASSUME CarefulOnly
  PROVE  Spec => []LedgerInv
<1>1. Init => LedgerInv
  BY LedgerInvInit
<1>2. LedgerInv /\ [Next]_vars => LedgerInv'
  BY LedgerInvNext
<1> QED
  BY <1>1, <1>2, PTL DEF Spec

\* A careful operator's recovery never rolls back an attempt that is alive.
THEOREM StrandedOnly ==
  ASSUME CarefulOnly
  PROVE  Spec => []OnlyStrandedReconciled
<1>1. LedgerInv => OnlyStrandedReconciled
  BY DEF LedgerInv, RecoveryAlone, OnlyStrandedReconciled, Admitted, Idle
<1> QED
  BY <1>1, LedgerHolds, PTL
==============================================================================

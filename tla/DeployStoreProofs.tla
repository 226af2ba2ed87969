--------------------------- MODULE DeployStoreProofs ---------------------------
(***************************************************************************)
(* What each store method leaves true of the tables it writes, for any     *)
(* tables of the right type.  The lemmas are cited by the proofs about     *)
(* the modules that extend DeployStore.                                    *)
(***************************************************************************)
EXTENDS DeployStore, SequenceTheorems, TLAPS

\* A row's three columns are of their types.
LEMMA RowColumns ==
  ASSUME NEW row \in DeployRow
  PROVE  row.app \in Apps /\ row.stage \in Stage /\ row.status \in DeployStatus
BY DEF DeployRow

\* create_deploy adds one row, in progress, and an empty log, and changes no other.
LEMMA CreateDeployAdds ==
  ASSUME StoreTypeOK, NEW a \in Apps, CreateDeploy(a)
  PROVE  /\ deploys' \in Seq(DeployRow) /\ Len(deploys') = Len(deploys) + 1
         /\ Len(deploys') <= MaxDeploys
         /\ DeployIds' = DeployIds \cup {Len(deploys) + 1}
         /\ \A d \in DeployIds : deploys'[d] = deploys[d] /\ events'[d] = events[d]
         /\ deploys'[Len(deploys) + 1].app = a
         /\ deploys'[Len(deploys) + 1].status = "in_progress"
         /\ deploys'[Len(deploys) + 1].stage = "detect"
         /\ events' \in Seq(Seq(Event)) /\ Len(events') = Len(deploys')
         /\ events'[Len(deploys) + 1] = <<>>
<1> DEFINE row == [app |-> a, stage |-> "detect", status |-> "in_progress"]
<1>1. row \in DeployRow
  BY DEF DeployRow, Stage, DeployStatus
<1>2. <<>> \in Seq(Event)
  BY EmptySeq
<1>3. /\ deploys' = Append(deploys, row) /\ events' = Append(events, <<>>)
      /\ Len(deploys) < MaxDeploys
  BY DEF CreateDeploy
<1>4. /\ deploys \in Seq(DeployRow) /\ Len(deploys) \in Nat
      /\ events \in Seq(Seq(Event)) /\ Len(events) = Len(deploys)
  BY LenProperties DEF StoreTypeOK
<1> HIDE DEF row
<1>5. /\ Append(deploys, row) \in Seq(DeployRow)
      /\ Len(Append(deploys, row)) = Len(deploys) + 1
      /\ \A d \in 1..Len(deploys) : Append(deploys, row)[d] = deploys[d]
      /\ Append(deploys, row)[Len(deploys) + 1] = row
  BY <1>1, <1>4, AppendProperties
<1>6. /\ Append(events, <<>>) \in Seq(Seq(Event))
      /\ Len(Append(events, <<>>)) = Len(events) + 1
      /\ \A d \in 1..Len(events) : Append(events, <<>>)[d] = events[d]
      /\ Append(events, <<>>)[Len(events) + 1] = <<>>
  BY <1>2, <1>4, AppendProperties
<1>7. row.app = a /\ row.status = "in_progress" /\ row.stage = "detect"
  BY DEF row
<1>8. MaxDeploys \in Nat
  BY StoreAssumption
<1> QED
  BY <1>3, <1>4, <1>5, <1>6, <1>7, <1>8 DEF DeployIds

\* advance_stage keeps every row's app and status.
LEMMA AdvanceStageKeeps ==
  ASSUME StoreTypeOK, NEW d \in DeployIds, NEW s \in Stage, AdvanceStage(d, s)
  PROVE  /\ deploys' \in Seq(DeployRow) /\ Len(deploys') = Len(deploys)
         /\ deploys'[d].stage = s
         /\ \A i \in DeployIds : /\ deploys'[i].app = deploys[i].app
                                 /\ deploys'[i].status = deploys[i].status
                                 /\ i # d => deploys'[i] = deploys[i]
<1> DEFINE row == [deploys[d] EXCEPT !.stage = s]
<1>1. deploys \in Seq(DeployRow) /\ d \in 1..Len(deploys)
  BY DEF StoreTypeOK, DeployIds
<1>2. deploys[d] \in DeployRow
  BY <1>1, ElementOfSeq
<1>3. /\ row \in DeployRow /\ row.app = deploys[d].app /\ row.status = deploys[d].status
      /\ row.stage = s
  BY <1>2 DEF DeployRow
<1>4. deploys' = [deploys EXCEPT ![d] = row]
  BY DEF AdvanceStage
<1> HIDE DEF row
<1>5. /\ [deploys EXCEPT ![d] = row] \in Seq(DeployRow)
      /\ Len([deploys EXCEPT ![d] = row]) = Len(deploys)
      /\ \A j \in 1..Len(deploys) :
            [deploys EXCEPT ![d] = row][j] = IF j = d THEN row ELSE deploys[j]
  BY <1>1, <1>3, ExceptSeq
<1> QED
  BY <1>3, <1>4, <1>5 DEF DeployIds

\* finish_deploy gives one row its ending and changes no other.
LEMMA FinishDeployEnds ==
  ASSUME StoreTypeOK, NEW d \in DeployIds, NEW st \in Terminal, FinishDeploy(d, st)
  PROVE  /\ deploys' \in Seq(DeployRow) /\ Len(deploys') = Len(deploys)
         /\ deploys'[d].status = st /\ deploys'[d].app = deploys[d].app
         /\ \A i \in DeployIds : i # d => deploys'[i] = deploys[i]
<1> DEFINE row == [deploys[d] EXCEPT !.status = st]
<1>1. deploys \in Seq(DeployRow) /\ d \in 1..Len(deploys)
  BY DEF StoreTypeOK, DeployIds
<1>2. deploys[d] \in DeployRow
  BY <1>1, ElementOfSeq
<1>3. row \in DeployRow /\ row.app = deploys[d].app /\ row.status = st
  BY <1>2 DEF DeployRow, DeployStatus
<1>4. deploys' = [deploys EXCEPT ![d] = row]
  BY DEF FinishDeploy
<1> HIDE DEF row
<1>5. /\ [deploys EXCEPT ![d] = row] \in Seq(DeployRow)
      /\ Len([deploys EXCEPT ![d] = row]) = Len(deploys)
      /\ \A j \in 1..Len(deploys) :
            [deploys EXCEPT ![d] = row][j] = IF j = d THEN row ELSE deploys[j]
  BY <1>1, <1>3, ExceptSeq
<1> QED
  BY <1>1, <1>3, <1>4, <1>5 DEF DeployIds

\* append_event adds one event to one log and changes no other.
LEMMA AppendEventAdds ==
  ASSUME StoreTypeOK, NEW d \in DeployIds, NEW s, NEW st, AppendEvent(d, s, st),
         [stage |-> s, status |-> st] \in Event
  PROVE  /\ events' \in Seq(Seq(Event)) /\ Len(events') = Len(events)
         /\ events[d] \in Seq(Event)
         /\ events'[d] = Append(events[d], [stage |-> s, status |-> st])
         /\ \A i \in DeployIds : i # d => events'[i] = events[i]
<1> DEFINE ev == [stage |-> s, status |-> st]
           all == Append(events[d], ev)
<1>1. events \in Seq(Seq(Event)) /\ d \in 1..Len(events) /\ Len(events) = Len(deploys)
  BY DEF StoreTypeOK, DeployIds
<1>2. events[d] \in Seq(Event)
  BY <1>1, ElementOfSeq
<1>3. ev \in Event
  OBVIOUS
<1>4. events' = [events EXCEPT ![d] = all]
  BY DEF AppendEvent
<1> HIDE DEF ev
<1>5. all \in Seq(Event)
  BY <1>2, <1>3, AppendProperties
<1> HIDE DEF all
<1>6. /\ [events EXCEPT ![d] = all] \in Seq(Seq(Event))
      /\ Len([events EXCEPT ![d] = all]) = Len(events)
      /\ \A j \in 1..Len(events) :
            [events EXCEPT ![d] = all][j] = IF j = d THEN all ELSE events[j]
  BY <1>1, <1>5, ExceptSeq
<1> QED
  BY <1>1, <1>2, <1>4, <1>6 DEF DeployIds, all, ev
==============================================================================

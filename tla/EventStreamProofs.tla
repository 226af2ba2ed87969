---------------------------- MODULE EventStreamProofs ----------------------------
(***************************************************************************)
(* Proofs about EventStream: what a viewer shows is a prefix of its        *)
(* deploy's log, for any number of deploys, viewers, events, lost          *)
(* connections and daemon deaths, and a ring of any size.                  *)
(*                                                                         *)
(* StreamInv is inductive as it stands.  Its heart is LeavesNoGap: the     *)
(* rows a handler still has in its queue join what the client has seen,    *)
(* and every later row is one its receiver will come to, because the       *)
(* handler subscribed before it read the backlog and the daemon publishes  *)
(* a deploy's events in the order it stored them (SentInOrder).  After a   *)
(* lag the receiver has lost rows; the queue is then read afresh, and all  *)
(* of it joins.                                                            *)
(***************************************************************************)
EXTENDS EventStream, SequenceTheorems, TLAPS

------------------------------------------------------------------------------
(* The stream: StreamInv *)

\* What appending does to a sequence.
LEMMA Appended ==
  ASSUME NEW S, NEW s \in Seq(S), NEW e \in S
  PROVE  /\ Append(s, e) \in Seq(S) /\ Len(s) \in Nat
         /\ Len(Append(s, e)) = Len(s) + 1
         /\ \A i \in 1..Len(s) : Append(s, e)[i] = s[i]
         /\ Append(s, e)[Len(s) + 1] = e
  BY AppendProperties, LenProperties

\* Storing an event adds one row to the table and to its deploy's.
LEMMA Stored ==
  ASSUME TypeOK, NEW d \in Deploys, NEW f \in BOOLEAN, AppendEvent(d, f)
  PROVE  /\ Len(log) \in Nat /\ Len(log') = Len(log) + 1
         /\ log' \in Seq([deploy : Deploys, finished : BOOLEAN])
         /\ \A i \in 1..Len(log) : log'[i] = log[i]
         /\ log'[Len(log) + 1].deploy = d
         /\ rows' \in [Deploys -> Seq(Id)]
         /\ Len(rows[d]) \in Nat /\ Len(rows'[d]) = Len(rows[d]) + 1
         /\ \A k \in 1..Len(rows[d]) : rows'[d][k] = rows[d][k]
         /\ rows'[d][Len(rows[d]) + 1] = Len(log) + 1
         /\ \A e \in Deploys : e # d => rows'[e] = rows[e]
<1> DEFINE Entry == [deploy : Deploys, finished : BOOLEAN]
<1>1. log \in Seq(Entry) /\ rows \in [Deploys -> Seq(Id)] /\ rows[d] \in Seq(Id)
  BY DEF TypeOK
<1>2. PICK e \in Entry : e = [deploy |-> d, finished |-> f]
  OBVIOUS
<1> HIDE DEF Entry
<1>3. log' = Append(log, e)
  BY <1>2 DEF AppendEvent
<1>4. /\ Len(log) \in Nat /\ Len(log') = Len(log) + 1 /\ log' \in Seq(Entry)
      /\ \A i \in 1..Len(log) : log'[i] = log[i]
      /\ log'[Len(log) + 1] = e
  BY <1>1, <1>3, Appended
<1>5. PICK n \in Id : n = Len(log) + 1
  BY <1>4 DEF Id
<1>6. rows' = [rows EXCEPT ![d] = Append(rows[d], n)]
  BY <1>4, <1>5 DEF AppendEvent
<1>7. /\ rows'[d] = Append(rows[d], n) /\ \A x \in Deploys : x # d => rows'[x] = rows[x]
  BY <1>1, <1>6
<1>8. /\ Append(rows[d], n) \in Seq(Id) /\ Len(rows[d]) \in Nat
      /\ Len(rows'[d]) = Len(rows[d]) + 1
      /\ \A k \in 1..Len(rows[d]) : rows'[d][k] = rows[d][k]
      /\ rows'[d][Len(rows[d]) + 1] = n
  BY <1>1, <1>7, Appended
<1>9. rows' \in [Deploys -> Seq(Id)]
  BY <1>1, <1>6, <1>8
<1>10. e.deploy = d
  BY <1>2
<1> QED
  BY <1>4, <1>5, <1>7, <1>8, <1>9, <1>10 DEF Entry

\* The lengths and entries of the tables.
LEMMA Tables ==
  ASSUME TypeOK
  PROVE  /\ Len(log) \in Nat /\ Len(sent) \in Nat
         /\ \A i \in 1..Len(log) : log[i].deploy \in Deploys
         /\ \A j \in 1..Len(sent) : sent[j] \in 1..Len(log)
         /\ \A d \in Deploys : /\ rows[d] \in Seq(Id) /\ Len(rows[d]) \in Nat
                               /\ unsent[d] \in 0..Len(log)
                               /\ \A k \in 1..Len(rows[d]) : rows[d][k] \in Nat
<1>1. /\ log \in Seq([deploy : Deploys, finished : BOOLEAN])
      /\ sent \in Seq(1..Len(log)) /\ rows \in [Deploys -> Seq(Id)]
      /\ unsent \in [Deploys -> 0..Len(log)]
  BY DEF TypeOK
<1>2. \A i \in 1..Len(log) : log[i] \in [deploy : Deploys, finished : BOOLEAN]
  BY <1>1, ElementOfSeq
<1>3. \A d \in Deploys : rows[d] \in Seq(Id) /\ Len(rows[d]) \in Nat
                         /\ \A k \in 1..Len(rows[d]) : rows[d][k] \in Nat
  BY <1>1, LenProperties, ElementOfSeq DEF Id
<1> QED
  BY <1>1, <1>2, <1>3, LenProperties, ElementOfSeq

\* A step that stores an event keeps the tables in order.
LEMMA TablesKept ==
  ASSUME StreamInv, NEW d \in Deploys, NEW f \in BOOLEAN, AppendEvent(d, f),
         Running(d), Hold(d, Len(log')), sent' = sent
  PROVE  RowsInOrder' /\ SentInOrder'
         /\ unsent' \in [Deploys -> 0..Len(log')] /\ sent' \in Seq(1..Len(log'))
<1>1. TypeOK /\ RowsInOrder /\ SentInOrder
  BY DEF StreamInv
<1>2. /\ Len(log) \in Nat /\ Len(log') = Len(log) + 1
      /\ \A i \in 1..Len(log) : log'[i] = log[i]
      /\ log'[Len(log) + 1].deploy = d
      /\ Len(rows[d]) \in Nat /\ Len(rows'[d]) = Len(rows[d]) + 1
      /\ \A k \in 1..Len(rows[d]) : rows'[d][k] = rows[d][k]
      /\ rows'[d][Len(rows[d]) + 1] = Len(log) + 1
      /\ \A e \in Deploys : e # d => rows'[e] = rows[e]
  BY <1>1, Stored
<1>3. /\ \A e \in Deploys : unsent[e] \in 0..Len(log) /\ Len(rows[e]) \in Nat
                            /\ \A k \in 1..Len(rows[e]) : rows[e][k] \in Nat
      /\ Len(sent) \in Nat /\ \A j \in 1..Len(sent) : sent[j] \in 1..Len(log)
  BY <1>1, Tables
<1>4. /\ \A e \in Deploys : e # d => unsent'[e] = unsent[e]
      /\ unsent'[d] \in {0, Len(log) + 1}
      /\ unsent'[d] # 0 => up /\ d \notin Foreign
      /\ unsent' \in [Deploys -> 0..Len(log')]
  BY <1>1, <1>2, <1>3 DEF Hold, TypeOK
<1>5. RowsInOrder'
  <2> SUFFICES ASSUME NEW e \in Deploys
      PROVE  /\ \A k \in 1..Len(rows'[e]) :
                  rows'[e][k] \in 1..Len(log') /\ log'[rows'[e][k]].deploy = e
             /\ \A j, k \in 1..Len(rows'[e]) : j < k => rows'[e][j] < rows'[e][k]
             /\ \A i \in 1..Len(log') :
                  log'[i].deploy = e => \E k \in 1..Len(rows'[e]) : rows'[e][k] = i
    BY DEF RowsInOrder
  <2>1. /\ \A k \in 1..Len(rows[e]) :
             rows[e][k] \in 1..Len(log) /\ log[rows[e][k]].deploy = e
        /\ \A j, k \in 1..Len(rows[e]) : j < k => rows[e][j] < rows[e][k]
        /\ \A i \in 1..Len(log) :
             log[i].deploy = e => \E k \in 1..Len(rows[e]) : rows[e][k] = i
    BY <1>1 DEF RowsInOrder
  <2> DEFINE len == Len(rows[e])
  <2>2. len \in Nat /\ \A k \in 1..len : rows[e][k] \in Nat
    BY <1>3
  <2>3. \A k \in 1..len : /\ rows[e][k] \in 1..Len(log') /\ rows[e][k] <= Len(log)
                          /\ log'[rows[e][k]].deploy = e
    BY <1>2, <2>1, <2>2
  <2>4. CASE e # d
    <3>1. rows'[e] = rows[e]
      BY <1>2, <2>4
    <3>2. \A i \in 1..Len(log') : log'[i].deploy = e => i \in 1..Len(log) /\ log[i].deploy = e
      BY <1>2, <2>4
    <3> QED
      BY <2>1, <2>3, <3>1, <3>2
  <2>5. CASE e = d
    <3>1. /\ Len(rows'[e]) = len + 1
          /\ \A k \in 1..len : rows'[e][k] = rows[e][k]
          /\ rows'[e][len + 1] = Len(log) + 1
      BY <1>2, <2>5
    <3> HIDE DEF len
    <3>2. \A k \in 1..(len + 1) : k \in 1..len \/ k = len + 1
      BY <2>2
    <3>3. \A k \in 1..(len + 1) :
            rows'[e][k] \in 1..Len(log') /\ log'[rows'[e][k]].deploy = e
      <4>1. \A k \in 1..len : rows'[e][k] \in 1..Len(log') /\ log'[rows'[e][k]].deploy = e
        BY <2>3, <3>1
      <4>2. rows'[e][len + 1] \in 1..Len(log') /\ log'[rows'[e][len + 1]].deploy = e
        BY <1>2, <2>5, <3>1
      <4> QED
        BY <3>2, <4>1, <4>2
    <3>4. ASSUME NEW j \in 1..(len + 1), NEW k \in 1..(len + 1), j < k
          PROVE  rows'[e][j] < rows'[e][k]
      <4>1. j \in 1..len
        BY <2>2, <3>4
      <4>2. rows'[e][j] = rows[e][j] /\ rows[e][j] <= Len(log)
        BY <2>3, <3>1, <4>1
      <4>3. CASE k \in 1..len
        BY <2>1, <3>1, <3>4, <4>1, <4>2, <4>3 DEF len
      <4>4. CASE k = len + 1
        BY <1>2, <2>2, <3>1, <4>1, <4>2, <4>4
      <4> QED
        BY <3>2, <4>3, <4>4
    <3>5. ASSUME NEW i \in 1..Len(log'), log'[i].deploy = e
          PROVE  \E k \in 1..(len + 1) : rows'[e][k] = i
      <4>1. CASE i \in 1..Len(log)
        <5>1. log[i].deploy = e
          BY <1>2, <3>5, <4>1
        <5>2. PICK k \in 1..len : rows[e][k] = i
          BY <2>1, <4>1, <5>1 DEF len
        <5> QED
          BY <2>2, <3>1, <5>2
      <4>2. CASE i = Len(log) + 1
        BY <2>2, <3>1, <4>2
      <4> QED
        BY <1>2, <4>1, <4>2
    <3> QED
      BY <3>1, <3>3, <3>4, <3>5
  <2> QED
    BY <2>4, <2>5
<1>6. SentInOrder'
  <2>1. \A j \in 1..Len(sent) : log'[sent[j]] = log[sent[j]] /\ sent[j] \in Nat
    BY <1>2, <1>3
  <2>2. \A e \in Deploys : unsent'[e] # 0 =>
          /\ e \notin Foreign /\ log'[unsent'[e]].deploy = e
          /\ \A j \in 1..Len(sent) : log[sent[j]].deploy = e => sent[j] < unsent'[e]
    <3> SUFFICES ASSUME NEW e \in Deploys, unsent'[e] # 0
                 PROVE  /\ e \notin Foreign /\ log'[unsent'[e]].deploy = e
                        /\ \A j \in 1..Len(sent) : log[sent[j]].deploy = e => sent[j] < unsent'[e]
      OBVIOUS
    <3>1. CASE e = d
      BY <1>2, <1>3, <1>4, <3>1
    <3>2. CASE e # d
      BY <1>1, <1>2, <1>3, <1>4, <3>2 DEF SentInOrder
    <3> QED
      BY <3>1, <3>2
  <2> QED
    BY <1>1, <2>1, <2>2 DEF SentInOrder
<1>7. sent' \in Seq(1..Len(log'))
  <2>1. sent \in Seq(1..Len(log))
    BY <1>1 DEF TypeOK
  <2>2. 1..Len(log) \subseteq 1..Len(log')
    BY <1>2
  <2> QED
    BY <2>1, <2>2, <1>3, LenProperties, SeqMonotonic
<1> QED
  BY <1>4, <1>5, <1>6, <1>7

\* Writing to the tables moves nobody's page: a stored event, if anybody in the
\* daemon will hear of it, is the one its writer is about to publish.
LEMMA StoringKeepsViewers ==
  ASSUME StreamInv, NEW d \in Deploys, NEW f \in BOOLEAN, AppendEvent(d, f),
         Running(d), Hold(d, Len(log')), up' = up, sent' = sent, viewer' = viewer,
         \A e \in Deploys : status[e] = "ended" => status'[e] = "ended",
         NEW v \in Viewers
  PROVE  ViewerKept(viewer[v])'
<1>1. PICK r \in Viewer : r = viewer[v]
  BY DEF StreamInv, TypeOK
<1>2. r = viewer'[v] /\ ViewerKept(r) /\ r.deploy \in Deploys
  BY <1>1 DEF StreamInv, Viewer
<1>3. TypeOK
  BY DEF StreamInv
<1> DEFINE ids == rows[r.deploy]
<1>4. /\ Len(ids) \in Nat /\ Len(sent) \in Nat /\ Len(r.seen) \in Nat /\ Len(r.queue) \in Nat
  <2>1. r.seen \in Seq(Id) /\ r.queue \in Seq(Id)
    BY DEF Viewer
  <2> QED
    BY <1>2, <1>3, <2>1, Tables, LenProperties
<1>5. /\ Len(rows'[r.deploy]) = IF r.deploy = d THEN Len(ids) + 1 ELSE Len(ids)
      /\ \A k \in 1..Len(ids) : rows'[r.deploy][k] = ids[k]
      /\ r.deploy = d => rows'[r.deploy][Len(ids) + 1] = Len(log')
  BY <1>2, <1>3, Stored
<1>6. r.pc \in {"yield", "recv"} => LeavesNoGap(r)'
  <2> SUFFICES ASSUME r.pc \in {"yield", "recv"} PROVE LeavesNoGap(r)'
    OBVIOUS
  <2>1. PICK m \in 0..Len(r.seen) :
          /\ m + Len(r.queue) <= Len(ids)
          /\ \A k \in 1..Len(r.queue) : r.queue[k] = ids[m + k]
          /\ r.deploy \notin Foreign =>
               \A n \in 1..Len(ids) :
                   n > m + Len(r.queue) /\ n > Len(r.seen) => Coming(r, ids[n])
    BY <1>2 DEF ViewerKept, LeavesNoGap
  <2>2. up
    BY <1>2 DEF ViewerKept
  <2> HIDE DEF ids
  <2>3. \A k \in 1..Len(r.queue) : r.queue[k] = rows'[r.deploy][m + k]
    BY <1>4, <1>5, <2>1
  <2>4. ASSUME r.deploy \notin Foreign, NEW n \in 1..Len(rows'[r.deploy]),
               n > m + Len(r.queue), n > Len(r.seen), NEW i, i = rows'[r.deploy][n]
        PROVE  Coming(r, i)'
    <3>1. CASE n \in 1..Len(ids)
      <4>1. Coming(r, i) /\ i = ids[n]
        BY <1>5, <2>1, <2>4, <3>1
      <4>2. i # 0
        BY <1>2, <1>3, <3>1, <4>1 DEF StreamInv, RowsInOrder, ids
      <4>3. i = unsent[r.deploy] => unsent'[r.deploy] = unsent[r.deploy]
        BY <1>2, <1>3, <4>2 DEF Hold, Running, TypeOK
      <4> QED
        BY <4>1, <4>3 DEF Coming
    <3>2. CASE n = Len(ids) + 1
      <4>1. r.deploy = d /\ i = Len(log')
        BY <1>4, <1>5, <2>4, <3>2
      <4>2. unsent'[d] = Len(log')
        BY <1>3, <2>2, <2>4, <4>1 DEF Hold, TypeOK
      <4> QED
        BY <4>1, <4>2 DEF Coming
    <3> QED
      BY <1>4, <1>5, <2>4, <3>1, <3>2
  <2>5. m + Len(r.queue) <= Len(rows'[r.deploy])
    BY <1>4, <1>5, <2>1
  <2> QED
    BY <2>1, <2>3, <2>4, <2>5 DEF LeavesNoGap
<1>7. r.pc = "gone" => r.deploy # d
  BY <1>2 DEF ViewerKept, Running
<1>8. ViewerKept(r)'
  <2> HIDE DEF ids
  <2>1. /\ Len(r.seen) <= Len(rows'[r.deploy])
        /\ \A k \in 1..Len(r.seen) : r.seen[k] = rows'[r.deploy][k]
    BY <1>2, <1>4, <1>5 DEF ViewerKept, ids
  <2>2. r.pc = "gone" => status'[r.deploy] = "ended" /\ Len(r.seen) = Len(rows'[r.deploy])
    BY <1>2, <1>5, <1>7 DEF ViewerKept, ids
  <2>3. r.terminal => status'[r.deploy] = "ended"
    BY <1>2 DEF ViewerKept
  <2> QED
    BY <1>2, <1>6, <2>1, <2>2, <2>3 DEF ViewerKept
<1> QED
  BY <1>2, <1>8

\* The step of a writer that stores an event.
LEMMA StoringKeeps ==
  ASSUME StreamInv, NEW d \in Deploys, StoreEvent(d) \/ StoreEnding(d)
  PROVE  StreamInv'
<1>1. PICK f \in BOOLEAN : AppendEvent(d, f)
  BY DEF StoreEvent, StoreEnding
<1>2. /\ Running(d) /\ Hold(d, Len(log'))
      /\ UNCHANGED <<up, sent, viewer, drops>>
      /\ status' = status \/ status' = [status EXCEPT ![d] = "ended"]
  BY DEF StoreEvent, StoreEnding
<1>3. TypeOK
  BY DEF StreamInv
<1>4. /\ status' \in [Deploys -> {"none", "in_progress", "ended"}]
      /\ \A e \in Deploys : status[e] = "ended" => status'[e] = "ended"
  BY <1>2, <1>3 DEF TypeOK
<1>5. RowsInOrder' /\ SentInOrder'
      /\ unsent' \in [Deploys -> 0..Len(log')] /\ sent' \in Seq(1..Len(log'))
  BY <1>1, <1>2, TablesKept
<1>6. TypeOK'
  BY <1>1, <1>2, <1>3, <1>4, <1>5, Stored DEF TypeOK
<1>7. \A v \in Viewers : ViewerKept(viewer[v])'
  BY <1>1, <1>2, <1>4, StoringKeepsViewers
<1> QED
  BY <1>5, <1>6, <1>7 DEF StreamInv

\* Publishing.
LEMMA PublishingKeeps ==
  ASSUME StreamInv, NEW d \in Deploys, Publish(d)
  PROVE  StreamInv'
<1>1. TypeOK /\ RowsInOrder /\ SentInOrder
  BY DEF StreamInv
<1>2. /\ unsent[d] \in 1..Len(log) /\ sent \in Seq(1..Len(log)) /\ Len(sent) \in Nat
      /\ d \notin Foreign /\ log[unsent[d]].deploy = d
  BY <1>1, Tables DEF Publish, TypeOK, SentInOrder
<1>3. /\ UNCHANGED <<log, rows, status, up, viewer, drops>>
      /\ sent' = Append(sent, unsent[d])
      /\ unsent' = [unsent EXCEPT ![d] = 0]
  BY DEF Publish
<1>4. /\ sent' \in Seq(1..Len(log)) /\ Len(sent') = Len(sent) + 1
      /\ \A j \in 1..Len(sent) : sent'[j] = sent[j]
      /\ sent'[Len(sent) + 1] = unsent[d]
  BY <1>2, <1>3, Appended
<1>5. /\ unsent' \in [Deploys -> 0..Len(log)] /\ unsent'[d] = 0
      /\ \A e \in Deploys : e # d => unsent'[e] = unsent[e]
  BY <1>1, <1>3 DEF TypeOK
<1>6. TypeOK'
  BY <1>1, <1>3, <1>4, <1>5 DEF TypeOK
<1>7. RowsInOrder'
  BY <1>1, <1>3 DEF RowsInOrder
<1>8. \A j \in 1..Len(sent') : j \in 1..Len(sent) \/ j = Len(sent) + 1
  BY <1>2, <1>4
<1>9. SentInOrder'
  <2>1. \A j \in 1..Len(sent') : log[sent'[j]].deploy \notin Foreign
    BY <1>1, <1>2, <1>4, <1>8 DEF SentInOrder
  <2>2. ASSUME NEW j \in 1..Len(sent'), NEW k \in 1..Len(sent'),
               j < k, log[sent'[j]].deploy = log[sent'[k]].deploy
        PROVE  sent'[j] < sent'[k]
    <3>1. j \in 1..Len(sent)
      BY <1>2, <1>4, <2>2
    <3>2. CASE k \in 1..Len(sent)
      BY <1>1, <1>4, <2>2, <3>1, <3>2 DEF SentInOrder
    <3>3. CASE k = Len(sent) + 1
      <4>1. sent'[j] = sent[j] /\ sent'[k] = unsent[d] /\ log[sent[j]].deploy = d /\ unsent[d] # 0
        BY <1>2, <1>4, <2>2, <3>1, <3>3
      <4> QED
        BY <1>1, <3>1, <4>1 DEF SentInOrder
    <3> QED
      BY <1>8, <3>2, <3>3
  <2>3. ASSUME NEW e \in Deploys, unsent'[e] # 0
        PROVE  /\ e \notin Foreign /\ log[unsent'[e]].deploy = e
               /\ \A j \in 1..Len(sent') : log[sent'[j]].deploy = e => sent'[j] < unsent'[e]
    <3>1. e # d /\ unsent'[e] = unsent[e] /\ unsent[e] # 0
      BY <1>5, <2>3
    <3> QED
      BY <1>1, <1>2, <1>4, <1>8, <3>1 DEF SentInOrder
  <2> QED
    BY <1>3, <2>1, <2>2, <2>3 DEF SentInOrder
<1>10. ASSUME NEW v \in Viewers PROVE ViewerKept(viewer[v])'
  <2>1. PICK r \in Viewer : r = viewer[v]
    BY <1>1 DEF TypeOK
  <2>2. r = viewer'[v] /\ ViewerKept(r) /\ r.pos \in Nat
    BY <1>3, <2>1 DEF StreamInv, Viewer
  <2>3. ASSUME NEW i, Coming(r, i), r.pos <= Len(sent) + 1 PROVE Coming(r, i)'
    <3>1. CASE i = unsent[r.deploy] /\ r.deploy = d
      <4>1. Len(sent) + 1 \in 1..Len(sent') /\ sent'[Len(sent) + 1] = i
        BY <1>2, <1>4, <3>1
      <4> QED
        BY <1>2, <2>2, <2>3, <4>1 DEF Coming
    <3>2. CASE i = unsent[r.deploy] /\ r.deploy # d
      BY <1>5, <2>1, <3>2 DEF Coming, Viewer
    <3>3. CASE \E j \in 1..Len(sent) : j >= r.pos /\ sent[j] = i
      BY <1>2, <1>4, <3>3 DEF Coming
    <3> QED
      BY <2>3, <3>1, <3>2, <3>3 DEF Coming
  <2>4. r.pc \in {"yield", "recv"} => LeavesNoGap(r)'
    BY <1>3, <2>2, <2>3 DEF ViewerKept, LeavesNoGap
  <2>5. r.pos <= Len(sent) + 1 => r.pos <= Len(sent') + 1
    BY <1>2, <1>4, <2>2
  <2>6. ViewerKept(r)'
    BY <1>3, <2>2, <2>4, <2>5 DEF ViewerKept
  <2> QED
    BY <2>2, <2>6
<1> QED
  BY <1>6, <1>7, <1>9, <1>10 DEF StreamInv

\* Steps that move neither events nor viewers.
LEMMA RowsOnlyKeep ==
  ASSUME StreamInv, UNCHANGED <<log, rows, unsent, sent, viewer, drops>>,
         up' \in BOOLEAN, up => up',
         status' \in [Deploys -> {"none", "in_progress", "ended"}],
         \A d \in Deploys : status[d] = "ended" => status'[d] = "ended"
  PROVE  StreamInv'
<1>1. TypeOK /\ RowsInOrder /\ SentInOrder
  BY DEF StreamInv
<1>2. TypeOK' /\ RowsInOrder' /\ SentInOrder'
  BY <1>1 DEF TypeOK, RowsInOrder, SentInOrder
<1>3. ASSUME NEW v \in Viewers PROVE ViewerKept(viewer[v])'
  <2>1. PICK r \in Viewer : r = viewer[v]
    BY <1>1 DEF TypeOK
  <2>2. r = viewer'[v] /\ ViewerKept(r) /\ r.deploy \in Deploys
    BY <2>1 DEF StreamInv, Viewer
  <2>3. LeavesNoGap(r) => LeavesNoGap(r)'
    BY DEF LeavesNoGap, Coming
  <2>4. ViewerKept(r)'
    BY <2>2, <2>3 DEF ViewerKept
  <2> QED
    BY <2>2, <2>4
<1> QED
  BY <1>2, <1>3 DEF StreamInv

\* A connection that is lost leaves the client what it has.
LEMMA ClosedKept ==
  ASSUME NEW r \in Viewer, ViewerKept(r),
         r.pc \in {"row", "backlog", "yield", "recv", "lagged"}
  PROVE  Closed(r) \in Viewer /\ Closed(r).pc = "away" /\ ViewerKept(Closed(r))
<1>1. PICK none \in Seq(Id) : none = <<>>
  BY EmptySeq
<1>2. PICK c : c = Closed(r)
  OBVIOUS
<1>3. 0 \in Id
  BY DEF Id
<1>4. c = [r EXCEPT !.pc = "away", !.pos = 1, !.terminal = FALSE,
                    !.queue = none, !.last = 0]
  BY <1>1, <1>2 DEF Closed
<1>5. /\ c \in Viewer /\ c.pc = "away" /\ c.terminal = FALSE /\ c.queue = none
      /\ c.deploy = r.deploy /\ c.header = r.header /\ c.seen = r.seen
  <2>1. 1 \in Nat \ {0}
    OBVIOUS
  <2>2. PICK one \in Nat \ {0} : one = 1
    BY <2>1
  <2>3. PICK zero \in Id : zero = 0
    BY <1>3
  <2>4. c = [r EXCEPT !.pc = "away", !.pos = one, !.terminal = FALSE,
                      !.queue = none, !.last = zero]
    BY <1>4, <2>2, <2>3
  <2> QED
    BY <2>4 DEF Viewer
<1>6. ViewerKept(c)
  BY <1>1, <1>5 DEF ViewerKept
<1> QED
  BY <1>2, <1>5, <1>6

\* The daemon's death.
LEMMA DeathKeeps ==
  ASSUME StreamInv, Die
  PROVE  StreamInv'
<1>1. TypeOK /\ RowsInOrder
  BY DEF StreamInv
<1>2. /\ UNCHANGED <<log, rows, status>> /\ up' = FALSE /\ sent' = <<>>
      /\ unsent' = [d \in Deploys |-> 0] /\ drops' \in 0..MaxDrops
  <2>1. drops \in 0..MaxDrops /\ drops < MaxDrops /\ drops' = drops + 1
    BY <1>1 DEF Die, TypeOK
  <2>2. drops' \in 0..MaxDrops
    BY <2>1, StreamAssumption
  <2> QED
    BY <2>2 DEF Die
<1>3. ASSUME NEW v \in Viewers PROVE viewer'[v] \in Viewer /\ ViewerKept(viewer[v])'
  <2>1. PICK r \in Viewer : r = viewer[v]
    BY <1>1 DEF TypeOK
  <2>2. PICK c : c = viewer'[v]
    OBVIOUS
  <2>3. /\ ViewerKept(r)
        /\ c = IF r.pc \in {"row", "backlog", "yield", "recv", "lagged"} THEN Closed(r)
               ELSE IF r.pc = "page" THEN [r EXCEPT !.pc = "new", !.terminal = FALSE]
               ELSE r
    BY <2>1, <2>2 DEF Die, Connected, At, StreamInv
  <2>4. c \in Viewer /\ c.pc \in {"new", "away", "gone"} /\ ViewerKept(c)
    <3>1. CASE r.pc \in {"row", "backlog", "yield", "recv", "lagged"}
      BY <2>3, <3>1, ClosedKept
    <3>2. CASE r.pc = "page"
      <4>1. /\ c \in Viewer /\ c.pc = "new" /\ ~c.terminal /\ c.queue = r.queue
            /\ c.deploy = r.deploy /\ c.header = r.header /\ c.seen = r.seen
        BY <2>3, <3>2 DEF Viewer
      <4> QED
        BY <2>3, <3>2, <4>1 DEF ViewerKept
    <3>3. CASE r.pc \in {"new", "away", "gone"}
      BY <2>3, <3>3
    <3> QED
      BY <3>1, <3>2, <3>3 DEF Viewer
  <2>5. ViewerKept(c)'
    BY <1>2, <2>4 DEF ViewerKept
  <2> QED
    BY <2>2, <2>4, <2>5
<1>4. viewer' \in [Viewers -> Viewer]
  BY <1>3 DEF Die
<1>5. /\ sent' \in Seq(1..Len(log)) /\ Len(sent') = 0
  BY <1>2, EmptySeq
<1>6. unsent' \in [Deploys -> 0..Len(log)] /\ \A d \in Deploys : unsent'[d] = 0
  BY <1>1, <1>2, Tables
<1>7. TypeOK'
  BY <1>1, <1>2, <1>4, <1>5, <1>6 DEF TypeOK
<1>8. RowsInOrder' /\ SentInOrder'
  BY <1>1, <1>2, <1>5, <1>6 DEF RowsInOrder, SentInOrder
<1> QED
  BY <1>3, <1>7, <1>8 DEF StreamInv

\* A step of one viewer's connection.
LEMMA ViewingKeeps ==
  ASSUME StreamInv, UNCHANGED writerVars, drops' \in 0..MaxDrops,
         NEW v \in Viewers, NEW rec \in Viewer, viewer' = [viewer EXCEPT ![v] = rec],
         ViewerKept(rec)
  PROVE  StreamInv'
<1>1. /\ TypeOK /\ RowsInOrder /\ SentInOrder
      /\ UNCHANGED <<log, rows, status, unsent, up, sent>>
  BY DEF StreamInv, writerVars
<1>2. TypeOK' /\ RowsInOrder' /\ SentInOrder'
  BY <1>1 DEF TypeOK, RowsInOrder, SentInOrder
<1>3. ASSUME NEW u \in Viewers PROVE ViewerKept(viewer[u])'
  <2>1. PICK r : r = viewer'[u]
    OBVIOUS
  <2>2. ViewerKept(r)
    BY <1>1, <2>1 DEF StreamInv, TypeOK
  <2>3. LeavesNoGap(r) => LeavesNoGap(r)'
    BY <1>1 DEF LeavesNoGap, Coming
  <2>4. ViewerKept(r)'
    BY <1>1, <2>2, <2>3 DEF ViewerKept
  <2> QED
    BY <2>1, <2>4
<1> QED
  BY <1>2, <1>3 DEF StreamInv

\* What a viewer has seen are the rows up to the last one it has seen.
LEMMA SeenRows ==
  ASSUME StreamInv, NEW r \in Viewer, ViewerKept(r), NEW ids, ids = rows[r.deploy]
  PROVE  /\ r.deploy \in Deploys /\ ids \in Seq(Id) /\ Len(ids) \in Nat
         /\ r.seen \in Seq(Id) /\ Len(r.seen) \in Nat /\ Len(r.seen) <= Len(ids)
         /\ LastId(r.seen) \in Nat /\ LastId(ids) \in Nat /\ LastId(r.seen) <= LastId(ids)
         /\ \A k \in 1..Len(ids) : /\ ids[k] \in Nat /\ ids[k] # 0
                                   /\ ids[k] <= LastId(r.seen) <=> k <= Len(r.seen)
         /\ LastId(ids) <= LastId(r.seen) => Len(r.seen) = Len(ids)
<1>1. /\ r.deploy \in Deploys /\ ids \in Seq(Id) /\ Len(ids) \in Nat
      /\ r.seen \in Seq(Id) /\ Len(r.seen) \in Nat /\ Len(r.seen) <= Len(ids)
      /\ \A k \in 1..Len(ids) : ids[k] \in Nat
      /\ Len(log) \in Nat
  BY Tables, LenProperties DEF StreamInv, ViewerKept, Viewer
<1>2. /\ \A k \in 1..Len(ids) : ids[k] \in 1..Len(log)
      /\ \A j, k \in 1..Len(ids) : j < k => ids[j] < ids[k]
      /\ \A k \in 1..Len(r.seen) : r.seen[k] = ids[k]
  BY <1>1 DEF StreamInv, RowsInOrder, ViewerKept
<1>3. \A k \in 1..Len(ids) : ids[k] # 0
  BY <1>1, <1>2
<1>4. /\ LastId(ids) = IF Len(ids) = 0 THEN 0 ELSE ids[Len(ids)]
      /\ LastId(r.seen) = IF Len(r.seen) = 0 THEN 0 ELSE ids[Len(r.seen)]
  <2>1. \A s \in Seq(Id) : s = <<>> <=> Len(s) = 0
    BY EmptySeq
  <2> QED
    BY <1>1, <1>2, <2>1 DEF LastId
<1>5. LastId(r.seen) \in Nat /\ LastId(ids) \in Nat
  BY <1>1, <1>4
<1>6. ASSUME NEW k \in 1..Len(ids) PROVE ids[k] <= LastId(r.seen) <=> k <= Len(r.seen)
  <2>1. CASE Len(r.seen) = 0
    BY <1>1, <1>3, <1>4, <2>1
  <2>2. CASE Len(r.seen) # 0
    <3>1. Len(r.seen) \in 1..Len(ids) /\ LastId(r.seen) = ids[Len(r.seen)]
      BY <1>1, <1>4, <2>2
    <3> QED
      BY <1>1, <1>2, <3>1
  <2> QED
    BY <2>1, <2>2
<1>7. LastId(r.seen) <= LastId(ids)
  <2>1. CASE Len(ids) = 0
    BY <1>1, <1>4, <2>1
  <2>2. CASE Len(ids) # 0
    <3>1. Len(ids) \in 1..Len(ids) /\ LastId(ids) = ids[Len(ids)]
      BY <1>1, <1>4, <2>2
    <3>2. ids[Len(ids)] < LastId(r.seen) => Len(ids) <= Len(r.seen)
      BY <1>1, <1>5, <1>6, <3>1
    <3>3. Len(ids) = Len(r.seen) => LastId(ids) = LastId(r.seen)
      BY <1>4
    <3> QED
      BY <1>1, <1>5, <3>1, <3>2, <3>3
  <2> QED
    BY <2>1, <2>2
<1>8. LastId(ids) <= LastId(r.seen) => Len(r.seen) = Len(ids)
  <2>1. CASE Len(ids) = 0
    BY <1>1, <2>1
  <2>2. CASE Len(ids) # 0
    <3>1. Len(ids) \in 1..Len(ids) /\ LastId(ids) = ids[Len(ids)]
      BY <1>1, <1>4, <2>2
    <3> QED
      BY <1>1, <1>6, <3>1
  <2> QED
    BY <2>1, <2>2
<1> QED
  BY <1>1, <1>3, <1>5, <1>6, <1>7, <1>8

\* What a step knows of the viewer it serves.
LEMMA ServedViewer ==
  ASSUME StreamInv, NEW v \in Viewers, NEW r, r = viewer[v]
  PROVE  /\ r \in Viewer /\ ViewerKept(r)
         /\ r.deploy \in Deploys /\ r.seen \in Seq(Id) /\ r.queue \in Seq(Id)
         /\ r.header \in Nat /\ r.last \in Nat /\ r.pos \in Nat /\ r.pos # 0
         /\ r.terminal \in BOOLEAN
         /\ drops \in 0..MaxDrops /\ Len(sent) \in Nat
<1>1. r \in Viewer /\ ViewerKept(r) /\ drops \in 0..MaxDrops /\ Len(sent) \in Nat
  BY Tables DEF StreamInv, TypeOK
<1> QED
  BY <1>1 DEF Viewer, Id

\* The page's own steps.
LEMMA PageKeeps ==
  ASSUME StreamInv, NEW v \in Viewers,
         OpenPage(v) \/ OpenBare(v) \/ RenderPage(v) \/ TellDetail(v)
  PROVE  StreamInv'
<1>1. PICK r : r = viewer[v]
  OBVIOUS
<1>2. /\ r \in Viewer /\ ViewerKept(r) /\ drops \in 0..MaxDrops /\ r.seen \in Seq(Id)
  BY <1>1, ServedViewer
<1>3. PICK ids : ids = rows[r.deploy]
  OBVIOUS
<1>4. /\ ids \in Seq(Id) /\ Len(ids) \in Nat /\ LastId(ids) \in Id
  BY <1>2, <1>3, SeenRows DEF Id
<1>5. PICK ended \in BOOLEAN : ended <=> status[r.deploy] = "ended"
  OBVIOUS
<1>6. UNCHANGED writerVars /\ drops' \in 0..MaxDrops
  BY <1>2 DEF OpenPage, OpenBare, RenderPage, TellDetail
<1>7. ASSUME OpenPage(v) PROVE StreamInv'
  <2>1. PICK rec : rec = [r EXCEPT !.pc = "page", !.terminal = ended]
    OBVIOUS
  <2>2. viewer' = [viewer EXCEPT ![v] = rec] /\ r.pc = "new"
    <3>1. (status[r.deploy] = "ended") = ended
      BY <1>5
    <3> QED
      BY <1>1, <1>7, <2>1, <3>1 DEF OpenPage, Become, At
  <2>3. /\ rec \in Viewer /\ rec.pc = "page" /\ rec.terminal = ended /\ rec.seen = r.seen
        /\ rec.deploy = r.deploy /\ rec.header = r.header /\ rec.queue = r.queue
    BY <1>2, <2>1 DEF Viewer
  <2>4. ViewerKept(rec)
    BY <1>2, <1>5, <2>2, <2>3 DEF ViewerKept
  <2> QED
    BY <1>6, <2>2, <2>3, <2>4, ViewingKeeps
<1>8. ASSUME OpenBare(v) PROVE StreamInv'
  <2>1. PICK none \in Seq(Id) : none = <<>> /\ Len(none) = 0
    BY EmptySeq
  <2>2. PICK rec : rec = [r EXCEPT !.pc = "away", !.seen = none]
    OBVIOUS
  <2>3. viewer' = [viewer EXCEPT ![v] = rec] /\ r.pc = "new"
    BY <1>1, <1>8, <2>1, <2>2 DEF OpenBare, Become, At
  <2>4. /\ rec \in Viewer /\ rec.pc = "away" /\ rec.terminal = r.terminal /\ rec.seen = none
        /\ rec.deploy = r.deploy /\ rec.header = r.header /\ rec.queue = r.queue
    BY <1>2, <2>2 DEF Viewer
  <2>5. ViewerKept(rec)
    BY <1>2, <1>3, <1>4, <2>1, <2>3, <2>4 DEF ViewerKept, LastId
  <2> QED
    BY <1>6, <2>3, <2>4, <2>5, ViewingKeeps
<1>9. ASSUME RenderPage(v) PROVE StreamInv'
  <2>1. PICK pc \in {"gone", "away"} : pc = IF r.terminal THEN "gone" ELSE "away"
    OBVIOUS
  <2>2. PICK rec : rec = [r EXCEPT !.pc = pc, !.terminal = FALSE, !.seen = ids,
                                   !.header = LastId(ids)]
    OBVIOUS
  <2>3. viewer' = [viewer EXCEPT ![v] = rec] /\ r.pc = "page"
    BY <1>1, <1>3, <1>9, <2>1, <2>2 DEF RenderPage, Become, At
  <2>4. /\ rec \in Viewer /\ rec.pc = pc /\ rec.terminal = FALSE /\ rec.seen = ids
        /\ rec.deploy = r.deploy /\ rec.header = LastId(ids) /\ rec.queue = r.queue
    BY <1>2, <1>4, <2>1, <2>2 DEF Viewer
  <2>5. ViewerKept(rec)
    BY <1>2, <1>3, <1>4, <2>1, <2>3, <2>4 DEF ViewerKept
  <2> QED
    BY <1>6, <2>3, <2>4, <2>5, ViewingKeeps
<1>10. ASSUME TellDetail(v) PROVE StreamInv'
  <2>1. PICK pc \in {"gone", "new"} : pc = IF r.terminal THEN "gone" ELSE "new"
    OBVIOUS
  <2>2. PICK rec : rec = [r EXCEPT !.pc = pc, !.terminal = FALSE, !.seen = ids]
    OBVIOUS
  <2>3. viewer' = [viewer EXCEPT ![v] = rec] /\ r.pc = "page"
    BY <1>1, <1>3, <1>10, <2>1, <2>2 DEF TellDetail, Become, At
  <2>4. /\ rec \in Viewer /\ rec.pc = pc /\ rec.terminal = FALSE /\ rec.seen = ids
        /\ rec.deploy = r.deploy /\ rec.header = r.header /\ rec.queue = r.queue
    BY <1>2, <1>4, <2>1, <2>2 DEF Viewer
  <2>5. ViewerKept(rec)
    BY <1>2, <1>3, <1>4, <2>1, <2>3, <2>4 DEF ViewerKept
  <2> QED
    BY <1>6, <2>3, <2>4, <2>5, ViewingKeeps
<1> QED
  BY <1>7, <1>8, <1>9, <1>10

\* A queue that holds all the deploy's rows leaves no gap.
LEMMA AllRowsNoGap ==
  ASSUME StreamInv, NEW r \in Viewer, r.queue = rows[r.deploy]
  PROVE  LeavesNoGap(r)
<1>1. Len(r.queue) \in Nat /\ Len(rows[r.deploy]) \in Nat /\ Len(r.seen) \in Nat
  BY LenProperties DEF Viewer
<1>2. 0 \in 0..Len(r.seen)
  BY <1>1
<1> QED
  BY <1>1, <1>2 DEF LeavesNoGap

\* Opening the stream: subscribe, read the row, read the backlog.
LEMMA OpeningKeeps ==
  ASSUME StreamInv, NEW v \in Viewers, Subscribe(v) \/ ReadRow(v) \/ ReadBacklog(v)
  PROVE  StreamInv'
<1>1. PICK r : r = viewer[v]
  OBVIOUS
<1>2. /\ r \in Viewer /\ ViewerKept(r) /\ drops \in 0..MaxDrops /\ Len(sent) \in Nat
      /\ r.header \in Nat /\ r.terminal \in BOOLEAN
  BY <1>1, ServedViewer
<1>3. PICK ids : ids = rows[r.deploy]
  OBVIOUS
<1>4. /\ ids \in Seq(Id) /\ Len(ids) \in Nat /\ LastId(ids) \in Nat
      /\ LastId(r.seen) \in Nat /\ LastId(r.seen) <= LastId(ids)
      /\ LastId(ids) <= LastId(r.seen) => Len(r.seen) = Len(ids)
  BY <1>2, <1>3, SeenRows
<1>5. UNCHANGED writerVars /\ drops' \in 0..MaxDrops
  BY <1>2 DEF Subscribe, ReadRow, ReadBacklog
<1>6. ASSUME Subscribe(v) PROVE StreamInv'
  <2>1. PICK p \in Nat \ {0} : p = Len(sent) + 1
    BY <1>2
  <2>2. PICK rec : rec = [r EXCEPT !.pc = "row", !.pos = p]
    OBVIOUS
  <2>3. viewer' = [viewer EXCEPT ![v] = rec] /\ r.pc = "away" /\ up
    BY <1>1, <1>6, <2>1, <2>2 DEF Subscribe, Become, At
  <2>4. /\ rec \in Viewer /\ rec.pc = "row" /\ rec.terminal = r.terminal /\ rec.seen = r.seen
        /\ rec.deploy = r.deploy /\ rec.header = r.header /\ rec.queue = r.queue /\ rec.pos = p
    BY <1>2, <2>2 DEF Viewer
  <2>5. p <= Len(sent) + 1
    BY <1>2, <2>1
  <2>6. ViewerKept(rec)
    BY <1>2, <2>3, <2>4, <2>5 DEF ViewerKept
  <2> QED
    BY <1>5, <2>3, <2>4, <2>6, ViewingKeeps
<1>7. ASSUME ReadRow(v) PROVE StreamInv'
  <2>1. PICK ended \in BOOLEAN : ended = (status[r.deploy] = "ended")
    OBVIOUS
  <2>2. PICK rec : rec = [r EXCEPT !.pc = "backlog", !.terminal = ended]
    OBVIOUS
  <2>3. viewer' = [viewer EXCEPT ![v] = rec] /\ r.pc = "row"
    BY <1>1, <1>7, <2>1, <2>2 DEF ReadRow, Become, At
  <2>4. /\ rec \in Viewer /\ rec.pc = "backlog" /\ rec.terminal = ended /\ rec.seen = r.seen
        /\ rec.deploy = r.deploy /\ rec.header = r.header /\ rec.queue = r.queue
        /\ rec.pos = r.pos
    BY <1>2, <2>2 DEF Viewer
  <2>5. ViewerKept(rec)
    BY <1>2, <2>1, <2>3, <2>4 DEF ViewerKept
  <2> QED
    BY <1>5, <2>3, <2>4, <2>5, ViewingKeeps
<1>8. ASSUME ReadBacklog(v) PROVE StreamInv'
  <2>1. r.pc = "backlog" /\ r.header = LastId(r.seen)
    BY <1>1, <1>2, <1>8 DEF ReadBacklog, At, ViewerKept
  <2>2. PICK resume \in Nat : resume = LesserOf(r.header, LastId(ids)) /\ resume = r.header
    BY <1>4, <2>1 DEF LesserOf
  <2>3. CASE r.terminal /\ resume >= LastId(ids)
    <3>1. PICK c : c = Closed(r)
      OBVIOUS
    <3>2. c \in Viewer /\ c.pc = "away" /\ ViewerKept(c)
      BY <1>2, <2>1, <3>1, ClosedKept
    <3>3. c.seen = r.seen /\ c.deploy = r.deploy
      BY <1>2, <3>1 DEF Closed, Viewer
    <3>4. PICK rec : rec = [c EXCEPT !.pc = "gone"]
      OBVIOUS
    <3>5. viewer' = [viewer EXCEPT ![v] = rec]
      BY <1>1, <1>3, <1>8, <2>2, <2>3, <3>1, <3>4 DEF ReadBacklog, Become
    <3>6. /\ rec \in Viewer /\ rec.pc = "gone" /\ rec.terminal = c.terminal /\ rec.seen = c.seen
          /\ rec.deploy = c.deploy /\ rec.queue = c.queue
      BY <3>2, <3>4 DEF Viewer
    <3>7. LastId(ids) <= LastId(r.seen)
      BY <1>4, <2>1, <2>2, <2>3
    <3>8. ViewerKept(rec)
      BY <1>2, <1>3, <1>4, <2>3, <3>2, <3>3, <3>6, <3>7 DEF ViewerKept
    <3> QED
      BY <1>5, <3>5, <3>6, <3>8, ViewingKeeps
  <2>4. CASE ~(r.terminal /\ resume >= LastId(ids))
    <3>1. PICK rec : rec = [r EXCEPT !.pc = "yield", !.queue = ids, !.last = resume]
      OBVIOUS
    <3>2. viewer' = [viewer EXCEPT ![v] = rec]
      BY <1>1, <1>3, <1>8, <2>2, <2>4, <3>1 DEF ReadBacklog, Become
    <3>3. resume \in Id
      BY DEF Id
    <3>4. /\ rec \in Viewer /\ rec.pc = "yield" /\ rec.terminal = r.terminal
          /\ rec.seen = r.seen /\ rec.deploy = r.deploy /\ rec.header = r.header
          /\ rec.queue = ids /\ rec.pos = r.pos /\ rec.last = resume
      BY <1>2, <1>4, <3>1, <3>3 DEF Viewer
    <3>5. LeavesNoGap(rec)
      BY <1>3, <3>4, AllRowsNoGap
    <3>6. ViewerKept(rec)
      BY <1>2, <2>1, <2>2, <3>4, <3>5 DEF ViewerKept
    <3> QED
      BY <1>5, <3>2, <3>4, <3>6, ViewingKeeps
  <2> QED
    BY <2>3, <2>4
<1> QED
  BY <1>6, <1>7, <1>8

\* Delivering the row after the last one seen.
LEMMA HandedOver ==
  ASSUME StreamInv, NEW r \in Viewer, ViewerKept(r), r.pc \in {"yield", "recv"},
         NEW rest \in Viewer, rest.pc = r.pc, rest.deploy = r.deploy,
         rest.terminal = r.terminal, rest.seen = r.seen,
         rest.pos <= Len(sent) + 1, rest.pc = "recv" => rest.queue = <<>>,
         NEW ids, ids = rows[r.deploy], Len(r.seen) + 1 <= Len(ids),
         NEW i \in Id, i = ids[Len(r.seen) + 1],
         NEW m \in 0..(Len(r.seen) + 1),
         m + Len(rest.queue) <= Len(ids),
         \A k \in 1..Len(rest.queue) : rest.queue[k] = ids[m + k],
         r.deploy \notin Foreign =>
             \A n \in 1..Len(ids) :
                 n > m + Len(rest.queue) /\ n > Len(r.seen) + 1 => Coming(rest, ids[n])
  PROVE  Deliver(rest, i) \in Viewer /\ ViewerKept(Deliver(rest, i))
<1>1. /\ r.seen \in Seq(Id) /\ Len(r.seen) \in Nat /\ Len(ids) \in Nat
  BY SeenRows
<1>2. PICK seen \in Seq(Id) : seen = Append(r.seen, i)
  BY <1>1, Appended
<1>3. /\ Len(seen) = Len(r.seen) + 1 /\ seen[Len(r.seen) + 1] = i
      /\ \A k \in 1..Len(r.seen) : seen[k] = r.seen[k]
  BY <1>1, <1>2, Appended
<1>4. PICK told : told = [rest EXCEPT !.last = i, !.header = i, !.seen = seen]
  OBVIOUS
<1>5. /\ told \in Viewer /\ told.pc = r.pc /\ told.terminal = r.terminal /\ told.seen = seen
      /\ told.deploy = r.deploy /\ told.header = i /\ told.last = i
      /\ told.queue = rest.queue /\ told.pos = rest.pos
  BY <1>4 DEF Viewer
<1>6. LastId(seen) = i
  BY <1>1, <1>3, EmptySeq DEF LastId
<1>7. \A k \in 1..Len(seen) : seen[k] = ids[k]
  BY <1>1, <1>3 DEF ViewerKept
<1>8. LeavesNoGap(told)
  <2>1. m \in 0..Len(told.seen)
    BY <1>3, <1>5
  <2>2. told.deploy \notin Foreign =>
          \A n \in 1..Len(ids) :
              n > m + Len(told.queue) /\ n > Len(told.seen) => Coming(told, ids[n])
    BY <1>3, <1>5 DEF Coming
  <2> QED
    BY <1>5, <2>1, <2>2 DEF LeavesNoGap
<1>9. ViewerKept(told)
  BY <1>1, <1>3, <1>5, <1>6, <1>7, <1>8 DEF ViewerKept
<1>10. Deliver(rest, i) = IF IsFinished(i) THEN Closed(told) ELSE told
  BY <1>2, <1>4 DEF Deliver
<1>11. CASE IsFinished(i)
  BY <1>5, <1>9, <1>10, <1>11, ClosedKept
<1>12. CASE ~IsFinished(i)
  BY <1>5, <1>9, <1>10, <1>12
<1> QED
  BY <1>11, <1>12

\* Telling a client the backlog, or what it missed.
LEMMA YieldKeeps ==
  ASSUME StreamInv, NEW v \in Viewers, Yield(v)
  PROVE  StreamInv'
<1>1. PICK r : r = viewer[v]
  OBVIOUS
<1>2. /\ r \in Viewer /\ ViewerKept(r) /\ drops \in 0..MaxDrops /\ Len(sent) \in Nat
      /\ r.queue \in Seq(Id) /\ r.last \in Nat /\ r.pos \in Nat /\ r.deploy \in Deploys
  BY <1>1, ServedViewer
<1>3. PICK ids : ids = rows[r.deploy]
  OBVIOUS
<1>4. /\ ids \in Seq(Id) /\ Len(ids) \in Nat /\ Len(r.seen) \in Nat
      /\ \A k \in 1..Len(ids) : /\ ids[k] \in Nat /\ ids[k] # 0
                                /\ ids[k] <= LastId(r.seen) <=> k <= Len(r.seen)
  BY <1>2, <1>3, SeenRows
<1>5. /\ r.pc = "yield" /\ r.queue # <<>> /\ r.last = LastId(r.seen)
      /\ UNCHANGED writerVars /\ drops' \in 0..MaxDrops
  BY <1>1, <1>2 DEF Yield, At, ViewerKept
<1>6. PICK m \in 0..Len(r.seen) :
        /\ m + Len(r.queue) <= Len(ids)
        /\ \A k \in 1..Len(r.queue) : r.queue[k] = ids[m + k]
        /\ r.deploy \notin Foreign =>
             \A n \in 1..Len(ids) :
                 n > m + Len(r.queue) /\ n > Len(r.seen) => Coming(r, ids[n])
  BY <1>2, <1>3, <1>5 DEF ViewerKept, LeavesNoGap
<1>7. PICK tail \in Seq(Id) : tail = Tail(r.queue)
  BY <1>2, <1>5, HeadTailProperties
<1>8. /\ Len(r.queue) \in Nat /\ Len(r.queue) >= 1 /\ Len(tail) \in Nat
      /\ Len(r.queue) = Len(tail) + 1
      /\ \A k \in 1..Len(tail) : tail[k] = r.queue[k + 1]
      /\ Head(r.queue) = r.queue[1]
  <2>1. Len(r.queue) \in Nat /\ Len(r.queue) # 0 /\ Len(tail) \in Nat
    BY <1>2, <1>5, <1>7, EmptySeq, LenProperties
  <2> QED
    BY <1>2, <1>5, <1>7, <2>1, HeadTailProperties
<1>9. PICK i \in Id : i = Head(r.queue) /\ i = ids[m + 1] /\ m + 1 \in 1..Len(ids)
  <2>1. 1 \in 1..Len(r.queue) /\ m \in Nat
    BY <1>4, <1>8
  <2>2. r.queue[1] = ids[m + 1]
    BY <1>6, <2>1
  <2>3. m + 1 \in 1..Len(ids)
    BY <1>4, <1>6, <1>8, <2>1
  <2>4. ids[m + 1] \in Nat
    BY <1>4, <2>3
  <2> QED
    BY <1>8, <2>2, <2>3, <2>4 DEF Id
<1>10. /\ m + 1 + Len(tail) = m + Len(r.queue)
       /\ \A k \in 1..Len(tail) : tail[k] = ids[m + 1 + k]
  <2>1. m + 1 + Len(tail) = m + Len(r.queue)
    <3>1. PICK t \in Nat : t = Len(tail) /\ Len(r.queue) = t + 1
      BY <1>8
    <3>2. PICK x \in Nat : x = m
      BY <1>4
    <3>3. x + 1 + t = x + (t + 1)
      OBVIOUS
    <3> QED
      BY <3>1, <3>2, <3>3
  <2>2. ASSUME NEW k \in 1..Len(tail) PROVE tail[k] = ids[m + 1 + k]
    <3>1. k + 1 \in 1..Len(r.queue) /\ m + (k + 1) = m + 1 + k
      BY <1>4, <1>8
    <3>2. r.queue[k + 1] = ids[m + (k + 1)]
      BY <1>6, <3>1
    <3> QED
      BY <1>8, <3>1, <3>2
  <2> QED
    BY <2>1, <2>2
<1>11. PICK rest : rest = [r EXCEPT !.queue = tail]
  OBVIOUS
<1>12. /\ rest \in Viewer /\ rest.pc = r.pc /\ rest.terminal = r.terminal
       /\ rest.seen = r.seen /\ rest.deploy = r.deploy /\ rest.header = r.header
       /\ rest.queue = tail /\ rest.pos = r.pos /\ rest.last = r.last
  BY <1>2, <1>11 DEF Viewer
<1>13. CASE i <= r.last
  <2>1. viewer' = [viewer EXCEPT ![v] = rest]
    BY <1>1, <1>5, <1>7, <1>9, <1>11, <1>13 DEF Yield, Become
  <2>2. m + 1 <= Len(r.seen)
    BY <1>4, <1>5, <1>9, <1>13
  <2>3. LeavesNoGap(rest)
    <3>1. m + 1 \in 0..Len(rest.seen)
      BY <1>4, <1>12, <2>2
    <3>2. rest.deploy \notin Foreign =>
            \A n \in 1..Len(ids) :
                n > m + 1 + Len(tail) /\ n > Len(r.seen) => Coming(rest, ids[n])
      BY <1>6, <1>10, <1>12 DEF Coming
    <3> QED
      BY <1>3, <1>6, <1>10, <1>12, <3>1, <3>2 DEF LeavesNoGap
  <2>4. ViewerKept(rest)
    BY <1>2, <1>5, <1>12, <2>3 DEF ViewerKept
  <2> QED
    BY <1>5, <1>12, <2>1, <2>4, ViewingKeeps
<1>14. CASE ~(i <= r.last)
  <2>1. PICK rec : rec = Deliver(rest, i)
    OBVIOUS
  <2>2. viewer' = [viewer EXCEPT ![v] = rec]
    BY <1>1, <1>5, <1>7, <1>9, <1>11, <1>14, <2>1 DEF Yield, Become
  <2>3. m = Len(r.seen)
    BY <1>4, <1>5, <1>9, <1>14
  <2>4. /\ m + 1 \in 0..(Len(r.seen) + 1) /\ Len(r.seen) + 1 <= Len(ids)
        /\ i = ids[Len(r.seen) + 1]
        /\ m + 1 + Len(rest.queue) <= Len(ids)
        /\ \A k \in 1..Len(rest.queue) : rest.queue[k] = ids[m + 1 + k]
    <3>1. m + 1 \in 0..(Len(r.seen) + 1) /\ Len(r.seen) + 1 <= Len(ids)
      BY <1>4, <1>9, <2>3
    <3>2. m + 1 + Len(rest.queue) <= Len(ids)
      BY <1>6, <1>10, <1>12
    <3> QED
      BY <1>9, <1>10, <1>12, <2>3, <3>1, <3>2
  <2>5. ASSUME r.deploy \notin Foreign, NEW n \in 1..Len(ids),
               n > m + 1 + Len(rest.queue), n > Len(r.seen) + 1
        PROVE  Coming(rest, ids[n])
    <3>1. n > m + Len(r.queue)
      BY <1>10, <1>12, <2>5
    <3>2. n > Len(r.seen)
      BY <1>4, <2>5
    <3>3. Coming(r, ids[n])
      BY <1>6, <2>5, <3>1, <3>2
    <3> QED
      BY <1>12, <3>3 DEF Coming
  <2>6. rest.pos <= Len(sent) + 1 /\ (rest.pc = "recv" => rest.queue = <<>>)
    BY <1>2, <1>5, <1>12 DEF ViewerKept
  <2>7. rec \in Viewer /\ ViewerKept(rec)
    BY <1>2, <1>3, <1>5, <1>12, <2>1, <2>4, <2>5, <2>6, HandedOver
  <2> QED
    BY <1>5, <2>2, <2>7, ViewingKeeps
<1> QED
  BY <1>13, <1>14

\* Telling a client what the hub sends: the next event of its deploy that is
\* sent is the next row it has not seen.
LEMMA ReceiveKeeps ==
  ASSUME StreamInv, NEW v \in Viewers, Receive(v)
  PROVE  StreamInv'
<1>1. PICK r : r = viewer[v]
  OBVIOUS
<1>2. /\ r \in Viewer /\ ViewerKept(r) /\ drops \in 0..MaxDrops /\ Len(sent) \in Nat
      /\ r.queue \in Seq(Id) /\ r.last \in Nat /\ r.pos \in Nat /\ r.pos # 0
      /\ r.deploy \in Deploys
  BY <1>1, ServedViewer
<1>3. PICK ids : ids = rows[r.deploy]
  OBVIOUS
<1>4. /\ ids \in Seq(Id) /\ Len(ids) \in Nat /\ Len(r.seen) \in Nat
      /\ \A k \in 1..Len(ids) : /\ ids[k] \in Nat /\ ids[k] # 0
                                /\ ids[k] <= LastId(r.seen) <=> k <= Len(r.seen)
  BY <1>2, <1>3, SeenRows
<1>5. /\ r.pc = "recv" /\ r.queue = <<>> /\ r.last = LastId(r.seen)
      /\ r.pos \in Oldest..Len(sent)
      /\ UNCHANGED writerVars /\ drops' \in 0..MaxDrops
  BY <1>1, <1>2 DEF Receive, At, ViewerKept
<1>6. r.pos \in 1..Len(sent)
  BY <1>2, <1>5
<1>7. Len(r.queue) = 0
  BY <1>5, EmptySeq
<1>8. PICK m \in 0..Len(r.seen) :
        r.deploy \notin Foreign =>
            \A n \in 1..Len(ids) : n > Len(r.seen) => Coming(r, ids[n])
  <2>1. PICK m \in 0..Len(r.seen) :
          r.deploy \notin Foreign =>
              \A n \in 1..Len(ids) :
                  n > m + Len(r.queue) /\ n > Len(r.seen) => Coming(r, ids[n])
    BY <1>2, <1>3, <1>5 DEF ViewerKept, LeavesNoGap
  <2> QED
    BY <1>4, <1>7, <2>1
<1>9. /\ TypeOK /\ RowsInOrder /\ SentInOrder
      /\ \A j \in 1..Len(sent) : sent[j] \in 1..Len(log)
      /\ \A i \in 1..Len(log) : log[i].deploy \in Deploys
      /\ Len(log) \in Nat
  BY Tables DEF StreamInv
<1>10. PICK i \in Id : i = sent[r.pos] /\ i \in 1..Len(log)
  BY <1>6, <1>9 DEF Id
<1>11. PICK p \in Nat \ {0} : p = r.pos + 1 /\ p <= Len(sent) + 1
  BY <1>2, <1>6
<1>12. PICK rest : rest = [r EXCEPT !.pos = p]
  OBVIOUS
<1>13. /\ rest \in Viewer /\ rest.pc = r.pc /\ rest.terminal = r.terminal
       /\ rest.seen = r.seen /\ rest.deploy = r.deploy /\ rest.header = r.header
       /\ rest.queue = r.queue /\ rest.pos = p /\ rest.last = r.last
  BY <1>2, <1>12 DEF Viewer
<1>14. \A k \in 1..Len(ids) : ids[k] \in 1..Len(log) /\ log[ids[k]].deploy = r.deploy
  BY <1>2, <1>3, <1>9 DEF RowsInOrder
<1>15. \A j, k \in 1..Len(ids) : j < k => ids[j] < ids[k]
  BY <1>2, <1>3, <1>9 DEF RowsInOrder
<1>16. ASSUME NEW n \in 1..Len(ids), Coming(r, ids[n]), ids[n] # i
       PROVE  Coming(rest, ids[n])
  BY <1>2, <1>6, <1>10, <1>11, <1>13, <1>16 DEF Coming
<1>17. 0 \in 0..(Len(r.seen) + 1) /\ 0 \in 0..Len(r.seen)
  BY <1>4
<1>18. CASE log[i].deploy # r.deploy \/ i <= r.last
  <2>1. viewer' = [viewer EXCEPT ![v] = rest]
    BY <1>1, <1>10, <1>11, <1>12, <1>18 DEF Receive, Become
  <2>2. \A n \in 1..Len(ids) : n > Len(r.seen) => ids[n] # i
    BY <1>4, <1>5, <1>14, <1>18
  <2>3. LeavesNoGap(rest)
    <3>1. rest.deploy \notin Foreign =>
            \A n \in 1..Len(ids) :
                n > 0 + Len(rest.queue) /\ n > Len(rest.seen) => Coming(rest, ids[n])
      BY <1>8, <1>13, <1>16, <2>2
    <3>2. 0 + Len(rest.queue) <= Len(ids) /\ 0 \in 0..Len(rest.seen)
          /\ \A k \in 1..Len(rest.queue) : rest.queue[k] = ids[0 + k]
      BY <1>4, <1>7, <1>13
    <3> QED
      BY <1>3, <1>13, <3>1, <3>2 DEF LeavesNoGap
  <2>4. ViewerKept(rest)
    BY <1>2, <1>5, <1>11, <1>13, <2>3 DEF ViewerKept
  <2> QED
    BY <1>5, <1>13, <2>1, <2>4, ViewingKeeps
<1>19. CASE ~(log[i].deploy # r.deploy \/ i <= r.last)
  <2>1. PICK rec : rec = Deliver(rest, i)
    OBVIOUS
  <2>2. viewer' = [viewer EXCEPT ![v] = rec]
    BY <1>1, <1>10, <1>11, <1>12, <1>19, <2>1 DEF Receive, Become
  <2>3. log[i].deploy = r.deploy /\ i > LastId(r.seen)
    <3>1. LastId(r.seen) \in Nat /\ i \in Nat
      BY <1>2, <1>5 DEF Id
    <3> QED
      BY <1>5, <1>19, <3>1
  <2>4. r.deploy \notin Foreign
    BY <1>6, <1>9, <1>10, <2>3 DEF SentInOrder
  <2>5. PICK k \in 1..Len(ids) : ids[k] = i
    <3>1. \A x \in 1..Len(log) :
            log[x].deploy = r.deploy => \E k \in 1..Len(ids) : ids[k] = x
      BY <1>2, <1>3, <1>9 DEF RowsInOrder
    <3> QED
      BY <1>10, <2>3, <3>1
  <2>6. k > Len(r.seen)
    <3>1. ~(ids[k] <= LastId(r.seen))
      BY <1>2, <1>5, <2>3, <2>5 DEF Id
    <3> QED
      BY <1>4, <3>1
  <2>7. PICK n \in 1..Len(ids) : n = Len(r.seen) + 1
    BY <1>4, <2>6
  <2>8. ids[n] = i
    <3>1. Coming(r, ids[n])
      BY <1>4, <1>8, <2>4, <2>7
    <3>2. ids[n] # 0 /\ ids[n] \in Nat /\ ids[k] \in Nat /\ log[ids[n]].deploy = r.deploy
      BY <1>4, <1>14
    <3>3. ids[n] < i => FALSE
      <4>1. CASE n = k
        BY <2>5, <3>2, <4>1
      <4>2. CASE n # k
        <5> SUFFICES ASSUME ids[n] < i PROVE FALSE
          OBVIOUS
        <5>1. CASE ids[n] = unsent[r.deploy]
          <6>1. i < unsent[r.deploy]
            BY <1>2, <1>6, <1>9, <1>10, <2>3, <3>2, <5>1 DEF SentInOrder
          <6> QED
            BY <2>5, <3>2, <5>1, <6>1
        <5>2. CASE ids[n] # unsent[r.deploy]
          <6>1. PICK j \in 1..Len(sent) : j >= r.pos /\ sent[j] = ids[n]
            BY <3>1, <5>2 DEF Coming
          <6>2. j # r.pos
            BY <1>10, <2>5, <3>2, <6>1
          <6>3. i < ids[n]
            <7>1. r.pos < j
              BY <1>2, <6>1, <6>2
            <7>2. log[sent[r.pos]].deploy = log[sent[j]].deploy
              BY <1>10, <2>3, <3>2, <6>1
            <7>3. sent[r.pos] < sent[j]
              BY <1>6, <1>9, <7>1, <7>2 DEF SentInOrder
            <7> QED
              BY <1>10, <6>1, <7>3
          <6> QED
            BY <2>5, <3>2, <6>3
        <5> QED
          BY <5>1, <5>2
      <4> QED
        BY <4>1, <4>2
    <3>4. CASE n = k
      BY <2>5, <3>4
    <3>5. CASE n < k
      BY <1>15, <2>5, <3>3, <3>5
    <3> QED
      BY <2>6, <2>7, <1>4, <3>4, <3>5
  <2>9. Len(r.seen) + 1 <= Len(ids) /\ i = ids[Len(r.seen) + 1]
    BY <1>4, <2>7, <2>8
  <2>10. /\ 0 + Len(rest.queue) <= Len(ids)
         /\ \A x \in 1..Len(rest.queue) : rest.queue[x] = ids[0 + x]
    BY <1>4, <1>7, <1>13
  <2>11. \A x \in 1..Len(ids) :
           x > 0 + Len(rest.queue) /\ x > Len(r.seen) + 1 => Coming(rest, ids[x])
    <3> SUFFICES ASSUME NEW x \in 1..Len(ids), x > Len(r.seen) + 1
                 PROVE  Coming(rest, ids[x])
      OBVIOUS
    <3>1. x > Len(r.seen) /\ n < x
      BY <1>4, <2>7
    <3>2. Coming(r, ids[x])
      BY <1>8, <2>4, <3>1
    <3>3. ids[n] < ids[x]
      BY <1>15, <3>1
    <3>4. ids[x] # i
      BY <1>4, <2>8, <3>3
    <3> QED
      BY <1>16, <3>2, <3>4
  <2>12. rest.pos <= Len(sent) + 1 /\ (rest.pc = "recv" => rest.queue = <<>>)
    BY <1>5, <1>11, <1>13
  <2>13. r.pc \in {"yield", "recv"}
    BY <1>5
  <2>14. rec \in Viewer /\ ViewerKept(rec)
    BY <1>2, <1>3, <1>13, <1>17, <2>1, <2>9, <2>10, <2>11, <2>12, <2>13, HandedOver
  <2> QED
    BY <1>5, <2>2, <2>14, ViewingKeeps
<1> QED
  BY <1>18, <1>19

\* The other steps of an open connection.
LEMMA ServingKeeps ==
  ASSUME StreamInv, NEW v \in Viewers,
         Drained(v) \/ Lagged(v) \/ ReadMissed(v) \/ Drop(v)
  PROVE  StreamInv'
<1>1. PICK r : r = viewer[v]
  OBVIOUS
<1>2. /\ r \in Viewer /\ ViewerKept(r) /\ drops \in 0..MaxDrops /\ Len(sent) \in Nat
      /\ r.queue \in Seq(Id) /\ r.pos \in Nat /\ r.deploy \in Deploys
  BY <1>1, ServedViewer
<1>3. ASSUME r.pc \in {"row", "backlog", "yield", "recv", "lagged"},
             viewer' = [viewer EXCEPT ![v] = Closed(r)],
             UNCHANGED writerVars, drops' \in 0..MaxDrops
      PROVE  StreamInv'
  <2>1. Closed(r) \in Viewer /\ ViewerKept(Closed(r))
    BY <1>2, <1>3, ClosedKept
  <2> QED
    BY <1>3, <2>1, ViewingKeeps
<1>4. ASSUME Drained(v) PROVE StreamInv'
  <2>1. r.pc = "yield" /\ r.queue = <<>> /\ UNCHANGED writerVars /\ drops' \in 0..MaxDrops
    BY <1>1, <1>2, <1>4 DEF Drained, At
  <2>2. CASE r.terminal
    BY <1>1, <1>3, <1>4, <2>1, <2>2 DEF Drained, Become
  <2>3. CASE ~r.terminal
    <3>1. PICK rec : rec = [r EXCEPT !.pc = "recv"]
      OBVIOUS
    <3>2. viewer' = [viewer EXCEPT ![v] = rec]
      BY <1>1, <1>4, <2>3, <3>1 DEF Drained, Become
    <3>3. /\ rec \in Viewer /\ rec.pc = "recv" /\ rec.terminal = r.terminal
          /\ rec.seen = r.seen /\ rec.deploy = r.deploy /\ rec.header = r.header
          /\ rec.queue = r.queue /\ rec.pos = r.pos /\ rec.last = r.last
      BY <1>2, <3>1 DEF Viewer
    <3>4. LeavesNoGap(rec)
      BY <1>2, <2>1, <3>3 DEF ViewerKept, LeavesNoGap, Coming
    <3>5. ViewerKept(rec)
      BY <1>2, <2>1, <3>3, <3>4 DEF ViewerKept
    <3> QED
      BY <2>1, <3>2, <3>3, <3>5, ViewingKeeps
  <2> QED
    BY <2>2, <2>3
<1>5. ASSUME Lagged(v) PROVE StreamInv'
  <2>1. r.pc = "recv" /\ UNCHANGED writerVars /\ drops' \in 0..MaxDrops
    BY <1>1, <1>2, <1>5 DEF Lagged, At
  <2>2. PICK p \in Nat \ {0} : p = Oldest /\ p <= Len(sent) + 1
    <3>1. Capacity \in Nat /\ Capacity # 0
      BY StreamAssumption
    <3>2. CASE Len(sent) > Capacity
      <4>1. Oldest = Len(sent) - Capacity + 1
        BY <3>2 DEF Oldest
      <4>2. PICK n \in Nat, c \in Nat : n = Len(sent) /\ c = Capacity /\ c # 0 /\ n > c
        BY <1>2, <3>1, <3>2
      <4>3. n - c + 1 \in Nat \ {0} /\ n - c + 1 <= n + 1
        BY <4>2
      <4> QED
        BY <4>1, <4>2, <4>3
    <3>3. CASE ~(Len(sent) > Capacity)
      BY <1>2, <3>3 DEF Oldest
    <3> QED
      BY <3>2, <3>3
  <2>3. PICK rec : rec = [r EXCEPT !.pc = "lagged", !.pos = p]
    OBVIOUS
  <2>4. viewer' = [viewer EXCEPT ![v] = rec]
    BY <1>1, <1>5, <2>2, <2>3 DEF Lagged, Become
  <2>5. /\ rec \in Viewer /\ rec.pc = "lagged" /\ rec.terminal = r.terminal
        /\ rec.seen = r.seen /\ rec.deploy = r.deploy /\ rec.header = r.header
        /\ rec.queue = r.queue /\ rec.pos = p /\ rec.last = r.last
    BY <1>2, <2>3 DEF Viewer
  <2>6. ViewerKept(rec)
    BY <1>2, <2>1, <2>2, <2>5 DEF ViewerKept
  <2> QED
    BY <2>1, <2>4, <2>5, <2>6, ViewingKeeps
<1>6. ASSUME ReadMissed(v) PROVE StreamInv'
  <2>1. r.pc = "lagged" /\ UNCHANGED writerVars /\ drops' \in 0..MaxDrops
    BY <1>1, <1>2, <1>6 DEF ReadMissed, At
  <2>2. PICK ids \in Seq(Id) : ids = rows[r.deploy]
    BY <1>2, Tables DEF StreamInv
  <2>3. PICK rec : rec = [r EXCEPT !.pc = "yield", !.queue = ids]
    OBVIOUS
  <2>4. viewer' = [viewer EXCEPT ![v] = rec]
    BY <1>1, <1>6, <2>2, <2>3 DEF ReadMissed, Become
  <2>5. /\ rec \in Viewer /\ rec.pc = "yield" /\ rec.terminal = r.terminal
        /\ rec.seen = r.seen /\ rec.deploy = r.deploy /\ rec.header = r.header
        /\ rec.queue = ids /\ rec.pos = r.pos /\ rec.last = r.last
    BY <1>2, <2>3 DEF Viewer
  <2>6. LeavesNoGap(rec)
    BY <2>2, <2>5, AllRowsNoGap
  <2>7. ViewerKept(rec)
    BY <1>2, <2>1, <2>5, <2>6 DEF ViewerKept
  <2> QED
    BY <2>1, <2>4, <2>5, <2>7, ViewingKeeps
<1>7. ASSUME Drop(v) PROVE StreamInv'
  <2>1. drops < MaxDrops /\ drops' = drops + 1
    BY <1>7 DEF Drop
  <2>2. drops' \in 0..MaxDrops
    BY <1>2, <2>1, StreamAssumption
  <2>3. r.pc \in {"row", "backlog", "yield", "recv", "lagged"}
        /\ viewer' = [viewer EXCEPT ![v] = Closed(r)] /\ UNCHANGED writerVars
    BY <1>1, <1>7 DEF Drop, Become, Connected
  <2> QED
    BY <1>3, <2>2, <2>3
<1> QED
  BY <1>4, <1>5, <1>6, <1>7

\* The first state.
LEMMA StreamBegins ==
  ASSUME Init
  PROVE  StreamInv
<1>1. <<>> \in Seq(Id) /\ Len(<<>>) = 0
  BY EmptySeq
<1>2. /\ log = <<>> /\ rows = [d \in Deploys |-> <<>>] /\ sent = <<>> /\ up = TRUE
      /\ status = [d \in Deploys |-> "none"] /\ unsent = [d \in Deploys |-> 0] /\ drops = 0
  BY DEF Init
<1>3. /\ log \in Seq([deploy : Deploys, finished : BOOLEAN]) /\ Len(log) = 0
      /\ sent \in Seq(1..Len(log)) /\ Len(sent) = 0
  BY <1>2, EmptySeq
<1>4. rows \in [Deploys -> Seq(Id)] /\ \A d \in Deploys : Len(rows[d]) = 0
  BY <1>1, <1>2
<1>5. unsent \in [Deploys -> 0..Len(log)] /\ \A d \in Deploys : unsent[d] = 0
  BY <1>2, <1>3
<1>6. status \in [Deploys -> {"none", "in_progress", "ended"}] /\ drops \in 0..MaxDrops
  BY <1>2, StreamAssumption
<1>7. ASSUME NEW v \in Viewers PROVE viewer[v] \in Viewer /\ ViewerKept(viewer[v])
  <2>1. PICK none \in Seq(Id) : none = <<>> /\ Len(none) = 0
    BY <1>1
  <2>2. PICK one \in Nat \ {0} : one = 1
    OBVIOUS
  <2>3. PICK zero \in Id : zero = 0
    BY DEF Id
  <2>4. PICK r : r = viewer[v]
    OBVIOUS
  <2>5. PICK d \in Deploys : r = [deploy |-> d, pc |-> "new", pos |-> one,
                                  terminal |-> FALSE, queue |-> none, last |-> zero,
                                  header |-> zero, seen |-> none]
    BY <2>1, <2>2, <2>3, <2>4 DEF Init
  <2>6. /\ r \in Viewer /\ r.deploy = d /\ r.pc = "new" /\ r.terminal = FALSE
        /\ r.queue = none /\ r.header = zero /\ r.seen = none
    BY <2>5 DEF Viewer
  <2>7. Len(rows[d]) = 0
    BY <1>4
  <2>8. ViewerKept(r)
    BY <2>1, <2>3, <2>6, <2>7 DEF ViewerKept
  <2> QED
    BY <2>4, <2>6, <2>8
<1>8. viewer \in [Viewers -> Viewer]
  BY <1>7 DEF Init
<1>9. TypeOK
  BY <1>2, <1>3, <1>4, <1>5, <1>6, <1>8 DEF TypeOK
<1>10. RowsInOrder /\ SentInOrder
  BY <1>3, <1>4, <1>5 DEF RowsInOrder, SentInOrder
<1> QED
  BY <1>7, <1>9, <1>10 DEF StreamInv

\* Every step.
LEMMA StreamInvNext ==
  ASSUME StreamInv, [Next]_vars
  PROVE  StreamInv'
<1>1. CASE UNCHANGED vars
  BY <1>1 DEF vars, StreamInv, TypeOK, RowsInOrder, SentInOrder, ViewerKept,
              LeavesNoGap, Coming
<1>2. ASSUME NEW d \in Deploys, Create(d) \/ EndSilently(d) PROVE StreamInv'
  <2>1. TypeOK
    BY DEF StreamInv
  <2>2. /\ UNCHANGED <<log, rows, unsent, up, sent, viewer, drops>>
        /\ status' \in [Deploys -> {"none", "in_progress", "ended"}]
        /\ \A e \in Deploys : status[e] = "ended" => status'[e] = "ended"
    BY <1>2, <2>1 DEF Create, EndSilently, TypeOK
  <2>3. up' \in BOOLEAN /\ (up => up')
    BY <2>1, <2>2 DEF TypeOK
  <2> QED
    BY <2>2, <2>3, RowsOnlyKeep
<1>3. ASSUME NEW d \in Deploys, StoreEvent(d) \/ StoreEnding(d) PROVE StreamInv'
  BY <1>3, StoringKeeps
<1>4. ASSUME NEW d \in Deploys, Publish(d) PROVE StreamInv'
  BY <1>4, PublishingKeeps
<1>5. ASSUME Die PROVE StreamInv'
  BY <1>5, DeathKeeps
<1>6. ASSUME Listen PROVE StreamInv'
  BY <1>6, RowsOnlyKeep DEF Listen, StreamInv, TypeOK
<1>7. ASSUME NEW v \in Viewers, OpenPage(v) \/ OpenBare(v) \/ RenderPage(v) \/ TellDetail(v)
      PROVE  StreamInv'
  BY <1>7, PageKeeps
<1>8. ASSUME NEW v \in Viewers, Subscribe(v) \/ ReadRow(v) \/ ReadBacklog(v)
      PROVE  StreamInv'
  BY <1>8, OpeningKeeps
<1>9. ASSUME NEW v \in Viewers, Yield(v) \/ Receive(v) PROVE StreamInv'
  BY <1>9, YieldKeeps, ReceiveKeeps
<1>10. ASSUME NEW v \in Viewers, Drained(v) \/ Lagged(v) \/ ReadMissed(v) \/ Drop(v)
       PROVE  StreamInv'
  BY <1>10, ServingKeeps
<1> QED
  BY <1>1, <1>2, <1>3, <1>4, <1>5, <1>6, <1>7, <1>8, <1>9, <1>10 DEF Next, Write, View

\* The tables and every viewer's connection stay in order.
THEOREM StreamInvHolds == Spec => []StreamInv
  BY StreamBegins, StreamInvNext, PTL DEF Spec

\* A sequence as long as its stretch of another is that stretch.
LEMMA SeenStretch ==
  ASSUME StreamInv, NEW r \in Viewer, ViewerKept(r), NEW ids, ids = rows[r.deploy]
  PROVE  /\ r.seen = SubSeq(ids, 1, Len(r.seen))
         /\ Len(r.seen) = Len(ids) => r.seen = ids
<1>1. /\ ids \in Seq(Id) /\ Len(ids) \in Nat /\ r.seen \in Seq(Id) /\ Len(r.seen) \in Nat
      /\ Len(r.seen) <= Len(ids) /\ \A k \in 1..Len(r.seen) : r.seen[k] = ids[k]
  BY SeenRows DEF ViewerKept
<1>2. \A k \in 1..Len(r.seen) : ids[k] \in Id
  BY <1>1, ElementOfSeq
<1>3. PICK s : s = SubSeq(ids, 1, Len(r.seen))
  OBVIOUS
<1>4. s \in Seq(Id) /\ Len(s) = Len(r.seen) /\ \A k \in 1..Len(s) : s[k] = ids[k]
  BY <1>1, <1>2, <1>3, SubSeqProperties
<1>5. s = r.seen
  BY <1>1, <1>4, SeqEqual
<1>6. Len(r.seen) = Len(ids) => r.seen = ids
  BY <1>1, SeqEqual
<1> QED
  BY <1>3, <1>5, <1>6

\* What a client shows is a prefix of its deploy's log, for any number of
\* deploys, viewers, events, losses and restarts, and any ring.
THEOREM NothingMissing == Spec => []NoGapNoRepeat
<1>1. StreamInv => NoGapNoRepeat
  <2> SUFFICES ASSUME StreamInv, NEW v \in Viewers
               PROVE  viewer[v].seen =
                        SubSeq(rows[viewer[v].deploy], 1, Len(viewer[v].seen))
    BY DEF NoGapNoRepeat
  <2>1. viewer[v] \in Viewer /\ ViewerKept(viewer[v])
    BY ServedViewer
  <2> QED
    BY <2>1, SeenStretch
<1> QED
  BY <1>1, StreamInvHolds, PTL

\* A client told not to come back has seen all its deploy will ever say.
THEOREM NothingLeftToSay == Spec => []GoneSawAll
<1>1. StreamInv => GoneSawAll
  <2> SUFFICES ASSUME StreamInv, NEW v \in Viewers, At(v, "gone")
               PROVE  /\ status[viewer[v].deploy] = "ended"
                      /\ viewer[v].seen = rows[viewer[v].deploy]
    BY DEF GoneSawAll
  <2>1. viewer[v] \in Viewer /\ ViewerKept(viewer[v])
    BY ServedViewer
  <2>2. status[viewer[v].deploy] = "ended"
        /\ Len(viewer[v].seen) = Len(rows[viewer[v].deploy])
    BY <2>1 DEF ViewerKept, At
  <2> QED
    BY <2>1, <2>2, SeenStretch
<1> QED
  BY <1>1, StreamInvHolds, PTL
==============================================================================

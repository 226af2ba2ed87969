---------------------------- MODULE FrontDoorProofs ----------------------------
(***************************************************************************)
(* That slugs stay distinct, that a request starts one attempt at most,    *)
(* that a command is not told of an attempt older than itself, and that a  *)
(* registration once looked at stays in force under trigger_lock: for any  *)
(* number of apps, requests and daemon deaths.                             *)
(***************************************************************************)
EXTENDS FrontDoor, SequenceTheorems, TLAPS

\* What a request that has not been made, or has been forgotten, looks like.
LEMMA NotAskedType ==
    /\ NotAsked \in Actor
    /\ NotAsked.pc = "idle" /\ NotAsked.answer = "none" /\ NotAsked.began = 0
<1> DEFINE n0 == CHOOSE n \in Names : TRUE
           r0 == CHOOSE r \in Repos : TRUE
<1>1. n0 \in Names /\ r0 \in Repos
  BY DoorAssumption
<1>2. NotAsked = [pc |-> "idle", ask |-> "register", name |-> n0, repo |-> r0,
                  snapshot |-> NoConfig, began |-> 0, id |-> 0, answer |-> "none"]
  BY DEF NotAsked
<1> HIDE DEF n0, r0
<1>3. NoConfig \in Config
  BY DEF Config
<1> QED
  BY <1>1, <1>2, <1>3 DEF Actor, Pcs

\* An answered request has ended; unless accepted, it has forgotten all.
LEMMA AnsweredFact ==
    ASSUME NEW rec \in Actor, NEW answer \in {"accepted", "done", "refused", "lost"}
    PROVE  /\ Answered(rec, answer) \in Actor
           /\ Answered(rec, answer).pc = "ended"
           /\ Answered(rec, answer).answer = answer
           /\ answer = "accepted" => Answered(rec, answer).id = rec.id
                                     /\ Answered(rec, answer).began = rec.began
                                     /\ Answered(rec, answer).snapshot = rec.snapshot
           /\ answer # "accepted" => Answered(rec, answer).began = 0
<1>1. CASE answer = "accepted"
  BY <1>1 DEF Answered, Actor, Pcs
<1>2. CASE answer # "accepted"
  BY <1>2, NotAskedType DEF Answered, Actor, Pcs
<1> QED
  BY <1>1, <1>2

\* What a request knows, but for its place.
Kept(new, old) ==
    /\ new.ask = old.ask /\ new.name = old.name /\ new.repo = old.repo
    /\ new.snapshot = old.snapshot /\ new.began = old.began
    /\ new.id = old.id /\ new.answer = old.answer

\* A request goes on to its next place and keeps what it knows.
LEMMA GoFact ==
    ASSUME NEW x \in Actors, actor \in [Actors -> Actor], NEW pc \in Pcs, Go(x, pc)
    PROVE  /\ actor' \in [Actors -> Actor]
           /\ actor'[x].pc = pc /\ Kept(actor'[x], actor[x])
           /\ \A y \in Actors : y # x => actor'[y] = actor[y]
<1>1. actor[x] \in Actor
  OBVIOUS
<1>2. /\ [actor[x] EXCEPT !.pc = pc] \in Actor
      /\ [actor[x] EXCEPT !.pc = pc].pc = pc
      /\ Kept([actor[x] EXCEPT !.pc = pc], actor[x])
  BY <1>1 DEF Actor, Pcs, Kept
<1> QED
  BY <1>2 DEF Go, Step

\* It is answered.
LEMMA ReplyFact ==
    ASSUME NEW x \in Actors, actor \in [Actors -> Actor],
           NEW answer \in {"accepted", "done", "refused", "lost"}, Reply(x, answer)
    PROVE  /\ actor' \in [Actors -> Actor]
           /\ actor'[x] = Answered(actor[x], answer)
           /\ \A y \in Actors : y # x => actor'[y] = actor[y]
           /\ trigger' = IF trigger = x THEN Nobody ELSE trigger
           /\ UNCHANGED <<listening, deaths>>
<1>1. Answered(actor[x], answer) \in Actor
  BY AnsweredFact
<1> QED
  BY <1>1 DEF Reply, Step

\* It is accepted, with what it knows by then.
LEMMA AcceptFact ==
    ASSUME NEW x \in Actors, actor \in [Actors -> Actor], NEW rec \in Actor, Accept(x, rec)
    PROVE  /\ actor' \in [Actors -> Actor]
           /\ actor'[x].pc = "reply" /\ Kept(actor'[x], rec)
           /\ \A y \in Actors : y # x => actor'[y] = actor[y]
           /\ trigger' = Nobody
           /\ UNCHANGED <<listening, deaths>>
<1>1. /\ [rec EXCEPT !.pc = "reply"] \in Actor
      /\ [rec EXCEPT !.pc = "reply"].pc = "reply"
      /\ Kept([rec EXCEPT !.pc = "reply"], rec)
  BY DEF Actor, Pcs, Kept
<1> QED
  BY <1>1 DEF Accept, Step

\* A new row.
LEMMA RecordFact ==
    ASSUME attempts \in Seq(Attempt), NEW x \in Actors, actor \in [Actors -> Actor],
           NEW work \in {"reserved", "running", "ended"}, Record(x, work)
    PROVE  /\ attempts' \in Seq(Attempt)
           /\ Len(attempts) \in Nat /\ DOMAIN attempts = 1..Len(attempts)
           /\ DOMAIN attempts' = 1..(Len(attempts) + 1)
           /\ \A i \in DOMAIN attempts : attempts'[i] = attempts[i]
           /\ attempts'[Len(attempts) + 1] = [name |-> actor[x].name, by |-> x, work |-> work]
<1>1. [name |-> actor[x].name, by |-> x, work |-> work] \in Attempt
  BY DEF Attempt, Actor
<1> DEFINE row == [name |-> actor[x].name, by |-> x, work |-> work]
<1>2. attempts' = Append(attempts, row)
  BY DEF Record
<1> HIDE DEF row
<1>3. row \in Attempt
  BY <1>1 DEF row
<1>4. Len(attempts) \in Nat /\ DOMAIN attempts = 1..Len(attempts)
  BY LenProperties
<1>5. /\ Append(attempts, row) \in Seq(Attempt)
      /\ Len(Append(attempts, row)) = Len(attempts) + 1
      /\ \A i \in 1..Len(attempts) : Append(attempts, row)[i] = attempts[i]
      /\ Append(attempts, row)[Len(attempts) + 1] = row
  BY <1>3, <1>4, AppendProperties
<1>6. DOMAIN attempts' = 1..(Len(attempts) + 1)
  BY <1>2, <1>4, <1>5, LenProperties
<1> QED
  BY <1>2, <1>4, <1>5, <1>6 DEF row

\* A row that changes its status and nothing else.
LEMMA SetWorkFact ==
    ASSUME attempts \in Seq(Attempt), NEW i \in DOMAIN attempts,
           NEW work \in {"reserved", "running", "ended"}, SetWork(i, work)
    PROVE  /\ attempts' \in Seq(Attempt)
           /\ DOMAIN attempts' = DOMAIN attempts
           /\ \A j \in DOMAIN attempts : /\ attempts'[j].name = attempts[j].name
                                         /\ attempts'[j].by = attempts[j].by
<1>0. attempts[i] \in Attempt
  OBVIOUS
<1>1. [attempts[i] EXCEPT !.work = work] \in Attempt
  BY <1>0 DEF Attempt
<1>2. attempts' = [attempts EXCEPT ![i] = [attempts[i] EXCEPT !.work = work]]
  BY DEF SetWork
<1>3. \A j \in DOMAIN attempts : attempts[j] \in Attempt
  OBVIOUS
<1> QED
  BY <1>1, <1>2, <1>3 DEF Attempt

\* A starting daemon ends rows and changes nothing else in them.
LEMMA RestartFact ==
    ASSUME attempts \in Seq(Attempt), DaemonStarts
    PROVE  /\ attempts' \in Seq(Attempt)
           /\ DOMAIN attempts' = DOMAIN attempts
           /\ \A j \in DOMAIN attempts : /\ attempts'[j].name = attempts[j].name
                                         /\ attempts'[j].by = attempts[j].by
<1> DEFINE row(i) == IF Unfinished(i) THEN [attempts[i] EXCEPT !.work = "ended"] ELSE attempts[i]
<1>1. Len(attempts) \in Nat /\ DOMAIN attempts = 1..Len(attempts)
  BY LenProperties
<1>2. \A i \in 1..Len(attempts) : attempts[i] \in Attempt
  BY <1>1
<1>3. \A i \in 1..Len(attempts) :
        /\ row(i) \in Attempt
        /\ row(i).name = attempts[i].name /\ row(i).by = attempts[i].by
  BY <1>2 DEF Attempt
<1>4. attempts' = [i \in 1..Len(attempts) |-> row(i)]
  BY <1>1 DEF DaemonStarts
<1> HIDE DEF row
<1>5. attempts' \in Seq(Attempt)
  BY <1>1, <1>3, <1>4
<1> QED
  BY <1>1, <1>3, <1>4, <1>5

\* A request is made.
LEMMA AskFact ==
    ASSUME DoorTypeOK, NEW x \in Actors, NEW ask \in {"register", "deploy", "push", "command"},
           NEW what \in Asked, Ask(x, ask, what[1], what[2])
    PROVE  /\ actor' \in [Actors -> Actor]
           /\ actor[x].pc = "idle"
           /\ actor'[x].pc = (IF ask = "command" THEN "scan" ELSE "lock")
           /\ x \in Clis <=> ask = "command"
           /\ actor'[x].ask = ask
           /\ actor'[x].name = what[1] /\ actor'[x].began = writes
           /\ actor'[x].answer = actor[x].answer /\ actor'[x].id = actor[x].id
           /\ \A y \in Actors : y # x => actor'[y] = actor[y]
           /\ UNCHANGED <<config, recorded, writes, attempts, listening, trigger, deaths>>
<1> DEFINE rec == [actor[x] EXCEPT !.pc = IF ask = "command" THEN "scan" ELSE "lock",
            !.ask = ask, !.name = what[1], !.repo = what[2], !.began = writes]
<1>1. what[1] \in Names /\ what[2] \in Repos /\ actor[x] \in Actor /\ writes \in Nat
  BY DoorAssumption DEF DoorTypeOK
<1>2. /\ rec \in Actor
      /\ rec.pc = (IF ask = "command" THEN "scan" ELSE "lock")
      /\ rec.ask = ask /\ rec.name = what[1] /\ rec.began = writes
      /\ rec.answer = actor[x].answer /\ rec.id = actor[x].id
  BY <1>1 DEF Actor, Pcs
<1>3. actor' = [actor EXCEPT ![x] = rec]
  BY DEF Ask, Step
<1>4. UNCHANGED <<config, recorded, writes, attempts, listening, trigger, deaths>>
  BY DEF Ask, storeVars, daemonVars
<1>5. actor[x].pc = "idle" /\ (x \in Clis <=> ask = "command")
  BY DEF Ask, AtDoor
<1> HIDE DEF rec
<1> QED
  BY <1>2, <1>3, <1>4, <1>5 DEF DoorTypeOK

\* It has read the registration.
LEMMA ReadFact ==
    ASSUME DoorTypeOK, NEW x \in Actors, Read(x)
    PROVE  /\ actor' \in [Actors -> Actor]
           /\ actor[x].pc = "read" /\ actor'[x].pc = "busy" /\ actor'[x].ask = actor[x].ask
           /\ actor'[x].name = actor[x].name /\ actor'[x].began = actor[x].began
           /\ actor'[x].answer = actor[x].answer /\ actor'[x].id = actor[x].id
           /\ actor'[x].snapshot = config[actor[x].name]
           /\ config[actor[x].name] # NoConfig
           /\ \A y \in Actors : y # x => actor'[y] = actor[y]
           /\ UNCHANGED <<config, recorded, writes, attempts, listening, trigger, deaths>>
<1> DEFINE rec == [actor[x] EXCEPT !.pc = "busy", !.snapshot = config[actor[x].name]]
<1>0. actor[x] \in Actor
  BY DEF DoorTypeOK
<1>1. config[actor[x].name] \in Config
  BY <1>0 DEF DoorTypeOK, Actor
<1>2. /\ rec \in Actor
      /\ rec.pc = "busy" /\ rec.snapshot = config[actor[x].name] /\ rec.ask = actor[x].ask
      /\ rec.name = actor[x].name /\ rec.began = actor[x].began
      /\ rec.answer = actor[x].answer /\ rec.id = actor[x].id
  BY <1>0, <1>1 DEF Actor, Pcs
<1>3. actor' = [actor EXCEPT ![x] = rec]
  BY DEF Read, Step
<1>4. /\ UNCHANGED <<config, recorded, writes, attempts, listening, trigger, deaths>>
      /\ actor[x].pc = "read" /\ config[actor[x].name] # NoConfig
  BY DEF Read, storeVars, daemonVars, AtDoor
<1> HIDE DEF rec
<1> QED
  BY <1>2, <1>3, <1>4 DEF DoorTypeOK

\* It is registered, or registers on behalf of a command.
LEMMA InsertFact ==
    ASSUME DoorTypeOK, NEW x \in Actors, Insert(x)
    PROVE  /\ actor' \in [Actors -> Actor] /\ actor[x].pc = "insert"
           /\ \/ /\ actor'[x].pc = "curl" /\ Kept(actor'[x], actor[x])
                 /\ trigger' = trigger
              \/ /\ actor'[x] = Answered(actor[x], "done")
                 /\ trigger' = IF trigger = x THEN Nobody ELSE trigger
           /\ \A y \in Actors : y # x => actor'[y] = actor[y]
           /\ writes' = writes + 1 /\ writes' \in Nat
           /\ config' \in [Names -> Config]
           /\ config'[actor[x].name] # NoConfig
           /\ config'[actor[x].name].stamp = writes + 1 /\ config'[actor[x].name].by = x
           /\ \A n \in Names : n # actor[x].name => config'[n] = config[n]
           /\ UNCHANGED <<recorded, attempts, listening, deaths>>
           /\ trigger' \in {trigger, Nobody}
<1> DEFINE reg == [repo |-> actor[x].repo, stamp |-> writes', by |-> x]
<1>0. actor[x] \in Actor /\ actor[x].name \in Names /\ actor[x].repo \in Repos
  BY DEF DoorTypeOK, Actor
<1>1. writes' \in Nat /\ writes' = writes + 1
  BY DEF Insert, DoorTypeOK
<1>2. reg \in Config /\ reg.stamp = writes + 1 /\ reg.by = x /\ reg # NoConfig
  <2>1. reg.by = x /\ NoConfig.by = Nobody /\ x # Nobody
    BY DoorAssumption DEF NoConfig, Actors
  <2> QED
    BY <1>0, <1>1, <2>1 DEF Config
<1>3. config' = [config EXCEPT ![actor[x].name] = reg]
  BY DEF Insert
<1>4. /\ UNCHANGED <<recorded, attempts>>
      /\ actor[x].pc = "insert"
      /\ (Go(x, "curl") /\ UNCHANGED daemonVars) \/ Reply(x, "done")
  BY DEF Insert, Registering, AtDoor
<1> HIDE DEF reg
<1>5. /\ config' \in [Names -> Config]
      /\ config'[actor[x].name] = reg
      /\ \A n \in Names : n # actor[x].name => config'[n] = config[n]
  BY <1>0, <1>2, <1>3 DEF DoorTypeOK
<1>6. CASE Go(x, "curl") /\ UNCHANGED daemonVars
  BY <1>1, <1>2, <1>4, <1>5, <1>6, GoFact DEF DoorTypeOK, Pcs, daemonVars
<1>7. CASE Reply(x, "done")
  BY <1>1, <1>2, <1>4, <1>5, <1>7, ReplyFact DEF DoorTypeOK
<1> QED
  BY <1>4, <1>6, <1>7

\* It has its row, and goes to git or is accepted.
LEMMA ReserveFact ==
    ASSUME DoorTypeOK, NEW x \in Actors, Reserve(x)
    PROVE  /\ actor' \in [Actors -> Actor]
           /\ actor[x].pc = "reserve" /\ actor'[x].ask = actor[x].ask
           /\ \/ actor'[x].pc = "branch" /\ trigger' = trigger
              \/ actor'[x].pc = "reply" /\ trigger' = Nobody
           /\ actor'[x].name = actor[x].name /\ actor'[x].began = actor[x].began
           /\ actor'[x].answer = actor[x].answer /\ actor'[x].snapshot = actor[x].snapshot
           /\ actor'[x].id = Len(attempts) + 1
           /\ \A y \in Actors : y # x => actor'[y] = actor[y]
           /\ Record(x, "reserved") \/ Record(x, "running")
           /\ UNCHANGED <<config, recorded, writes, listening, deaths>>
           /\ trigger' \in {trigger, Nobody}
<1> DEFINE got == [actor[x] EXCEPT !.id = Len(attempts) + 1]
           rec == [got EXCEPT !.pc = "branch"]
<1>0. actor[x] \in Actor /\ Len(attempts) + 1 \in Nat
  BY LenProperties DEF DoorTypeOK
<1>1. /\ got \in Actor /\ got.id = Len(attempts) + 1
      /\ got.ask = actor[x].ask
      /\ got.name = actor[x].name /\ got.began = actor[x].began
      /\ got.answer = actor[x].answer /\ got.snapshot = actor[x].snapshot
  BY <1>0 DEF Actor
<1>2. rec \in Actor /\ rec.pc = "branch" /\ Kept(rec, got)
  BY <1>1 DEF Actor, Pcs, Kept
<1>3. /\ UNCHANGED <<config, recorded, writes>> /\ actor[x].pc = "reserve"
      /\ \/ Record(x, "reserved") /\ Step(x, rec) /\ UNCHANGED daemonVars
         \/ Record(x, "running") /\ Accept(x, got)
  BY DEF Reserve, AtDoor
<1> HIDE DEF got, rec
<1>4. CASE Record(x, "reserved") /\ Step(x, rec) /\ UNCHANGED daemonVars
  BY <1>1, <1>2, <1>3, <1>4 DEF DoorTypeOK, Step, daemonVars, Kept
<1>5. CASE Record(x, "running") /\ Accept(x, got)
  BY <1>1, <1>3, <1>5, AcceptFact DEF DoorTypeOK, Kept
<1> QED
  BY <1>3, <1>4, <1>5

\* A command runs its attempt itself, or finds the app busy.
LEMMA RunLocallyFact ==
    ASSUME DoorTypeOK, NEW x \in Actors, RunLocally(x)
    PROVE  /\ actor' \in [Actors -> Actor] /\ actor[x].pc = "resolve"
           /\ \/ /\ actor'[x] = Answered(actor[x], "refused")
                 /\ trigger' = IF trigger = x THEN Nobody ELSE trigger
              \/ /\ trigger' = trigger /\ actor'[x].ask = actor[x].ask
                 /\ actor'[x].pc = "running" /\ actor'[x].id = Len(attempts) + 1
                 /\ actor'[x].name = actor[x].name /\ actor'[x].began = actor[x].began
                 /\ actor'[x].answer = actor[x].answer
           /\ \A y \in Actors : y # x => actor'[y] = actor[y]
           /\ Record(x, "ended") \/ Record(x, "running")
           /\ UNCHANGED <<config, recorded, writes, listening, deaths>>
           /\ trigger' \in {trigger, Nobody}
<1> DEFINE rec == [actor[x] EXCEPT !.pc = "running", !.id = Len(attempts) + 1]
<1>0. actor[x] \in Actor /\ Len(attempts) + 1 \in Nat
  BY LenProperties DEF DoorTypeOK
<1>1. /\ rec \in Actor /\ rec.pc = "running" /\ rec.ask = actor[x].ask /\ rec.id = Len(attempts) + 1
      /\ rec.name = actor[x].name /\ rec.began = actor[x].began
      /\ rec.answer = actor[x].answer
  BY <1>0 DEF Actor, Pcs
<1>2. /\ UNCHANGED <<config, recorded, writes>> /\ actor[x].pc = "resolve"
      /\ \/ Record(x, "ended") /\ Reply(x, "refused")
         \/ Record(x, "running") /\ Step(x, rec) /\ UNCHANGED daemonVars
  BY DEF RunLocally, AtDoor
<1> HIDE DEF rec
<1>3. CASE Record(x, "ended") /\ Reply(x, "refused")
  BY <1>2, <1>3, ReplyFact DEF DoorTypeOK
<1>4. CASE Record(x, "running") /\ Step(x, rec) /\ UNCHANGED daemonVars
  BY <1>1, <1>2, <1>4 DEF DoorTypeOK, Step, daemonVars
<1> QED
  BY <1>2, <1>3, <1>4

\* An attempt ends, and with it the command that ran it.
LEMMA AttemptEndsFact ==
    ASSUME DoorTypeOK, NEW i \in DOMAIN attempts, AttemptEnds(i)
    PROVE  /\ actor' \in [Actors -> Actor]
           /\ \A y \in Actors : \/ actor'[y] = actor[y]
                                 \/ actor'[y] = Answered(actor[y], "done")
           /\ recorded' = recorded \/ recorded' = recorded \cup {attempts[i].name}
           /\ attempts[i].name \in Names
           /\ SetWork(i, "ended")
           /\ UNCHANGED <<config, writes, listening, trigger, deaths>>
<1>0. attempts[i] \in Attempt
  BY DEF DoorTypeOK
<1> DEFINE x == attempts[i].by
<1>1. x \in Actors /\ attempts[i].name \in Names
  BY <1>0 DEF Attempt
<1>2. actor[x] \in Actor
  BY <1>1 DEF DoorTypeOK
<1>3. Answered(actor[x], "done") \in Actor
  BY <1>2, AnsweredFact
<1>4. \/ actor' = actor
      \/ actor' = [actor EXCEPT ![x] = Answered(actor[x], "done")]
  BY DEF AttemptEnds, Step
<1>5. /\ SetWork(i, "ended")
      /\ recorded' = recorded \/ recorded' = recorded \cup {attempts[i].name}
      /\ UNCHANGED <<config, writes, listening, trigger, deaths>>
  BY DEF AttemptEnds, daemonVars
<1> HIDE DEF x
<1> QED
  BY <1>1, <1>3, <1>4, <1>5 DEF DoorTypeOK

\* The daemon dies: what it was doing is lost to those who asked.
LEMMA DaemonDiesFact ==
    ASSUME DoorTypeOK, DaemonDies
    PROVE  /\ actor' \in [Actors -> Actor]
           /\ \A y \in Actors : \/ actor'[y] = actor[y]
                                 \/ actor'[y] = Answered(actor[y], "lost")
           /\ \A y \in Actors : InDaemon(y) => actor'[y] = Answered(actor[y], "lost")
           /\ UNCHANGED <<config, recorded, writes, attempts>>
           /\ listening' = FALSE /\ trigger' = Nobody /\ deaths' \in 0..MaxDeaths
<1>1. \A y \in Actors : Answered(actor[y], "lost") \in Actor
  BY AnsweredFact DEF DoorTypeOK
<1>2. actor' = [y \in Actors |-> IF InDaemon(y) THEN Answered(actor[y], "lost") ELSE actor[y]]
  BY DEF DaemonDies
<1>3. deaths' \in 0..MaxDeaths
  BY DoorAssumption DEF DaemonDies, DoorTypeOK
<1> QED
  BY <1>1, <1>2, <1>3 DEF DaemonDies, DoorTypeOK, storeVars

\* What a push that failed, or an unfit spec, does to the row.
LEMMA OwnRow ==
    ASSUME DoorTypeOK, RowsOwned, NEW x \in Actors,
           InGit(x) \/ (AtDoor(x, "spec") /\ actor[x].id # 0)
    PROVE  actor[x].id \in DOMAIN attempts /\ attempts[actor[x].id].by = x
  BY DEF RowsOwned, HasRow

\* Every step keeps the types; that a row is there to be ended is RowsOwned.
LEMMA DoorTypeNext == DoorTypeOK /\ RowsOwned /\ [DoorNext]_doorVars => DoorTypeOK'
<1> SUFFICES ASSUME DoorTypeOK /\ RowsOwned, [DoorNext]_doorVars PROVE DoorTypeOK'
  OBVIOUS
<1>1. ASSUME NEW x \in Actors, NEW ask \in {"register", "deploy", "push", "command"},
             NEW what \in Asked, Ask(x, ask, what[1], what[2])
      PROVE  DoorTypeOK'
  BY <1>1, AskFact DEF DoorTypeOK
<1>2. ASSUME NEW x \in Actors, TurnAway(x) PROVE DoorTypeOK'
  BY <1>2, ReplyFact DEF TurnAway, DoorTypeOK, storeVars
<1>3. ASSUME NEW x \in Actors, TakeTrigger(x) PROVE DoorTypeOK'
  BY <1>3, GoFact DEF TakeTrigger, DoorTypeOK, storeVars, Pcs, Actors
<1>4. ASSUME NEW x \in Actors, NotAPush(x) PROVE DoorTypeOK'
  BY <1>4, ReplyFact DEF NotAPush, DoorTypeOK, storeVars
<1>5. ASSUME NEW x \in Actors, Scan(x) PROVE DoorTypeOK'
  BY <1>5, GoFact DEF Scan, DoorTypeOK, storeVars, daemonVars, Pcs
<1>6. ASSUME NEW x \in Actors, ScanRefuses(x) PROVE DoorTypeOK'
  BY <1>6, ReplyFact DEF ScanRefuses, DoorTypeOK, storeVars
<1>7. ASSUME NEW x \in Actors, Insert(x) PROVE DoorTypeOK'
  BY <1>7, InsertFact DEF DoorTypeOK
<1>8. ASSUME NEW x \in Actors, Read(x) PROVE DoorTypeOK'
  BY <1>8, ReadFact DEF DoorTypeOK
<1>9. ASSUME NEW x \in Actors, ReadNothing(x) PROVE DoorTypeOK'
  BY <1>9, ReplyFact DEF ReadNothing, DoorTypeOK, storeVars
<1>10. ASSUME NEW x \in Actors, NotBusy(x) PROVE DoorTypeOK'
  BY <1>10, GoFact DEF NotBusy, DoorTypeOK, storeVars, daemonVars, Pcs
<1>11. ASSUME NEW x \in Actors, FoundBusy(x) PROVE DoorTypeOK'
  BY <1>11, ReplyFact, RecordFact DEF FoundBusy, DoorTypeOK
<1>12. ASSUME NEW x \in Actors, SpecBad(x) PROVE DoorTypeOK'
  <2>1. attempts' \in Seq(Attempt)
    BY <1>12, OwnRow, SetWorkFact DEF SpecBad, DoorTypeOK
  <2> QED
    BY <1>12, <2>1, ReplyFact DEF SpecBad, DoorTypeOK
<1>13. ASSUME NEW x \in Actors, SpecGood(x) PROVE DoorTypeOK'
  <2>1. attempts' \in Seq(Attempt)
    BY <1>13, OwnRow, SetWorkFact DEF SpecGood, DoorTypeOK
  <2>2. CASE actor[x].id = 0
    BY <1>13, <2>1, <2>2, GoFact DEF SpecGood, DoorTypeOK, Pcs, daemonVars
  <2>3. CASE actor[x].id # 0
    <3>1. actor[x] \in Actor
      BY DEF DoorTypeOK
    <3> QED
      BY <1>13, <2>1, <2>3, <3>1, AcceptFact DEF SpecGood, DoorTypeOK
  <2> QED
    BY <2>2, <2>3
<1>14. ASSUME NEW x \in Actors, ReserveBusy(x) PROVE DoorTypeOK'
  BY <1>14, ReplyFact, RecordFact DEF ReserveBusy, DoorTypeOK
<1>15. ASSUME NEW x \in Actors, Reserve(x) PROVE DoorTypeOK'
  BY <1>15, ReserveFact, RecordFact DEF DoorTypeOK
<1>16. ASSUME NEW x \in Actors, GitSucceeds(x) PROVE DoorTypeOK'
  <2>1. AfterGit[actor[x].pc] \in Pcs
    BY <1>16 DEF GitSucceeds, InGit, AfterGit, Pcs
  <2> QED
    BY <1>16, <2>1, GoFact DEF GitSucceeds, DoorTypeOK, storeVars, daemonVars
<1>17. ASSUME NEW x \in Actors, GitFails(x) PROVE DoorTypeOK'
  <2>1. attempts' \in Seq(Attempt)
    BY <1>17, OwnRow, SetWorkFact DEF GitFails, DoorTypeOK
  <2> QED
    BY <1>17, <2>1, ReplyFact DEF GitFails, DoorTypeOK
<1>18. ASSUME NEW x \in Actors, Told(x) PROVE DoorTypeOK'
  BY <1>18, ReplyFact DEF Told, DoorTypeOK, storeVars
<1>19. ASSUME NEW x \in Actors, HandOff(x) PROVE DoorTypeOK'
  BY <1>19, GoFact DEF HandOff, DoorTypeOK, storeVars, daemonVars, Pcs
<1>20. ASSUME NEW x \in Actors, NobodyThere(x) PROVE DoorTypeOK'
  BY <1>20, GoFact DEF NobodyThere, DoorTypeOK, storeVars, daemonVars, Pcs
<1>21. ASSUME NEW x \in Actors, NoSpecFound(x) PROVE DoorTypeOK'
  BY <1>21, ReplyFact DEF NoSpecFound, DoorTypeOK, storeVars
<1>22. ASSUME NEW x \in Actors, RunLocally(x) PROVE DoorTypeOK'
  BY <1>22, RunLocallyFact, RecordFact DEF DoorTypeOK
<1>23. ASSUME NEW i \in DOMAIN attempts, AttemptEnds(i) PROVE DoorTypeOK'
  BY <1>23, AttemptEndsFact, SetWorkFact DEF DoorTypeOK
<1>24. CASE DaemonDies
  BY <1>24, DaemonDiesFact DEF DoorTypeOK
<1>25. CASE DaemonStarts
  <2>1. attempts' \in Seq(Attempt)
    BY <1>25, RestartFact DEF DoorTypeOK
  <2> QED
    BY <1>25, <2>1 DEF DaemonStarts, DoorTypeOK
<1>26. CASE UNCHANGED doorVars
  BY <1>26 DEF doorVars, DoorTypeOK
<1> QED
  BY <1>1, <1>2, <1>3, <1>4, <1>5, <1>6, <1>7, <1>8, <1>9, <1>10, <1>11, <1>12, <1>13, <1>14, <1>15, <1>16, <1>17, <1>18, <1>19, <1>20, <1>21, <1>22, <1>23, <1>24, <1>25, <1>26 DEF DoorNext, Proceed

\* A step that neither registers nor scans.
LEMMA SlugsKept ==
    ASSUME SlugsDistinct, ScanHolds, Known' = Known,
           \A y \in Actors : Registering(y)' => Registering(y) /\ actor'[y].name = actor[y].name,
           \A y \in Actors : actor'[y].pc \in Admitted => actor'[y].name \in Known,
           \A i \in DOMAIN attempts' : attempts'[i].name \in Known
    PROVE  SlugsDistinct' /\ ScanHolds' /\ AttemptsKnown'
  BY DEF SlugsDistinct, ScanHolds, AttemptsKnown

\* A row for a known app.
LEMMA NewRowKnown ==
    ASSUME DoorTypeOK, AttemptsKnown, NEW x \in Actors, actor[x].name \in Known,
           NEW work \in {"reserved", "running", "ended"}, Record(x, work)
    PROVE  \A i \in DOMAIN attempts' : attempts'[i].name \in Known
<1>1. /\ Len(attempts) \in Nat /\ DOMAIN attempts = 1..Len(attempts)
      /\ DOMAIN attempts' = 1..(Len(attempts) + 1)
      /\ \A i \in DOMAIN attempts : attempts'[i] = attempts[i]
      /\ attempts'[Len(attempts) + 1] = [name |-> actor[x].name, by |-> x, work |-> work]
  BY RecordFact DEF DoorTypeOK
<1>2. \A i \in DOMAIN attempts : attempts[i].name \in Known
  BY DEF AttemptsKnown
<1>3. ASSUME NEW i \in DOMAIN attempts' PROVE attempts'[i].name \in Known
  <2>1. i \in DOMAIN attempts \/ i = Len(attempts) + 1
    BY <1>1
  <2> QED
    BY <1>1, <1>2, <2>1
<1> QED
  BY <1>3

\* Slugs stay distinct.
LEMMA SlugsNext == Apart /\ DoorInv /\ [DoorNext]_doorVars => (SlugsDistinct /\ ScanHolds /\ AttemptsKnown)'
<1> SUFFICES ASSUME Apart /\ DoorInv, [DoorNext]_doorVars PROVE (SlugsDistinct /\ ScanHolds /\ AttemptsKnown)'
  OBVIOUS
<1> USE DEF DoorInv, RequestInv, SlugInv
<1>1. ASSUME NEW x \in Actors, NEW ask \in {"register", "deploy", "push", "command"},
             NEW what \in Asked, Ask(x, ask, what[1], what[2])
      PROVE  (SlugsDistinct /\ ScanHolds /\ AttemptsKnown)'
  BY <1>1, AskFact, SlugsKept DEF DoorTypeOK, AttemptsKnown, Admitted, Registering, AtDoor, Known
<1>2. ASSUME NEW x \in Actors, TurnAway(x) PROVE (SlugsDistinct /\ ScanHolds /\ AttemptsKnown)'
  BY <1>2, ReplyFact, AnsweredFact, SlugsKept DEF TurnAway, storeVars, daemonVars, DoorTypeOK, AttemptsKnown, Admitted,
     Registering, AtDoor, Known, Pcs, Kept
<1>3. ASSUME NEW x \in Actors, TakeTrigger(x) PROVE (SlugsDistinct /\ ScanHolds /\ AttemptsKnown)'
  BY <1>3, GoFact, SlugsKept DEF TakeTrigger, storeVars, daemonVars, DoorTypeOK, AttemptsKnown, Admitted,
     Registering, AtDoor, Known, Pcs, Kept
<1>4. ASSUME NEW x \in Actors, NotAPush(x) PROVE (SlugsDistinct /\ ScanHolds /\ AttemptsKnown)'
  BY <1>4, ReplyFact, AnsweredFact, SlugsKept DEF NotAPush, storeVars, daemonVars, DoorTypeOK, AttemptsKnown, Admitted,
     Registering, AtDoor, Known, Pcs, Kept
<1>5. ASSUME NEW x \in Actors, Scan(x) PROVE (SlugsDistinct /\ ScanHolds /\ AttemptsKnown)'
  <2>1. actor'[x].pc = "insert" /\ Kept(actor'[x], actor[x])
        /\ (\A y \in Actors : y # x => actor'[y] = actor[y])
    BY <1>5, GoFact DEF Scan, Pcs, DoorTypeOK
  <2>2. UNCHANGED <<config, recorded, attempts>>
    BY <1>5 DEF Scan, storeVars
  <2>3. Known' = Known
    BY <2>2 DEF Known
  <2>4. \A y \in Actors : ~Registering(y)
    BY <1>5 DEF Scan, Excluded
  <2>5. \A y \in Actors : Registering(y)' => y = x
    BY <2>1, <2>4 DEF Registering, AtDoor
  <2>6. Known \subseteq Names
    BY DEF Known, DoorTypeOK
  <2>7. \A m \in Known : SlugOf[m] = SlugOf[actor[x].name] => m = actor[x].name
    BY <1>5, <2>6 DEF Scan, Acceptable, Collides
  <2>8. ScanHolds'
    BY <2>1, <2>3, <2>5, <2>7 DEF ScanHolds, Kept
  <2>9. AttemptsKnown'
    BY <2>1, <2>2, <2>3 DEF AttemptsKnown, Admitted
  <2> QED
    BY <2>3, <2>8, <2>9 DEF SlugsDistinct
<1>6. ASSUME NEW x \in Actors, ScanRefuses(x) PROVE (SlugsDistinct /\ ScanHolds /\ AttemptsKnown)'
  BY <1>6, ReplyFact, AnsweredFact, SlugsKept DEF ScanRefuses, storeVars, daemonVars, DoorTypeOK, AttemptsKnown, Admitted,
     Registering, AtDoor, Known, Pcs, Kept
<1>7. ASSUME NEW x \in Actors, Insert(x) PROVE (SlugsDistinct /\ ScanHolds /\ AttemptsKnown)'
  <2> DEFINE name == actor[x].name
  <2>1. name \in Names
    BY DEF DoorTypeOK, Actor
  <2>2. Known' = Known \cup {name}
    BY <1>7, <2>1, InsertFact DEF Known
  <2>3. Registering(x)
    BY <1>7 DEF Insert
  <2>4. \A y \in Actors : ~Registering(y)'
    BY <1>7, <2>3, InsertFact, AnsweredFact DEF ScanHolds, Registering, AtDoor, DoorTypeOK
  <2>5. SlugsDistinct'
    BY <2>2, <2>3 DEF SlugsDistinct, ScanHolds
  <2>6. ScanHolds'
    BY <2>4 DEF ScanHolds
  <2>7. \A y \in Actors : actor'[y].pc \in Admitted => actor'[y].name \in Known'
    <3>1. CASE actor'[x] = Answered(actor[x], "done")
      BY <1>7, <2>2, <3>1, InsertFact, AnsweredFact DEF AttemptsKnown, Admitted, DoorTypeOK
    <3>2. CASE Kept(actor'[x], actor[x])
      BY <1>7, <2>2, <3>2, InsertFact DEF AttemptsKnown, Admitted, Kept
    <3> QED
      BY <1>7, <3>1, <3>2, InsertFact
  <2>8. AttemptsKnown'
    BY <1>7, <2>2, <2>7, InsertFact DEF AttemptsKnown
  <2> QED
    BY <2>5, <2>6, <2>8
<1>8. ASSUME NEW x \in Actors, Read(x) PROVE (SlugsDistinct /\ ScanHolds /\ AttemptsKnown)'
  <2>1. actor[x].name \in Known
    BY <1>8, ReadFact DEF Known, DoorTypeOK, Actor
  <2> QED
    BY <1>8, <2>1, ReadFact, SlugsKept DEF DoorTypeOK, AttemptsKnown, Admitted, Registering, AtDoor, Known
<1>9. ASSUME NEW x \in Actors, ReadNothing(x) PROVE (SlugsDistinct /\ ScanHolds /\ AttemptsKnown)'
  BY <1>9, ReplyFact, AnsweredFact, SlugsKept DEF ReadNothing, storeVars, daemonVars, DoorTypeOK, AttemptsKnown, Admitted,
     Registering, AtDoor, Known, Pcs, Kept
<1>10. ASSUME NEW x \in Actors, NotBusy(x) PROVE (SlugsDistinct /\ ScanHolds /\ AttemptsKnown)'
  BY <1>10, GoFact, SlugsKept DEF NotBusy, storeVars, daemonVars, DoorTypeOK, AttemptsKnown, Admitted,
     Registering, AtDoor, Known, Pcs, Kept
<1>11. ASSUME NEW x \in Actors, FoundBusy(x) PROVE (SlugsDistinct /\ ScanHolds /\ AttemptsKnown)'
  <2>1. Known' = Known
    BY <1>11 DEF FoundBusy, Known
  <2>2. actor[x].name \in Known
    BY <1>11 DEF FoundBusy, AttemptsKnown, Admitted, AtDoor, InGit
  <2>3. \A i \in DOMAIN attempts' : attempts'[i].name \in Known
    BY <1>11, <2>2, NewRowKnown DEF FoundBusy, AttemptsKnown, DoorTypeOK
  <2> QED
    BY <1>11, <2>1, <2>2, <2>3, SlugsKept, ReplyFact, AnsweredFact DEF FoundBusy, AttemptsKnown, Admitted, Registering, AtDoor,
       DoorTypeOK, Kept, Pcs
<1>12. ASSUME NEW x \in Actors, SpecBad(x) PROVE (SlugsDistinct /\ ScanHolds /\ AttemptsKnown)'
  <2>1. Known' = Known
    BY <1>12 DEF SpecBad, Known
  <2>2. actor[x].name \in Known
    BY <1>12 DEF SpecBad, AttemptsKnown, Admitted, AtDoor, InGit
  <2>3. \A i \in DOMAIN attempts' : attempts'[i].name \in Known
    BY <1>12, <2>2, OwnRow, SetWorkFact DEF SpecBad, AttemptsKnown, DoorTypeOK
  <2> QED
    BY <1>12, <2>1, <2>2, <2>3, SlugsKept, ReplyFact, AnsweredFact DEF SpecBad, AttemptsKnown, Admitted, Registering, AtDoor,
       DoorTypeOK, Kept, Pcs
<1>13. ASSUME NEW x \in Actors, SpecGood(x) PROVE (SlugsDistinct /\ ScanHolds /\ AttemptsKnown)'
  <2>1. Known' = Known
    BY <1>13 DEF SpecGood, Known
  <2>2. actor[x].name \in Known
    BY <1>13 DEF SpecGood, AttemptsKnown, Admitted, AtDoor, InGit
  <2>3. \A i \in DOMAIN attempts' : attempts'[i].name \in Known
    BY <1>13, <2>2, OwnRow, SetWorkFact DEF SpecGood, AttemptsKnown, DoorTypeOK
  <2> QED
    BY <1>13, <2>1, <2>2, <2>3, SlugsKept, GoFact, AcceptFact DEF SpecGood, AttemptsKnown, Admitted, Registering, AtDoor,
       DoorTypeOK, Kept, Pcs
<1>14. ASSUME NEW x \in Actors, ReserveBusy(x) PROVE (SlugsDistinct /\ ScanHolds /\ AttemptsKnown)'
  <2>1. Known' = Known
    BY <1>14 DEF ReserveBusy, Known
  <2>2. actor[x].name \in Known
    BY <1>14 DEF ReserveBusy, AttemptsKnown, Admitted, AtDoor, InGit
  <2>3. \A i \in DOMAIN attempts' : attempts'[i].name \in Known
    BY <1>14, <2>2, NewRowKnown DEF ReserveBusy, AttemptsKnown, DoorTypeOK
  <2> QED
    BY <1>14, <2>1, <2>2, <2>3, SlugsKept, ReplyFact, AnsweredFact DEF ReserveBusy, AttemptsKnown, Admitted, Registering, AtDoor,
       DoorTypeOK, Kept, Pcs
<1>15. ASSUME NEW x \in Actors, Reserve(x) PROVE (SlugsDistinct /\ ScanHolds /\ AttemptsKnown)'
  <2>1. Known' = Known
    BY <1>15 DEF Reserve, Known
  <2>2. actor[x].name \in Known
    BY <1>15 DEF Reserve, AttemptsKnown, Admitted, AtDoor, InGit
  <2>3. \A i \in DOMAIN attempts' : attempts'[i].name \in Known
    BY <1>15, <2>2, ReserveFact, NewRowKnown DEF Reserve, AttemptsKnown, DoorTypeOK
  <2> QED
    BY <1>15, <2>1, <2>2, <2>3, SlugsKept, ReserveFact DEF Reserve, AttemptsKnown, Admitted, Registering, AtDoor,
       DoorTypeOK, Kept, Pcs
<1>16. ASSUME NEW x \in Actors, GitSucceeds(x) PROVE (SlugsDistinct /\ ScanHolds /\ AttemptsKnown)'
  BY <1>16, GoFact, SlugsKept DEF GitSucceeds, storeVars, daemonVars, DoorTypeOK, AttemptsKnown, Admitted,
     Registering, AtDoor, Known, Pcs, Kept, InGit, AfterGit
<1>17. ASSUME NEW x \in Actors, GitFails(x) PROVE (SlugsDistinct /\ ScanHolds /\ AttemptsKnown)'
  <2>1. Known' = Known
    BY <1>17 DEF GitFails, Known
  <2>2. actor[x].name \in Known
    BY <1>17 DEF GitFails, AttemptsKnown, Admitted, AtDoor, InGit
  <2>3. \A i \in DOMAIN attempts' : attempts'[i].name \in Known
    BY <1>17, <2>2, OwnRow, SetWorkFact DEF GitFails, AttemptsKnown, DoorTypeOK
  <2> QED
    BY <1>17, <2>1, <2>2, <2>3, SlugsKept, ReplyFact, AnsweredFact DEF GitFails, AttemptsKnown, Admitted, Registering, AtDoor,
       DoorTypeOK, Kept, Pcs
<1>18. ASSUME NEW x \in Actors, Told(x) PROVE (SlugsDistinct /\ ScanHolds /\ AttemptsKnown)'
  BY <1>18, ReplyFact, AnsweredFact, SlugsKept DEF Told, storeVars, daemonVars, DoorTypeOK, AttemptsKnown, Admitted,
     Registering, AtDoor, Known, Pcs, Kept
<1>19. ASSUME NEW x \in Actors, HandOff(x) PROVE (SlugsDistinct /\ ScanHolds /\ AttemptsKnown)'
  BY <1>19, GoFact, SlugsKept DEF HandOff, storeVars, daemonVars, DoorTypeOK, AttemptsKnown, Admitted,
     Registering, AtDoor, Known, Pcs, Kept
<1>20. ASSUME NEW x \in Actors, NobodyThere(x) PROVE (SlugsDistinct /\ ScanHolds /\ AttemptsKnown)'
  BY <1>20, GoFact, SlugsKept DEF NobodyThere, storeVars, daemonVars, DoorTypeOK, AttemptsKnown, Admitted,
     Registering, AtDoor, Known, Pcs, Kept
<1>21. ASSUME NEW x \in Actors, NoSpecFound(x) PROVE (SlugsDistinct /\ ScanHolds /\ AttemptsKnown)'
  BY <1>21, ReplyFact, AnsweredFact, SlugsKept DEF NoSpecFound, storeVars, daemonVars, DoorTypeOK, AttemptsKnown, Admitted,
     Registering, AtDoor, Known, Pcs, Kept
<1>22. ASSUME NEW x \in Actors, RunLocally(x) PROVE (SlugsDistinct /\ ScanHolds /\ AttemptsKnown)'
  <2>1. Known' = Known
    BY <1>22 DEF RunLocally, Known
  <2>2. actor[x].name \in Known
    BY <1>22 DEF RunLocally, AttemptsKnown, Admitted, AtDoor, InGit
  <2>3. \A i \in DOMAIN attempts' : attempts'[i].name \in Known
    BY <1>22, <2>2, RunLocallyFact, NewRowKnown DEF RunLocally, AttemptsKnown, DoorTypeOK
  <2>4. \A y \in Actors : Registering(y)' => Registering(y) /\ actor'[y].name = actor[y].name
    BY <1>22, RunLocallyFact, AnsweredFact DEF Registering, AtDoor, DoorTypeOK
  <2>5. \A y \in Actors : actor'[y].pc \in Admitted => actor'[y].name \in Known
    BY <1>22, RunLocallyFact, AnsweredFact DEF AttemptsKnown, Admitted, DoorTypeOK
  <2> QED
    BY <2>1, <2>3, <2>4, <2>5, SlugsKept
<1>23. ASSUME NEW i \in DOMAIN attempts, AttemptEnds(i) PROVE (SlugsDistinct /\ ScanHolds /\ AttemptsKnown)'
  <2>1. attempts[i].name \in Known
    BY DEF AttemptsKnown
  <2>2. Known' = Known
    BY <1>23, <2>1, AttemptEndsFact DEF Known
  <2>3. \A j \in DOMAIN attempts' : attempts'[j].name \in Known
    BY <1>23, AttemptEndsFact, SetWorkFact DEF AttemptsKnown, DoorTypeOK
  <2> QED
    BY <1>23, <2>2, <2>3, AttemptEndsFact, AnsweredFact, SlugsKept DEF AttemptsKnown, Admitted, Registering, AtDoor, DoorTypeOK
<1>24. CASE DaemonDies
  <2>1. Known' = Known
    BY <1>24, DaemonDiesFact DEF Known
  <2> QED
    BY <1>24, <2>1, DaemonDiesFact, AnsweredFact, SlugsKept DEF AttemptsKnown, Admitted, Registering, AtDoor, DoorTypeOK
<1>25. CASE DaemonStarts
  <2>1. UNCHANGED <<config, recorded, actor>>
    BY <1>25 DEF DaemonStarts
  <2>2. Known' = Known
    BY <2>1 DEF Known
  <2> QED
    BY <1>25, <2>1, <2>2, RestartFact, SlugsKept DEF AttemptsKnown, Registering, AtDoor, DoorTypeOK
<1>26. CASE UNCHANGED doorVars
  BY <1>26 DEF doorVars, SlugsDistinct, ScanHolds, AttemptsKnown, Known, Registering, AtDoor
<1> QED
  BY <1>1, <1>2, <1>3, <1>4, <1>5, <1>6, <1>7, <1>8, <1>9, <1>10, <1>11, <1>12, <1>13, <1>14, <1>15, <1>16, <1>17, <1>18, <1>19, <1>20, <1>21, <1>22, <1>23, <1>24, <1>25, <1>26 DEF DoorNext, Proceed

\* What RowsOwned and StartsOnce say of one request.
RowFine(x) ==
    /\ InGit(x) \/ AtDoor(x, "reply") \/ AtDoor(x, "running") => HasRow(x)
    /\ AtDoor(x, "spec") => actor[x].id = 0 \/ HasRow(x)
    /\ actor[x].pc \in Rowless => actor[x].id = 0
    /\ actor[x].answer = "accepted" => HasRow(x)
    /\ (\E i \in DOMAIN attempts : attempts[i].by = x) =>
         actor[x].pc \notin Rowless /\ (AtDoor(x, "spec") => actor[x].id # 0)

\* They say it of every request.
LEMMA RowFineFact == ASSUME StartsOnce, RowsOwned PROVE \A x \in Actors : RowFine(x)
  BY DEF StartsOnce, RowsOwned, RowFine, HasRow, AtDoor

\* A step that adds no row.
LEMMA RowsKept ==
    ASSUME DoorTypeOK, DoorTypeOK', StartsOnce, RowsOwned, DOMAIN attempts' = DOMAIN attempts,
           \A i \in DOMAIN attempts : attempts'[i].by = attempts[i].by,
           \A y \in Actors : \/ actor'[y] = actor[y]
                             \/ actor'[y].pc = "ended" /\ actor'[y].answer # "accepted"
                             \/ RowFine(y)'
    PROVE  StartsOnce' /\ RowsOwned'
<1>1. ASSUME NEW y \in Actors PROVE RowFine(y)'
  <2>1. CASE actor'[y] = actor[y]
    BY <2>1, RowFineFact DEF RowFine, Rowless, HasRow, AtDoor, InGit
  <2>2. CASE actor'[y].pc = "ended" /\ actor'[y].answer # "accepted"
    BY <2>2 DEF RowFine, Rowless, AtDoor, InGit
  <2> QED
    BY <2>1, <2>2
<1>2. \A i \in DOMAIN attempts' : attempts'[i].by \in Actors
  <2>1. attempts' \in Seq(Attempt)
    BY DEF DoorTypeOK
  <2>2. \A i \in DOMAIN attempts' : attempts'[i] \in Attempt
    BY <2>1
  <2> QED
    BY <2>2 DEF Attempt
<1>3. RowsOwned'
  BY <1>1, <1>2 DEF RowFine, RowsOwned, AtDoor
<1>4. StartsOnce'
  BY <1>1 DEF RowFine, StartsOnce, HasRow
<1> QED
  BY <1>3, <1>4

\* A step that adds the row of a request that has none.
LEMMA RowAdded ==
    ASSUME DoorTypeOK, DoorTypeOK', StartsOnce, RowsOwned, NEW x \in Actors,
           actor[x].pc \in {"busy", "reserve", "resolve"},
           NEW work \in {"reserved", "running", "ended"}, Record(x, work),
           \A y \in Actors : y # x => actor'[y] = actor[y],
           \/ actor'[x].pc = "ended" /\ actor'[x].answer # "accepted"
           \/ actor'[x].pc \in {"branch", "reply", "running"} /\ actor'[x].id = Len(attempts) + 1
    PROVE  StartsOnce' /\ RowsOwned'
<1>1. /\ Len(attempts) \in Nat /\ DOMAIN attempts = 1..Len(attempts)
      /\ DOMAIN attempts' = 1..(Len(attempts) + 1)
      /\ \A i \in DOMAIN attempts : attempts'[i] = attempts[i]
      /\ attempts'[Len(attempts) + 1] = [name |-> actor[x].name, by |-> x, work |-> work]
  BY RecordFact DEF DoorTypeOK
<1>2. \A i \in DOMAIN attempts : attempts[i].by # x
  BY RowFineFact DEF RowFine, Rowless
<1>3. \A i \in DOMAIN attempts' : i \in DOMAIN attempts \/ i = Len(attempts) + 1
  BY <1>1
<1>4. \A i, j \in DOMAIN attempts' : attempts'[i].by = attempts'[j].by => i = j
  BY <1>1, <1>2, <1>3 DEF StartsOnce
<1>5. ASSUME NEW y \in Actors, y # x PROVE RowFine(y)'
  <2>1. HasRow(y) => HasRow(y)'
    BY <1>1, <1>5 DEF HasRow
  <2>2. (\E i \in DOMAIN attempts' : attempts'[i].by = y) => \E i \in DOMAIN attempts : attempts[i].by = y
    BY <1>1, <1>3, <1>5
  <2> QED
    BY <1>5, <2>1, <2>2, RowFineFact DEF RowFine, Rowless, AtDoor, InGit
<1>6. RowFine(x)'
  BY <1>1 DEF RowFine, Rowless, HasRow, AtDoor, InGit
<1>7. \A i \in DOMAIN attempts' : attempts'[i].by \in Actors
  <2>1. attempts' \in Seq(Attempt)
    BY DEF DoorTypeOK
  <2>2. \A i \in DOMAIN attempts' : attempts'[i] \in Attempt
    BY <2>1
  <2> QED
    BY <2>2 DEF Attempt
<1>8. RowsOwned'
  BY <1>5, <1>6, <1>7 DEF RowFine, RowsOwned, AtDoor
<1> QED
  BY <1>4, <1>5, <1>6, <1>8 DEF RowFine, StartsOnce, HasRow

\* One attempt at most for a request.
LEMMA RowsNext == RequestInv /\ DoorTypeOK' /\ [DoorNext]_doorVars => StartsOnce' /\ RowsOwned'
<1> SUFFICES ASSUME RequestInv /\ DoorTypeOK', [DoorNext]_doorVars PROVE StartsOnce' /\ RowsOwned'
  OBVIOUS
<1> USE DEF RequestInv
<1>1. ASSUME NEW x \in Actors, NEW ask \in {"register", "deploy", "push", "command"},
             NEW what \in Asked, Ask(x, ask, what[1], what[2])
      PROVE  StartsOnce' /\ RowsOwned'
  BY <1>1, AskFact, RowFineFact, RowsKept DEF RowFine, Rowless, HasRow, AtDoor, InGit
<1>2. ASSUME NEW x \in Actors, TurnAway(x) PROVE StartsOnce' /\ RowsOwned'
  BY <1>2, ReplyFact, AnsweredFact, RowsKept DEF TurnAway, storeVars, DoorTypeOK
<1>3. ASSUME NEW x \in Actors, TakeTrigger(x) PROVE StartsOnce' /\ RowsOwned'
  <2>1. UNCHANGED attempts
    BY <1>3 DEF TakeTrigger, storeVars
  <2>2. RowFine(x)'
    BY <1>3, <2>1, GoFact, RowFineFact DEF TakeTrigger, RowFine, Rowless, HasRow, AtDoor, DoorTypeOK, Pcs, Kept, InGit
  <2> QED
    BY <1>3, <2>1, <2>2, GoFact, RowsKept DEF TakeTrigger, DoorTypeOK, Pcs, InGit
<1>4. ASSUME NEW x \in Actors, NotAPush(x) PROVE StartsOnce' /\ RowsOwned'
  BY <1>4, ReplyFact, AnsweredFact, RowsKept DEF NotAPush, storeVars, DoorTypeOK
<1>5. ASSUME NEW x \in Actors, Scan(x) PROVE StartsOnce' /\ RowsOwned'
  <2>1. UNCHANGED attempts
    BY <1>5 DEF Scan, storeVars
  <2>2. RowFine(x)'
    BY <1>5, <2>1, GoFact, RowFineFact DEF Scan, RowFine, Rowless, HasRow, AtDoor, DoorTypeOK, Pcs, Kept, InGit
  <2> QED
    BY <1>5, <2>1, <2>2, GoFact, RowsKept DEF Scan, DoorTypeOK, Pcs, InGit
<1>6. ASSUME NEW x \in Actors, ScanRefuses(x) PROVE StartsOnce' /\ RowsOwned'
  BY <1>6, ReplyFact, AnsweredFact, RowsKept DEF ScanRefuses, storeVars, DoorTypeOK
<1>7. ASSUME NEW x \in Actors, Insert(x) PROVE StartsOnce' /\ RowsOwned'
  <2>1. UNCHANGED attempts
    BY <1>7, InsertFact
  <2>2. CASE actor'[x] = Answered(actor[x], "done")
    BY <1>7, <2>1, <2>2, InsertFact, AnsweredFact, RowsKept DEF DoorTypeOK
  <2>3. CASE actor'[x].pc = "curl" /\ Kept(actor'[x], actor[x])
    <3>1. RowFine(x)'
      BY <1>7, <2>1, <2>3, InsertFact, RowFineFact DEF RowFine, Rowless, HasRow, AtDoor, InGit, Kept
    <3> QED
      BY <1>7, <2>1, <3>1, InsertFact, RowsKept
  <2> QED
    BY <1>7, <2>2, <2>3, InsertFact
<1>8. ASSUME NEW x \in Actors, Read(x) PROVE StartsOnce' /\ RowsOwned'
  <2>1. UNCHANGED attempts
    BY <1>8, ReadFact
  <2>2. RowFine(x)'
    BY <1>8, <2>1, ReadFact, RowFineFact DEF RowFine, Rowless, HasRow, AtDoor, InGit
  <2> QED
    BY <1>8, <2>1, <2>2, ReadFact, RowsKept
<1>9. ASSUME NEW x \in Actors, ReadNothing(x) PROVE StartsOnce' /\ RowsOwned'
  BY <1>9, ReplyFact, AnsweredFact, RowsKept DEF ReadNothing, storeVars, DoorTypeOK
<1>10. ASSUME NEW x \in Actors, NotBusy(x) PROVE StartsOnce' /\ RowsOwned'
  <2>1. UNCHANGED attempts
    BY <1>10 DEF NotBusy, storeVars
  <2>2. RowFine(x)'
    BY <1>10, <2>1, GoFact, RowFineFact DEF NotBusy, RowFine, Rowless, HasRow, AtDoor, DoorTypeOK, Pcs, Kept, InGit
  <2> QED
    BY <1>10, <2>1, <2>2, GoFact, RowsKept DEF NotBusy, DoorTypeOK, Pcs, InGit
<1>11. ASSUME NEW x \in Actors, FoundBusy(x) PROVE StartsOnce' /\ RowsOwned'
  <2>1. /\ actor'[x].pc = "ended" /\ actor'[x].answer # "accepted" /\ actor[x].pc = "busy"
        /\ \A y \in Actors : y # x => actor'[y] = actor[y]
    BY <1>11, ReplyFact, AnsweredFact DEF FoundBusy, AtDoor, DoorTypeOK
  <2>2. CASE UNCHANGED attempts
    BY <2>1, <2>2, RowsKept
  <2>3. CASE Record(x, "ended")
    BY <2>1, <2>3, RowAdded
  <2> QED
    BY <1>11, <2>2, <2>3 DEF FoundBusy
<1>12. ASSUME NEW x \in Actors, SpecBad(x) PROVE StartsOnce' /\ RowsOwned'
  <2>1. DOMAIN attempts' = DOMAIN attempts /\ \A i \in DOMAIN attempts : attempts'[i].by = attempts[i].by
    BY <1>12, OwnRow, SetWorkFact DEF SpecBad, DoorTypeOK
  <2> QED
    BY <1>12, <2>1, ReplyFact, AnsweredFact, RowsKept DEF SpecBad, DoorTypeOK
<1>13. ASSUME NEW x \in Actors, SpecGood(x) PROVE StartsOnce' /\ RowsOwned'
  <2>1. DOMAIN attempts' = DOMAIN attempts /\ \A i \in DOMAIN attempts : attempts'[i].by = attempts[i].by
    BY <1>13, OwnRow, SetWorkFact DEF SpecGood, DoorTypeOK
  <2>2. /\ actor'[x].pc = (IF actor[x].id = 0 THEN "reserve" ELSE "reply")
        /\ actor'[x].id = actor[x].id /\ actor'[x].answer = actor[x].answer
        /\ \A y \in Actors : y # x => actor'[y] = actor[y]
    BY <1>13, GoFact, AcceptFact DEF SpecGood, DoorTypeOK, Kept, Pcs
  <2>3. AtDoor(x, "spec")
    BY <1>13 DEF SpecGood
  <2>4. RowFine(x)'
    BY <2>1, <2>2, <2>3, RowFineFact DEF RowFine, Rowless, HasRow, AtDoor, InGit
  <2> QED
    BY <2>1, <2>2, <2>4, RowsKept
<1>14. ASSUME NEW x \in Actors, ReserveBusy(x) PROVE StartsOnce' /\ RowsOwned'
  <2>1. /\ actor'[x].pc = "ended" /\ actor'[x].answer # "accepted" /\ actor[x].pc = "reserve"
        /\ \A y \in Actors : y # x => actor'[y] = actor[y]
        /\ Record(x, "ended")
    BY <1>14, ReplyFact, AnsweredFact DEF ReserveBusy, AtDoor, DoorTypeOK
  <2> QED
    BY <2>1, RowAdded
<1>15. ASSUME NEW x \in Actors, Reserve(x) PROVE StartsOnce' /\ RowsOwned'
  BY <1>15, ReserveFact, RowAdded
<1>16. ASSUME NEW x \in Actors, GitSucceeds(x) PROVE StartsOnce' /\ RowsOwned'
  <2>1. UNCHANGED attempts
    BY <1>16 DEF GitSucceeds, storeVars
  <2>2. RowFine(x)'
    BY <1>16, <2>1, GoFact, RowFineFact DEF GitSucceeds, RowFine, Rowless, HasRow, AtDoor, DoorTypeOK, Pcs, Kept, InGit, AfterGit
  <2> QED
    BY <1>16, <2>1, <2>2, GoFact, RowsKept DEF GitSucceeds, DoorTypeOK, Pcs, InGit, AfterGit
<1>17. ASSUME NEW x \in Actors, GitFails(x) PROVE StartsOnce' /\ RowsOwned'
  <2>1. DOMAIN attempts' = DOMAIN attempts /\ \A i \in DOMAIN attempts : attempts'[i].by = attempts[i].by
    BY <1>17, OwnRow, SetWorkFact DEF GitFails, DoorTypeOK
  <2> QED
    BY <1>17, <2>1, ReplyFact, AnsweredFact, RowsKept DEF GitFails, DoorTypeOK
<1>18. ASSUME NEW x \in Actors, Told(x) PROVE StartsOnce' /\ RowsOwned'
  <2>1. actor[x].pc = "reply" /\ actor'[x].pc = "ended" /\ actor'[x].id = actor[x].id
    BY <1>18, ReplyFact, AnsweredFact DEF Told, AtDoor, DoorTypeOK
  <2>2. UNCHANGED attempts
    BY <1>18 DEF Told, storeVars
  <2>3. RowFine(x)'
    BY <2>1, <2>2, RowFineFact DEF RowFine, Rowless, HasRow, AtDoor, InGit
  <2> QED
    BY <1>18, <2>2, <2>3, RowsKept, ReplyFact DEF Told, DoorTypeOK
<1>19. ASSUME NEW x \in Actors, HandOff(x) PROVE StartsOnce' /\ RowsOwned'
  <2>1. UNCHANGED attempts
    BY <1>19 DEF HandOff, storeVars
  <2>2. RowFine(x)'
    BY <1>19, <2>1, GoFact, RowFineFact DEF HandOff, RowFine, Rowless, HasRow, AtDoor, DoorTypeOK, Pcs, Kept, InGit
  <2> QED
    BY <1>19, <2>1, <2>2, GoFact, RowsKept DEF HandOff, DoorTypeOK, Pcs, InGit
<1>20. ASSUME NEW x \in Actors, NobodyThere(x) PROVE StartsOnce' /\ RowsOwned'
  <2>1. UNCHANGED attempts
    BY <1>20 DEF NobodyThere, storeVars
  <2>2. RowFine(x)'
    BY <1>20, <2>1, GoFact, RowFineFact DEF NobodyThere, RowFine, Rowless, HasRow, AtDoor, DoorTypeOK, Pcs, Kept, InGit
  <2> QED
    BY <1>20, <2>1, <2>2, GoFact, RowsKept DEF NobodyThere, DoorTypeOK, Pcs, InGit
<1>21. ASSUME NEW x \in Actors, NoSpecFound(x) PROVE StartsOnce' /\ RowsOwned'
  BY <1>21, ReplyFact, AnsweredFact, RowsKept DEF NoSpecFound, storeVars, DoorTypeOK
<1>22. ASSUME NEW x \in Actors, RunLocally(x) PROVE StartsOnce' /\ RowsOwned'
  BY <1>22, RunLocallyFact, AnsweredFact, RowAdded DEF DoorTypeOK
<1>23. ASSUME NEW i \in DOMAIN attempts, AttemptEnds(i) PROVE StartsOnce' /\ RowsOwned'
  BY <1>23, AttemptEndsFact, SetWorkFact, AnsweredFact, RowsKept DEF DoorTypeOK
<1>24. CASE DaemonDies
  <2>1. \A y \in Actors : \/ actor'[y] = actor[y]
                           \/ /\ actor'[y].pc = "ended" /\ actor'[y].answer # "accepted"
                              /\ actor'[y].began = 0
    <3>1. \A y \in Actors : actor[y] \in Actor
      BY DEF DoorTypeOK
    <3>2. \A y \in Actors : /\ Answered(actor[y], "lost").pc = "ended"
                           /\ Answered(actor[y], "lost").answer = "lost"
                           /\ Answered(actor[y], "lost").began = 0
      BY <3>1, AnsweredFact
    <3> QED
      BY <1>24, <3>2, DaemonDiesFact
  <2> QED
    BY <1>24, <2>1, DaemonDiesFact, RowsKept
<1>25. CASE DaemonStarts
  BY <1>25, RestartFact, RowsKept DEF DaemonStarts, DoorTypeOK
<1>26. CASE UNCHANGED doorVars
  BY <1>26 DEF doorVars, StartsOnce, RowsOwned, HasRow, AtDoor, InGit
<1> QED
  BY <1>1, <1>2, <1>3, <1>4, <1>5, <1>6, <1>7, <1>8, <1>9, <1>10, <1>11, <1>12, <1>13, <1>14, <1>15, <1>16, <1>17, <1>18, <1>19, <1>20, <1>21, <1>22, <1>23, <1>24, <1>25, <1>26 DEF DoorNext, Proceed

\* What NotStale and CommandsSeen say of one request.
SeenFine(x) ==
    /\ actor[x].began <= writes
    /\ x \in Clis =>
         /\ actor[x].pc \notin {"idle", "scan", "insert", "ended"} =>
              config[actor[x].name].stamp > actor[x].began
         /\ InGit(x) \/ actor[x].pc \in {"busy", "spec", "reserve", "reply"}
              \/ actor[x].answer = "accepted" => actor[x].snapshot.stamp > actor[x].began

\* They say it of every request.
LEMMA SeenFineFact == NotStale /\ CommandsSeen <=> \A x \in Actors : SeenFine(x)
  BY DEF NotStale, CommandsSeen, SeenFine, Actors

\* A request that has ended and was not accepted has seen enough.
LEMMA EndedSeen ==
    ASSUME writes \in Nat, writes' \in Nat, NEW y \in Actors, actor'[y].began = 0,
           actor'[y].pc = "ended", actor'[y].answer # "accepted"
    PROVE  SeenFine(y)'
  BY DEF SeenFine, InGit

\* A step that does not register.
LEMMA SeenKept ==
    ASSUME DoorTypeOK, DoorTypeOK', NotStale, CommandsSeen, config' = config, writes' = writes,
           \A y \in Actors :
             \/ actor'[y] = actor[y]
             \/ actor'[y].pc = "ended" /\ actor'[y].answer # "accepted" /\ actor'[y].began = 0
             \/ SeenFine(y)'
    PROVE  NotStale' /\ CommandsSeen'
<1>1. \A y \in Actors : SeenFine(y)
  BY SeenFineFact
<1>2. ASSUME NEW y \in Actors PROVE SeenFine(y)'
  <2>1. CASE actor'[y] = actor[y]
    BY <1>1, <2>1 DEF SeenFine, InGit
  <2>2. CASE actor'[y].pc = "ended" /\ actor'[y].answer # "accepted" /\ actor'[y].began = 0
    BY <2>2, EndedSeen DEF DoorTypeOK
  <2> QED
    BY <2>1, <2>2
<1>3. NotStale' /\ CommandsSeen'
  BY <1>2 DEF NotStale, CommandsSeen, SeenFine, Actors, InGit
<1> QED
  BY <1>3

\* A command is told of no attempt older than itself.
LEMMA SeenNext == RequestInv /\ DoorTypeOK' /\ [DoorNext]_doorVars => NotStale' /\ CommandsSeen'
<1> SUFFICES ASSUME RequestInv /\ DoorTypeOK', [DoorNext]_doorVars PROVE NotStale' /\ CommandsSeen'
  OBVIOUS
<1> USE DEF RequestInv
<1>1. ASSUME NEW x \in Actors, NEW ask \in {"register", "deploy", "push", "command"},
             NEW what \in Asked, Ask(x, ask, what[1], what[2])
      PROVE  NotStale' /\ CommandsSeen'
  <2>1. actor[x].answer = "accepted" => actor[x].pc = "ended"
    BY <1>1, AskFact, RowFineFact DEF RowFine, Rowless, HasRow
  <2> QED
    BY <1>1, <2>1, AskFact, SeenFineFact, SeenKept DEF SeenFine, AtDoor, InGit, DoorTypeOK
<1>2. ASSUME NEW x \in Actors, TurnAway(x) PROVE NotStale' /\ CommandsSeen'
  BY <1>2, ReplyFact, AnsweredFact, SeenKept DEF TurnAway, storeVars, DoorTypeOK
<1>3. ASSUME NEW x \in Actors, TakeTrigger(x) PROVE NotStale' /\ CommandsSeen'
  <2>1. UNCHANGED <<config, writes>>
    BY <1>3 DEF TakeTrigger, storeVars
  <2>2. SeenFine(x)'
    BY <1>3, <2>1, GoFact, SeenFineFact DEF TakeTrigger, SeenFine, AtDoor, DoorTypeOK, Pcs, Kept, InGit
  <2> QED
    BY <1>3, <2>1, <2>2, GoFact, SeenKept DEF TakeTrigger, DoorTypeOK, Pcs, InGit
<1>4. ASSUME NEW x \in Actors, NotAPush(x) PROVE NotStale' /\ CommandsSeen'
  BY <1>4, ReplyFact, AnsweredFact, SeenKept DEF NotAPush, storeVars, DoorTypeOK
<1>5. ASSUME NEW x \in Actors, Scan(x) PROVE NotStale' /\ CommandsSeen'
  <2>1. UNCHANGED <<config, writes>>
    BY <1>5 DEF Scan, storeVars
  <2>2. SeenFine(x)'
    BY <1>5, <2>1, GoFact, SeenFineFact DEF Scan, SeenFine, AtDoor, DoorTypeOK, Pcs, Kept, InGit
  <2> QED
    BY <1>5, <2>1, <2>2, GoFact, SeenKept DEF Scan, DoorTypeOK, Pcs, InGit
<1>6. ASSUME NEW x \in Actors, ScanRefuses(x) PROVE NotStale' /\ CommandsSeen'
  BY <1>6, ReplyFact, AnsweredFact, SeenKept DEF ScanRefuses, storeVars, DoorTypeOK
<1>7. ASSUME NEW x \in Actors, Insert(x) PROVE NotStale' /\ CommandsSeen'
  <2>1. ASSUME NEW y \in Actors PROVE SeenFine(y)'
    <3>0. actor[y] \in Actor /\ actor[x] \in Actor
      BY DEF DoorTypeOK
    <3>1. actor[y].began \in Nat /\ writes \in Nat /\ actor[y].name \in Names /\ actor[x].name \in Names
      BY <3>0 DEF Actor, DoorTypeOK
    <3>2. SeenFine(y)
      BY SeenFineFact
    <3>3. CASE y # x
      <4>1. actor'[y] = actor[y] /\ writes' = writes + 1
        BY <1>7, <3>3, InsertFact
      <4>2. config'[actor[y].name].stamp = writes + 1
              \/ config'[actor[y].name] = config[actor[y].name]
        BY <1>7, <3>1, InsertFact
      <4> QED
        BY <3>1, <3>2, <4>1, <4>2 DEF SeenFine, InGit
    <3>4. CASE y = x /\ actor'[x] = Answered(actor[x], "done")
      BY <1>7, <3>0, <3>4, InsertFact, AnsweredFact, EndedSeen DEF DoorTypeOK
    <3>5. CASE y = x /\ actor'[x].pc = "curl" /\ Kept(actor'[x], actor[x])
      BY <1>7, <3>1, <3>2, <3>5, InsertFact DEF SeenFine, InGit, Kept
    <3> QED
      BY <1>7, <3>3, <3>4, <3>5, InsertFact
  <2> QED
    BY <2>1 DEF NotStale, CommandsSeen, SeenFine, Actors, InGit
<1>8. ASSUME NEW x \in Actors, Read(x) PROVE NotStale' /\ CommandsSeen'
  <2>1. SeenFine(x)'
    BY <1>8, ReadFact, SeenFineFact DEF SeenFine, InGit
  <2> QED
    BY <1>8, <2>1, ReadFact, SeenKept
<1>9. ASSUME NEW x \in Actors, ReadNothing(x) PROVE NotStale' /\ CommandsSeen'
  BY <1>9, ReplyFact, AnsweredFact, SeenKept DEF ReadNothing, storeVars, DoorTypeOK
<1>10. ASSUME NEW x \in Actors, NotBusy(x) PROVE NotStale' /\ CommandsSeen'
  <2>1. UNCHANGED <<config, writes>>
    BY <1>10 DEF NotBusy, storeVars
  <2>2. SeenFine(x)'
    BY <1>10, <2>1, GoFact, SeenFineFact DEF NotBusy, SeenFine, AtDoor, DoorTypeOK, Pcs, Kept, InGit
  <2> QED
    BY <1>10, <2>1, <2>2, GoFact, SeenKept DEF NotBusy, DoorTypeOK, Pcs, InGit
<1>11. ASSUME NEW x \in Actors, FoundBusy(x) PROVE NotStale' /\ CommandsSeen'
  BY <1>11, ReplyFact, AnsweredFact, SeenKept DEF FoundBusy, DoorTypeOK
<1>12. ASSUME NEW x \in Actors, SpecBad(x) PROVE NotStale' /\ CommandsSeen'
  BY <1>12, ReplyFact, AnsweredFact, SeenKept DEF SpecBad, DoorTypeOK
<1>13. ASSUME NEW x \in Actors, SpecGood(x) PROVE NotStale' /\ CommandsSeen'
  <2>1. /\ actor'[x].pc \in {"reserve", "reply"}
        /\ actor'[x].began = actor[x].began /\ actor'[x].name = actor[x].name
        /\ actor'[x].snapshot = actor[x].snapshot /\ actor'[x].answer = actor[x].answer
        /\ \A y \in Actors : y # x => actor'[y] = actor[y]
    BY <1>13, GoFact, AcceptFact DEF SpecGood, DoorTypeOK, Kept, Pcs
  <2>2. AtDoor(x, "spec") /\ UNCHANGED <<config, writes>>
    BY <1>13 DEF SpecGood
  <2>3. SeenFine(x)'
    BY <2>1, <2>2, SeenFineFact DEF SeenFine, AtDoor, InGit
  <2> QED
    BY <2>1, <2>2, <2>3, SeenKept
<1>14. ASSUME NEW x \in Actors, ReserveBusy(x) PROVE NotStale' /\ CommandsSeen'
  BY <1>14, ReplyFact, AnsweredFact, SeenKept DEF ReserveBusy, DoorTypeOK
<1>15. ASSUME NEW x \in Actors, Reserve(x) PROVE NotStale' /\ CommandsSeen'
  <2>1. SeenFine(x)'
    BY <1>15, ReserveFact, SeenFineFact DEF SeenFine, InGit
  <2> QED
    BY <1>15, <2>1, ReserveFact, SeenKept
<1>16. ASSUME NEW x \in Actors, GitSucceeds(x) PROVE NotStale' /\ CommandsSeen'
  <2>1. UNCHANGED <<config, writes>>
    BY <1>16 DEF GitSucceeds, storeVars
  <2>2. SeenFine(x)'
    BY <1>16, <2>1, GoFact, SeenFineFact DEF GitSucceeds, SeenFine, AtDoor, DoorTypeOK, Pcs, Kept, InGit, AfterGit
  <2> QED
    BY <1>16, <2>1, <2>2, GoFact, SeenKept DEF GitSucceeds, DoorTypeOK, Pcs, InGit, AfterGit
<1>17. ASSUME NEW x \in Actors, GitFails(x) PROVE NotStale' /\ CommandsSeen'
  BY <1>17, ReplyFact, AnsweredFact, SeenKept DEF GitFails, DoorTypeOK
<1>18. ASSUME NEW x \in Actors, Told(x) PROVE NotStale' /\ CommandsSeen'
  <2>1. /\ actor[x].pc = "reply" /\ actor'[x].pc = "ended"
        /\ actor'[x].began = actor[x].began /\ actor'[x].snapshot = actor[x].snapshot
    BY <1>18, ReplyFact, AnsweredFact DEF Told, AtDoor, DoorTypeOK
  <2>2. UNCHANGED <<config, writes>>
    BY <1>18 DEF Told, storeVars
  <2>3. SeenFine(x)'
    BY <2>1, <2>2, SeenFineFact DEF SeenFine, AtDoor, InGit
  <2> QED
    BY <1>18, <2>2, <2>3, SeenKept, ReplyFact DEF Told, DoorTypeOK
<1>19. ASSUME NEW x \in Actors, HandOff(x) PROVE NotStale' /\ CommandsSeen'
  <2>1. UNCHANGED <<config, writes>>
    BY <1>19 DEF HandOff, storeVars
  <2>2. SeenFine(x)'
    BY <1>19, <2>1, GoFact, SeenFineFact DEF HandOff, SeenFine, AtDoor, DoorTypeOK, Pcs, Kept, InGit
  <2> QED
    BY <1>19, <2>1, <2>2, GoFact, SeenKept DEF HandOff, DoorTypeOK, Pcs, InGit
<1>20. ASSUME NEW x \in Actors, NobodyThere(x) PROVE NotStale' /\ CommandsSeen'
  <2>1. UNCHANGED <<config, writes>>
    BY <1>20 DEF NobodyThere, storeVars
  <2>2. SeenFine(x)'
    BY <1>20, <2>1, GoFact, SeenFineFact DEF NobodyThere, SeenFine, AtDoor, DoorTypeOK, Pcs, Kept, InGit
  <2> QED
    BY <1>20, <2>1, <2>2, GoFact, SeenKept DEF NobodyThere, DoorTypeOK, Pcs, InGit
<1>21. ASSUME NEW x \in Actors, NoSpecFound(x) PROVE NotStale' /\ CommandsSeen'
  BY <1>21, ReplyFact, AnsweredFact, SeenKept DEF NoSpecFound, storeVars, DoorTypeOK
<1>22. ASSUME NEW x \in Actors, RunLocally(x) PROVE NotStale' /\ CommandsSeen'
  <2>1. CASE actor'[x] = Answered(actor[x], "refused")
    BY <1>22, <2>1, RunLocallyFact, AnsweredFact, SeenKept DEF DoorTypeOK
  <2>2. CASE actor'[x].pc = "running" /\ actor'[x].name = actor[x].name
             /\ actor'[x].began = actor[x].began /\ actor'[x].answer = actor[x].answer
    <3>0. actor[x].answer # "accepted"
      BY <1>22, RunLocallyFact, RowFineFact DEF RowFine, Rowless, HasRow
    <3>1. SeenFine(x)'
      BY <1>22, <2>2, <3>0, RunLocallyFact, SeenFineFact DEF SeenFine, InGit
    <3> QED
      BY <1>22, <3>1, RunLocallyFact, SeenKept
  <2> QED
    BY <1>22, <2>1, <2>2, RunLocallyFact
<1>23. ASSUME NEW i \in DOMAIN attempts, AttemptEnds(i) PROVE NotStale' /\ CommandsSeen'
  BY <1>23, AttemptEndsFact, AnsweredFact, SeenKept DEF DoorTypeOK
<1>24. CASE DaemonDies
  <2>1. \A y \in Actors : \/ actor'[y] = actor[y]
                           \/ /\ actor'[y].pc = "ended" /\ actor'[y].answer # "accepted"
                              /\ actor'[y].began = 0
    <3>1. \A y \in Actors : actor[y] \in Actor
      BY DEF DoorTypeOK
    <3>2. \A y \in Actors : /\ Answered(actor[y], "lost").pc = "ended"
                           /\ Answered(actor[y], "lost").answer = "lost"
                           /\ Answered(actor[y], "lost").began = 0
      BY <3>1, AnsweredFact
    <3> QED
      BY <1>24, <3>2, DaemonDiesFact
  <2> QED
    BY <1>24, <2>1, DaemonDiesFact, SeenKept
<1>25. CASE DaemonStarts
  BY <1>25, SeenKept DEF DaemonStarts, DoorTypeOK
<1>26. CASE UNCHANGED doorVars
  BY <1>26 DEF doorVars, NotStale, CommandsSeen, InGit
<1> QED
  BY <1>1, <1>2, <1>3, <1>4, <1>5, <1>6, <1>7, <1>8, <1>9, <1>10, <1>11, <1>12, <1>13, <1>14, <1>15, <1>16, <1>17, <1>18, <1>19, <1>20, <1>21, <1>22, <1>23, <1>24, <1>25, <1>26 DEF DoorNext, Proceed

\* What SnapshotInv says of one request.
SnapFine(x) ==
    /\ UnderTrigger(x) => trigger = x
    /\ ~AtDoor(x, "idle") /\ ~AtDoor(x, "ended") => (IsCommand(x) <=> x \in Clis)
    /\ AtDoor(x, "busy") \/ AtDoor(x, "spec") \/ AtDoor(x, "reserve") \/ InGit(x) =>
         \/ config[actor[x].name] = actor[x].snapshot
         \/ config[actor[x].name].by \in Clis

\* It says it of every request.
LEMMA SnapFineFact == SnapshotInv <=> \A x \in Actors : SnapFine(x)
  BY DEF SnapshotInv, TriggerHeld, CommandsAreClis, SnapshotInForce, SnapFine

\* A request that has ended holds nothing and relies on nothing.
LEMMA EndedSnap == ASSUME NEW y \in Actors, actor[y].pc = "ended" PROVE SnapFine(y)
  BY DEF SnapFine, UnderTrigger, Registering, AtDoor, InGit

\* A step of one request, that takes or drops no guard of another's.
LEMMA SnapKept ==
    ASSUME SnapshotInv, NEW x \in Actors, config' = config,
           \A y \in Actors : y # x => actor'[y] = actor[y],
           \/ trigger' = trigger
           \/ trigger = x /\ trigger' = Nobody
           \/ trigger = Nobody /\ trigger' = x,
           SnapFine(x)'
    PROVE  SnapshotInv'
<1>1. ASSUME NEW y \in Actors, y # x PROVE SnapFine(y)'
  <2>1. actor'[y] = actor[y] /\ y # Nobody
    BY <1>1, DoorAssumption DEF Actors
  <2>2. SnapFine(y)
    BY SnapFineFact
  <2> QED
    BY <1>1, <2>1, <2>2 DEF SnapFine, UnderTrigger, Registering, AtDoor, InGit, IsCommand
<1>2. \A y \in Actors : SnapFine(y)'
  BY <1>1
<1> QED
  BY <1>2 DEF SnapshotInv, TriggerHeld, CommandsAreClis, SnapshotInForce, SnapFine

\* It is answered.
LEMMA SnapReplied ==
    ASSUME DoorTypeOK, SnapshotInv, NEW x \in Actors, config' = config,
           NEW answer \in {"accepted", "done", "refused", "lost"}, Reply(x, answer)
    PROVE  SnapshotInv'
<1>1. actor'[x].pc = "ended"
  BY ReplyFact, AnsweredFact DEF DoorTypeOK
<1>2. SnapFine(x)'
  BY <1>1 DEF SnapFine, UnderTrigger, Registering, AtDoor, InGit
<1> QED
  BY <1>2, ReplyFact, SnapKept DEF DoorTypeOK

\* A registration in force stays so unless a command replaces it: whoever else
\* registers holds trigger_lock, and so does whoever has looked.
LEMMA SnapshotNext == RequestInv /\ SnapshotInv /\ [DoorNext]_doorVars => SnapshotInv'
<1> SUFFICES ASSUME RequestInv /\ SnapshotInv, [DoorNext]_doorVars PROVE SnapshotInv'
  OBVIOUS
<1> USE DEF RequestInv
<1>0. \A x \in Actors : SnapFine(x)
  BY SnapFineFact
<1>1. ASSUME NEW x \in Actors, NEW ask \in {"register", "deploy", "push", "command"},
             NEW what \in Asked, Ask(x, ask, what[1], what[2])
      PROVE  SnapshotInv'
  <2>1. SnapFine(x)'
    BY <1>1, AskFact DEF SnapFine, UnderTrigger, Registering, AtDoor, InGit, IsCommand
  <2> QED
    BY <1>1, <2>1, AskFact, SnapKept
<1>2. ASSUME NEW x \in Actors, TurnAway(x) PROVE SnapshotInv'
  BY <1>2, SnapReplied DEF TurnAway, storeVars
<1>3. ASSUME NEW x \in Actors, TakeTrigger(x) PROVE SnapshotInv'
  <2>1. config' = config /\ trigger = Nobody /\ trigger' = x
    BY <1>3 DEF TakeTrigger, storeVars
  <2>2. /\ actor[x].pc = "lock" /\ actor'[x].pc \in {"scan", "read"}
        /\ Kept(actor'[x], actor[x]) /\ \A y \in Actors : y # x => actor'[y] = actor[y]
    BY <1>3, GoFact DEF TakeTrigger, AtDoor, DoorTypeOK, Pcs
  <2>3. SnapFine(x)'
    BY <1>0, <2>1, <2>2 DEF SnapFine, UnderTrigger, Registering, AtDoor, InGit, IsCommand, Kept
  <2> QED
    BY <2>1, <2>2, <2>3, SnapKept
<1>4. ASSUME NEW x \in Actors, NotAPush(x) PROVE SnapshotInv'
  BY <1>4, SnapReplied DEF NotAPush, storeVars
<1>5. ASSUME NEW x \in Actors, Scan(x) PROVE SnapshotInv'
  <2>1. UNCHANGED <<config, trigger>>
    BY <1>5 DEF Scan, storeVars, daemonVars
  <2>2. /\ actor[x].pc = "scan" /\ actor'[x].pc = "insert"
        /\ Kept(actor'[x], actor[x]) /\ \A y \in Actors : y # x => actor'[y] = actor[y]
    BY <1>5, GoFact DEF Scan, AtDoor, DoorTypeOK, Pcs
  <2>3. SnapFine(x)'
    BY <1>0, <2>1, <2>2 DEF SnapFine, UnderTrigger, Registering, AtDoor, InGit, IsCommand, Kept
  <2> QED
    BY <2>1, <2>2, <2>3, SnapKept
<1>6. ASSUME NEW x \in Actors, ScanRefuses(x) PROVE SnapshotInv'
  BY <1>6, SnapReplied DEF ScanRefuses, storeVars
<1>7. ASSUME NEW x \in Actors, Insert(x) PROVE SnapshotInv'
  <2>0. actor[x].pc = "insert" /\ SnapFine(x) /\ x # Nobody
    BY <1>0, <1>7, InsertFact, DoorAssumption DEF Actors
  <2>1. ASSUME NEW y \in Actors, y # x PROVE SnapFine(y)'
    <3>0. actor'[y] = actor[y] /\ SnapFine(y) /\ actor[y] \in Actor /\ y # Nobody
      BY <1>0, <1>7, <2>1, InsertFact, DoorAssumption DEF DoorTypeOK, Actors
    <3>1. actor[y].name \in Names
      BY <3>0 DEF Actor
    <3>2. CASE x \in Clis
      <4>1. \/ config'[actor[y].name] = config[actor[y].name]
            \/ config'[actor[y].name].by \in Clis
        BY <1>7, <3>1, <3>2, InsertFact
      <4>2. trigger' = trigger \/ (trigger = x /\ trigger' = Nobody)
        BY <1>7, InsertFact
      <4> QED
        BY <2>1, <3>0, <4>1, <4>2 DEF SnapFine, UnderTrigger, Registering, AtDoor, InGit, IsCommand
    <3>3. CASE x \notin Clis
      <4>1. trigger = x
        BY <2>0, <3>3 DEF SnapFine, UnderTrigger, Registering, AtDoor
      <4>2. ~UnderTrigger(y)
        BY <2>1, <3>0, <4>1 DEF SnapFine
      <4> QED
        BY <3>0, <4>2 DEF SnapFine, UnderTrigger, Registering, AtDoor, InGit, IsCommand
    <3> QED
      BY <3>2, <3>3
  <2>2. SnapFine(x)'
    <3>1. actor'[x].pc \in {"curl", "ended"}
            /\ (actor'[x].pc = "curl" => Kept(actor'[x], actor[x]))
      BY <1>7, InsertFact, AnsweredFact DEF DoorTypeOK
    <3> QED
      BY <2>0, <3>1 DEF SnapFine, UnderTrigger, Registering, AtDoor, InGit, IsCommand, Kept
  <2>3. \A y \in Actors : SnapFine(y)'
    BY <2>1, <2>2
  <2> QED
    BY <2>3 DEF SnapshotInv, TriggerHeld, CommandsAreClis, SnapshotInForce, SnapFine
<1>8. ASSUME NEW x \in Actors, Read(x) PROVE SnapshotInv'
  <2>1. SnapFine(x)'
    BY <1>0, <1>8, ReadFact DEF SnapFine, UnderTrigger, Registering, AtDoor, InGit, IsCommand
  <2> QED
    BY <1>8, <2>1, ReadFact, SnapKept
<1>9. ASSUME NEW x \in Actors, ReadNothing(x) PROVE SnapshotInv'
  BY <1>9, SnapReplied DEF ReadNothing, storeVars
<1>10. ASSUME NEW x \in Actors, NotBusy(x) PROVE SnapshotInv'
  <2>1. UNCHANGED <<config, trigger>>
    BY <1>10 DEF NotBusy, storeVars, daemonVars
  <2>2. /\ actor[x].pc = "busy" /\ actor'[x].pc \in {"reserve", "spec"}
        /\ Kept(actor'[x], actor[x]) /\ \A y \in Actors : y # x => actor'[y] = actor[y]
    BY <1>10, GoFact DEF NotBusy, AtDoor, DoorTypeOK, Pcs
  <2>3. SnapFine(x)'
    BY <1>0, <2>1, <2>2 DEF SnapFine, UnderTrigger, Registering, AtDoor, InGit, IsCommand, Kept
  <2> QED
    BY <2>1, <2>2, <2>3, SnapKept
<1>11. ASSUME NEW x \in Actors, FoundBusy(x) PROVE SnapshotInv'
  BY <1>11, SnapReplied DEF FoundBusy
<1>12. ASSUME NEW x \in Actors, SpecBad(x) PROVE SnapshotInv'
  BY <1>12, SnapReplied DEF SpecBad
<1>13. ASSUME NEW x \in Actors, SpecGood(x) PROVE SnapshotInv'
  <2>1. actor[x].pc = "spec" /\ config' = config /\ SnapFine(x)
    BY <1>0, <1>13 DEF SpecGood, AtDoor
  <2>2. /\ Kept(actor'[x], actor[x]) /\ \A y \in Actors : y # x => actor'[y] = actor[y]
        /\ \/ actor'[x].pc = "reserve" /\ trigger' = trigger
           \/ actor'[x].pc = "reply" /\ trigger' = Nobody
    BY <1>13, GoFact, AcceptFact DEF SpecGood, DoorTypeOK, Pcs, daemonVars
  <2>3. trigger = x
    BY <2>1 DEF SnapFine, UnderTrigger, AtDoor
  <2>4. SnapFine(x)'
    BY <2>1, <2>2, <2>3 DEF SnapFine, UnderTrigger, Registering, AtDoor, InGit, IsCommand, Kept
  <2> QED
    BY <2>1, <2>2, <2>3, <2>4, SnapKept
<1>14. ASSUME NEW x \in Actors, ReserveBusy(x) PROVE SnapshotInv'
  BY <1>14, SnapReplied DEF ReserveBusy
<1>15. ASSUME NEW x \in Actors, Reserve(x) PROVE SnapshotInv'
  <2>1. trigger = x
    BY <1>0, <1>15, ReserveFact DEF SnapFine, UnderTrigger, AtDoor
  <2>2. SnapFine(x)'
    BY <1>0, <1>15, <2>1, ReserveFact DEF SnapFine, UnderTrigger, Registering, AtDoor, InGit, IsCommand
  <2> QED
    BY <1>15, <2>1, <2>2, ReserveFact, SnapKept
<1>16. ASSUME NEW x \in Actors, GitSucceeds(x) PROVE SnapshotInv'
  <2>1. UNCHANGED <<config, trigger>>
    BY <1>16 DEF GitSucceeds, storeVars, daemonVars
  <2>2. /\ InGit(x) /\ actor'[x].pc \in {"fetch", "reset", "spec"}
        /\ Kept(actor'[x], actor[x]) /\ \A y \in Actors : y # x => actor'[y] = actor[y]
    BY <1>16, GoFact DEF GitSucceeds, AtDoor, DoorTypeOK, Pcs, InGit, AfterGit
  <2>3. SnapFine(x)'
    BY <1>0, <2>1, <2>2 DEF SnapFine, UnderTrigger, Registering, AtDoor, InGit, IsCommand, Kept
  <2> QED
    BY <2>1, <2>2, <2>3, SnapKept
<1>17. ASSUME NEW x \in Actors, GitFails(x) PROVE SnapshotInv'
  BY <1>17, SnapReplied DEF GitFails
<1>18. ASSUME NEW x \in Actors, Told(x) PROVE SnapshotInv'
  BY <1>18, SnapReplied DEF Told, storeVars
<1>19. ASSUME NEW x \in Actors, HandOff(x) PROVE SnapshotInv'
  <2>1. UNCHANGED <<config, trigger>>
    BY <1>19 DEF HandOff, storeVars, daemonVars
  <2>2. /\ actor[x].pc = "curl" /\ actor'[x].pc = "lock"
        /\ Kept(actor'[x], actor[x]) /\ \A y \in Actors : y # x => actor'[y] = actor[y]
    BY <1>19, GoFact DEF HandOff, AtDoor, DoorTypeOK, Pcs
  <2>3. SnapFine(x)'
    BY <1>0, <2>1, <2>2 DEF SnapFine, UnderTrigger, Registering, AtDoor, InGit, IsCommand, Kept
  <2> QED
    BY <2>1, <2>2, <2>3, SnapKept
<1>20. ASSUME NEW x \in Actors, NobodyThere(x) PROVE SnapshotInv'
  <2>1. UNCHANGED <<config, trigger>>
    BY <1>20 DEF NobodyThere, storeVars, daemonVars
  <2>2. /\ actor[x].pc = "curl" /\ actor'[x].pc = "resolve"
        /\ Kept(actor'[x], actor[x]) /\ \A y \in Actors : y # x => actor'[y] = actor[y]
    BY <1>20, GoFact DEF NobodyThere, AtDoor, DoorTypeOK, Pcs
  <2>3. SnapFine(x)'
    BY <1>0, <2>1, <2>2 DEF SnapFine, UnderTrigger, Registering, AtDoor, InGit, IsCommand, Kept
  <2> QED
    BY <2>1, <2>2, <2>3, SnapKept
<1>21. ASSUME NEW x \in Actors, NoSpecFound(x) PROVE SnapshotInv'
  BY <1>21, SnapReplied DEF NoSpecFound, storeVars
<1>22. ASSUME NEW x \in Actors, RunLocally(x) PROVE SnapshotInv'
  <2>1. SnapFine(x)'
    BY <1>0, <1>22, RunLocallyFact, AnsweredFact
       DEF SnapFine, UnderTrigger, Registering, AtDoor, InGit, IsCommand, DoorTypeOK
  <2> QED
    BY <1>22, <2>1, RunLocallyFact, SnapKept
<1>23. ASSUME NEW i \in DOMAIN attempts, AttemptEnds(i) PROVE SnapshotInv'
  <2>1. ASSUME NEW y \in Actors PROVE SnapFine(y)'
    <3>1. actor'[y] = actor[y] \/ actor'[y].pc = "ended"
      BY <1>23, AttemptEndsFact, AnsweredFact DEF DoorTypeOK
    <3>2. UNCHANGED <<config, trigger>> /\ SnapFine(y)
      BY <1>0, <1>23, AttemptEndsFact
    <3> QED
      BY <3>1, <3>2 DEF SnapFine, UnderTrigger, Registering, AtDoor, InGit, IsCommand
  <2> QED
    BY <2>1 DEF SnapshotInv, TriggerHeld, CommandsAreClis, SnapshotInForce, SnapFine
<1>24. CASE DaemonDies
  <2>1. ASSUME NEW y \in Actors PROVE SnapFine(y)'
    <3>0. config' = config /\ SnapFine(y) /\ actor[y] \in Actor
      BY <1>0, <1>24, DaemonDiesFact DEF DoorTypeOK
    <3>. Answered(actor[y], "lost").pc = "ended"
      BY <3>0, AnsweredFact
    <3>1. CASE InDaemon(y)
      <4>1. actor'[y].pc = "ended"
        BY <1>24, <3>1, DaemonDiesFact
      <4> QED
        BY <4>1 DEF SnapFine, UnderTrigger, Registering, AtDoor, InGit
    <3>2. CASE ~InDaemon(y)
      <4>1. ~UnderTrigger(y)
        BY <3>0, <3>2 DEF InDaemon, SnapFine, UnderTrigger, Registering, AtDoor, InGit
      <4>2. actor'[y] = actor[y] \/ actor'[y].pc = "ended"
        BY <1>24, DaemonDiesFact
      <4> QED
        BY <3>0, <4>1, <4>2 DEF SnapFine, UnderTrigger, Registering, AtDoor, InGit, IsCommand
    <3> QED
      BY <3>1, <3>2
  <2> QED
    BY <2>1 DEF SnapshotInv, TriggerHeld, CommandsAreClis, SnapshotInForce, SnapFine
<1>25. CASE DaemonStarts
  BY <1>25 DEF DaemonStarts, SnapshotInv, TriggerHeld, CommandsAreClis, SnapshotInForce,
     UnderTrigger, Registering, AtDoor, InGit, IsCommand
<1>26. CASE UNCHANGED doorVars
  BY <1>26 DEF doorVars, SnapshotInv, TriggerHeld, CommandsAreClis, SnapshotInForce,
     UnderTrigger, Registering, AtDoor, InGit, IsCommand
<1> QED
  BY <1>1, <1>2, <1>3, <1>4, <1>5, <1>6, <1>7, <1>8, <1>9, <1>10, <1>11, <1>12, <1>13, <1>14, <1>15, <1>16, <1>17, <1>18, <1>19, <1>20, <1>21, <1>22, <1>23, <1>24, <1>25, <1>26 DEF DoorNext, Proceed

\* The initial states.
LEMMA DoorInitInv == DoorInit => DoorInv
<1> SUFFICES ASSUME DoorInit PROVE DoorInv
  OBVIOUS
<1>0. actor = [x \in Actors |-> NotAsked] /\ \A x \in Actors : actor[x] = NotAsked
  BY DEF DoorInit
<1>1. DoorTypeOK
  BY <1>0, NotAskedType, DoorAssumption DEF DoorInit, DoorTypeOK, Config, Attempt
<1>2. Known = recorded
  BY DEF DoorInit, Known
<1>3. SlugsDistinct
  BY <1>2 DEF DoorInit, SlugsDistinct
<1>4. NotAsked.id = 0
  BY DEF NotAsked
<1>5. ScanHolds /\ AttemptsKnown
  BY <1>0, NotAskedType DEF DoorInit, ScanHolds, AttemptsKnown, Registering, AtDoor, Admitted
<1>6. StartsOnce /\ RowsOwned
  BY <1>0, <1>4, NotAskedType DEF DoorInit, StartsOnce, RowsOwned, AtDoor, InGit
<1>7. NotStale /\ CommandsSeen
  BY <1>0, NotAskedType DEF DoorInit, NotStale, CommandsSeen, InGit, Actors
<1> QED
  BY <1>1, <1>3, <1>5, <1>6, <1>7 DEF DoorInv, RequestInv, SlugInv

\* What holds of requests, however registrations interleave.
THEOREM RequestInvHolds == DoorSpec => []RequestInv
<1>1. DoorInit => RequestInv
  BY DoorInitInv DEF DoorInv
<1>2. RequestInv /\ [DoorNext]_doorVars => RequestInv'
  BY DoorTypeNext, RowsNext, SeenNext DEF RequestInv
<1> QED
  BY <1>1, <1>2, PTL DEF DoorSpec

\* register_app's promise (store/mod.rs:451-457): where the daemon and a
\* command never register at once, no registration gives two apps one slug.
THEOREM SlugsStayDistinct == ASSUME Apart PROVE DoorSpec => []SlugsDistinct
<1>1. DoorInit => SlugInv
  BY DoorInitInv DEF DoorInv
<1>2. RequestInv /\ SlugInv /\ [DoorNext]_doorVars => SlugInv'
  BY SlugsNext DEF DoorInv, SlugInv
<1>3. SlugInv => SlugsDistinct
  BY DEF SlugInv
<1> QED
  BY <1>1, <1>2, <1>3, RequestInvHolds, PTL DEF DoorSpec

\* One request never starts two attempts, whichever process makes them and
\* whatever answer is lost (daemon_client.rs:9-13).
THEOREM RequestsStartOnce == DoorSpec => []StartsOnce
<1>1. RequestInv => StartsOnce
  BY DEF RequestInv
<1> QED
  BY <1>1, RequestInvHolds, PTL

\* A command is told of an attempt from its own registration or a later one
\* (resolve.rs:19-21).
THEOREM CommandsNeverStale == DoorSpec => []NotStale
<1>1. RequestInv => NotStale
  BY DEF RequestInv
<1> QED
  BY <1>1, RequestInvHolds, PTL

\* And the types.
THEOREM DoorTypes == DoorSpec => []DoorTypeOK
<1>1. RequestInv => DoorTypeOK
  BY DEF RequestInv
<1> QED
  BY <1>1, RequestInvHolds, PTL

LEMMA SnapshotInit == DoorInit => SnapshotInv
BY NotAskedType
   DEF DoorInit, SnapshotInv, TriggerHeld, CommandsAreClis, SnapshotInForce, UnderTrigger,
       Registering, AtDoor, InGit

\* From its first look to its last, a push or a deploy works on the registration
\* in force, unless a command has replaced it (hooks.rs:167-169, api.rs:151-153).
THEOREM SnapshotsStayInForce == DoorSpec => []SnapshotInForce
<1>1. DoorInit => SnapshotInv
  BY SnapshotInit
<1>2. RequestInv /\ SnapshotInv /\ [DoorNext]_doorVars => SnapshotInv'
  BY SnapshotNext
<1>3. SnapshotInv => SnapshotInForce
  BY DEF SnapshotInv
<1> QED
  BY <1>1, <1>2, <1>3, RequestInvHolds, PTL DEF DoorSpec
================================================================================

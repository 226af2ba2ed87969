------------------------------ MODULE EdgesProofs ------------------------------
(***************************************************************************)
(* Proofs about the parts at the daemon's edges: the stage that waits for  *)
(* a deploy's health, for every budget, interval, timeout and cap that fit *)
(* together as the code's do; the notifier, for any feed and any buffer;   *)
(* and the followed log, for any number of lines, restarts and faults.     *)
(***************************************************************************)
EXTENDS MCEdges, EventStreamProofs

------------------------------------------------------------------------------
(* The health check: OnTime and OnPace *)

\* The stage begins within its budget.
LEMMA OnTimeInit == PollInit => OnTime
<1> SUFFICES ASSUME PollInit PROVE OnTime
  OBVIOUS
<1>1. clock = 0 /\ begunAt = 0 /\ poll = "attempt"
  BY DEF PollInit
<1>2. 0 < Budget /\ 0 <= 0 + Timeout /\ 0 <= Budget + Timeout
  BY HealthAssumption
<1>3. wedged \in BOOLEAN /\ ~wedged
  BY Zenon DEF PollInit
<1> QED
  BY <1>1, <1>2, <1>3, HealthAssumption DEF OnTime, CapOnlyIfWedged, Polling

\* Every step of the stage, the container or the clock keeps it on time.
LEMMA OnTimeNext == OnTime /\ [PollNext]_pollVars => OnTime'
<1> SUFFICES ASSUME OnTime, [PollNext]_pollVars PROVE OnTime'
  OBVIOUS
<1> USE HealthAssumption DEF OnTime, CapOnlyIfWedged, Polling
<1>1. CASE Answer
  BY <1>1 DEF Answer, Retry, Sleep
<1>2. CASE CannotRun
  BY <1>2 DEF CannotRun
<1>3. CASE AttemptTimesOut
  BY <1>3 DEF AttemptTimesOut, AttemptDue, Retry, Sleep
<1>4. CASE Wake
  BY <1>4 DEF Wake, WakeDue
<1>5. CASE StageCap
  BY <1>5 DEF StageCap, CapDue
<1>6. CASE Tick
  BY <1>6 DEF Tick, AttemptDue, WakeDue, CapDue
<1>7. CASE HealthChanges
  BY <1>7 DEF HealthChanges
<1>8. CASE Wedge
  BY <1>8 DEF Wedge
<1>9. CASE UNCHANGED pollVars
  BY <1>9 DEF pollVars
<1> QED
  BY <1>1, <1>2, <1>3, <1>4, <1>5, <1>6, <1>7, <1>8, <1>9 DEF PollNext, Stage

\* Without a command beyond cancelling, the stage is over one attempt after its
\* budget, and the hard cap around it never fires.
THEOREM CapForWedgedOnly == PollSpec => []CapOnlyIfWedged
<1>1. OnTime => CapOnlyIfWedged
  BY DEF OnTime
<1> QED
  BY <1>1, OnTimeInit, OnTimeNext, PTL DEF PollSpec

\* One attempt more takes one interval, or one round, more.
LEMMA OneMore ==
  ASSUME NEW n \in Nat \ {0}, NEW k \in Nat
  PROVE  /\ (n + 1 - 1) * k = (n - 1) * k + k /\ n * k = (n - 1) * k + k
         /\ (n - 1) * k \in Nat /\ n * k \in Nat
<1>1. n - 1 \in Nat /\ n + 1 - 1 = n /\ n = (n - 1) + 1
  OBVIOUS
<1>2. \A m \in Nat : (m + 1) * k = m * k + k /\ m * k \in Nat
  OBVIOUS
<1>3. ((n - 1) + 1) * k = (n - 1) * k + k /\ (n - 1) * k \in Nat /\ n * k \in Nat
  BY <1>1, <1>2
<1> QED
  BY <1>1, <1>3

\* Every step keeps the pace.
LEMMA OnPaceNext == OnTime /\ OnPace /\ [PollNext]_pollVars => OnPace'
<1> SUFFICES ASSUME OnTime, OnPace, [PollNext]_pollVars PROVE OnPace'
  OBVIOUS
<1> DEFINE waits == (attempted - 1) * Interval
           rounds == (attempted - 1) * (Timeout + Interval)
<1>1. /\ Budget \in Nat /\ Interval \in Nat /\ Timeout \in Nat /\ Timeout + Interval \in Nat
      /\ clock \in Nat /\ begunAt \in Nat /\ begunAt <= clock
      /\ attempted \in Nat \ {0} /\ heard \in Nat /\ heard <= clock
  BY HealthAssumption DEF OnTime, OnPace
<1>2. /\ waits \in Nat /\ rounds \in Nat
      /\ attempted * Interval = waits + Interval
      /\ attempted * (Timeout + Interval) = rounds + (Timeout + Interval)
      /\ (attempted + 1 - 1) * Interval = waits + Interval
      /\ (attempted + 1 - 1) * (Timeout + Interval) = rounds + (Timeout + Interval)
  BY <1>1, OneMore
<1>3. /\ Polling => waits <= begunAt /\ begunAt < Budget
      /\ poll = "attempt" => begunAt <= rounds /\ (~wedged => clock <= begunAt + Timeout)
      /\ poll = "sleep" => heard = begunAt /\ begunAt + Interval <= rounds + (Timeout + Interval)
  BY <1>2 DEF OnTime, OnPace
<1> HIDE DEF waits, rounds
<1>4. ASSUME Retry, UNCHANGED clock, poll = "attempt", ~wedged PROVE OnPace'
  <2>1. heard' = clock /\ clock' = clock /\ attempted' = attempted
    BY <1>4 DEF Retry, Sleep
  <2>2. waits <= clock /\ waits < Budget
        /\ clock + Interval <= rounds + (Timeout + Interval)
        /\ clock <= rounds + (Timeout + Interval)
    BY <1>1, <1>2, <1>3, <1>4 DEF Polling
  <2>3. CASE clock >= Budget /\ poll' = "failed"
    BY <1>1, <1>2, <2>1, <2>2, <2>3 DEF OnPace, AttemptsFit, Polling, waits
  <2>4. CASE poll' = "sleep" /\ begunAt' = clock
    BY <1>1, <1>2, <2>1, <2>2, <2>4 DEF OnPace, AttemptsFit, Polling, waits
  <2> QED
    BY <1>4, <2>3, <2>4 DEF Retry, Sleep
<1>5. CASE Answer
  <2>1. CASE healthy
    BY <1>1, <1>5, <2>1 DEF Answer, OnPace, AttemptsFit, Polling
  <2> QED
    BY <1>4, <1>5, <2>1 DEF Answer
<1>6. CASE AttemptTimesOut
  BY <1>4, <1>6 DEF AttemptTimesOut, AttemptDue
<1>7. CASE Wake
  <2>1. /\ poll = "sleep" /\ clock = begunAt + Interval
        /\ UNCHANGED <<clock, heard>>
    BY <1>7 DEF Wake, WakeDue
  <2>2. waits < Budget /\ clock <= rounds + (Timeout + Interval) /\ waits + Interval <= clock
        /\ heard = begunAt
    BY <1>1, <1>2, <1>3, <2>1 DEF Polling
  <2>3. CASE clock >= Budget /\ poll' = "failed" /\ UNCHANGED <<begunAt, attempted>>
    BY <1>1, <1>2, <2>1, <2>2, <2>3 DEF OnPace, AttemptsFit, Polling, waits
  <2>4. CASE poll' = "attempt" /\ begunAt' = clock /\ attempted' = attempted + 1
    BY <1>1, <1>2, <2>1, <2>2, <2>4 DEF OnPace, AttemptsFit, Polling
  <2> QED
    BY <1>7, <2>3, <2>4 DEF Wake
<1>8. CASE CannotRun \/ StageCap
  BY <1>1, <1>8 DEF CannotRun, StageCap, OnPace, AttemptsFit, Polling
<1>9. CASE Tick
  BY <1>1, <1>9 DEF Tick, OnPace, AttemptsFit, Polling
<1>10. CASE HealthChanges \/ Wedge \/ UNCHANGED pollVars
  BY <1>10 DEF HealthChanges, Wedge, pollVars, OnPace, AttemptsFit, Polling
<1> QED
  BY <1>5, <1>6, <1>7, <1>8, <1>9, <1>10 DEF PollNext, Stage

\* A stage that gives up has used its budget for attempts: as many as hang for
\* their whole timeout fit in it, no more than one per interval were made, and
\* the last answer is fresh; for any budget, interval and timeout
\* (health.rs:6-9).
THEOREM BudgetIsUsed == PollSpec => []AttemptsFit
<1>1. PollInit => OnPace
  BY HealthAssumption DEF PollInit, OnPace, AttemptsFit, Polling
<1>2. OnPace => AttemptsFit
  BY DEF OnPace
<1> QED
  BY <1>1, <1>2, OnTimeInit, OnTimeNext, OnPaceNext, PTL DEF PollSpec

\* Some number of intervals take at least that many seconds.
LEMMA AtLeastOne ==
  ASSUME NEW n \in Nat \ {0}, NEW k \in Nat \ {0}
  PROVE  n <= (n - 1) * k + k
<1>1. PICK m \in Nat, j \in Nat : n = m + 1 /\ k = j + 1
  <2>1. n - 1 \in Nat /\ k - 1 \in Nat /\ n = (n - 1) + 1 /\ k = (k - 1) + 1
    OBVIOUS
  <2> QED
    BY <2>1
<1>2. m * (j + 1) = m * j + m /\ m * j \in Nat
  OBVIOUS
<1>3. (n - 1) * k = m * (j + 1)
  BY <1>1
<1> QED
  BY <1>1, <1>2, <1>3

\* The three together are inductive.
PollInv == PollTypeOK /\ OnTime /\ OnPace

\* Every step keeps the types: the clock stops at the cap, and there is no more
\* than one attempt a second.
LEMMA PollTypeNext == PollInv /\ [PollNext]_pollVars => PollTypeOK'
<1> SUFFICES ASSUME PollInv, [PollNext]_pollVars PROVE PollTypeOK'
  OBVIOUS
<1>1. /\ Cap \in Nat /\ clock \in Nat /\ clock <= Cap /\ begunAt \in Nat /\ begunAt <= clock
      /\ heard \in Nat /\ heard <= clock
      /\ attempted \in Nat \ {0} /\ attempted <= Cap + 1
      /\ poll \in {"attempt", "sleep", "passed", "failed", "error", "capped"}
  BY HealthAssumption DEF PollInv, PollTypeOK
<1>2. healthy \in BOOLEAN /\ wedged \in BOOLEAN
  BY DEF PollInv, PollTypeOK
<1>3. ASSUME clock' = clock, begunAt' \in {begunAt, clock}, heard' \in {heard, clock},
             attempted' = attempted, healthy' = healthy, wedged' = wedged,
             poll' \in {"attempt", "sleep", "passed", "failed", "error", "capped"}
      PROVE  PollTypeOK'
  <2>1. clock' \in 0..Cap /\ begunAt' \in 0..clock' /\ heard' \in 0..clock'
        /\ attempted' \in 1..(Cap + 1)
    BY <1>1, <1>3
  <2>2. healthy' \in BOOLEAN /\ wedged' \in BOOLEAN
    BY <1>2, <1>3
  <2> QED
    BY <1>3, <2>1, <2>2 DEF PollTypeOK
<1>4. CASE Answer \/ AttemptTimesOut \/ CannotRun \/ StageCap
  BY <1>1, <1>3, <1>4 DEF Answer, AttemptTimesOut, CannotRun, StageCap, Retry, Sleep
<1>5. CASE Wake
  <2>1. CASE attempted' = attempted
    BY <1>1, <1>3, <1>5, <2>1 DEF Wake
  <2>2. CASE attempted' # attempted
    <3>1. /\ poll = "sleep" /\ clock = begunAt + Interval
          /\ poll' = "attempt" /\ begunAt' = clock /\ attempted' = attempted + 1
          /\ UNCHANGED <<clock, heard, healthy, wedged>>
      BY <1>5, <2>2 DEF Wake, WakeDue
    <3>2. (attempted - 1) * Interval <= begunAt /\ (attempted - 1) * Interval \in Nat
      BY <1>1, <3>1, OneMore, HealthAssumption DEF PollInv, OnPace, Polling
    <3>3. attempted <= (attempted - 1) * Interval + Interval
      BY <1>1, AtLeastOne, HealthAssumption
    <3>4. attempted <= clock
      BY <1>1, <3>1, <3>2, <3>3, HealthAssumption
    <3>5. clock' \in 0..Cap /\ begunAt' \in 0..clock' /\ heard' \in 0..clock'
          /\ attempted' \in 1..(Cap + 1)
      BY <1>1, <3>1, <3>4
    <3>6. healthy' \in BOOLEAN /\ wedged' \in BOOLEAN
      BY <1>2, <3>1
    <3> QED
      BY <3>1, <3>5, <3>6 DEF PollTypeOK
  <2> QED
    BY <2>1, <2>2
<1>6. CASE Tick
  <2>1. /\ clock' = clock + 1 /\ clock # Cap
        /\ UNCHANGED <<poll, begunAt, attempted, heard, healthy, wedged>>
    BY <1>6 DEF Tick, CapDue
  <2>2. clock' \in 0..Cap /\ begunAt' \in 0..clock' /\ heard' \in 0..clock'
        /\ attempted' \in 1..(Cap + 1)
    BY <1>1, <2>1
  <2> QED
    BY <1>1, <1>2, <2>1, <2>2 DEF PollTypeOK
<1>7. CASE HealthChanges \/ Wedge
  <2>1. healthy' \in BOOLEAN /\ wedged' \in BOOLEAN
    BY <1>2, <1>7, Zenon DEF HealthChanges, Wedge
  <2>2. UNCHANGED <<clock, poll, begunAt, attempted, heard>>
    BY <1>7 DEF HealthChanges, Wedge
  <2>3. clock' \in 0..Cap /\ begunAt' \in 0..clock' /\ heard' \in 0..clock'
        /\ attempted' \in 1..(Cap + 1)
    BY <1>1, <2>2
  <2> QED
    BY <1>1, <2>1, <2>2, <2>3 DEF PollTypeOK
<1>8. CASE UNCHANGED pollVars
  BY <1>1, <1>3, <1>8 DEF pollVars
<1> QED
  BY <1>4, <1>5, <1>6, <1>7, <1>8 DEF PollNext, Stage

\* The stage begins well, and every step keeps it so.
LEMMA PollBegins == PollInit => PollInv
<1> SUFFICES ASSUME PollInit PROVE PollInv
  OBVIOUS
<1>1. healthy \in BOOLEAN /\ wedged \in BOOLEAN
  BY Zenon DEF PollInit
<1>2. PollTypeOK
  BY <1>1, HealthAssumption DEF PollInit, PollTypeOK
<1>3. OnPace
  BY HealthAssumption DEF PollInit, OnPace, AttemptsFit, Polling
<1> QED
  BY <1>2, <1>3, OnTimeInit DEF PollInv

LEMMA PollInvNext == PollInv /\ [PollNext]_pollVars => PollInv'
BY PollTypeNext, OnTimeNext, OnPaceNext DEF PollInv

------------------------------------------------------------------------------
(* The notifier: BellInv *)

\* The first state, of a notifier that is yet to start or one at rest.
LEMMA BellBegins == BellInit \/ BellRests => BellInv
<1> SUFFICES ASSUME BellInit \/ BellRests PROVE BellInv
  OBVIOUS
<1>1. <<>> \in Seq(Kinds) /\ Len(<<>>) = 0
  BY EmptySeq
<1>2. /\ told = <<>> /\ since = 0 /\ next = 1 /\ bellDeaths = 0
      /\ posts = Nought /\ arrived = Nought
      /\ excuse = [i \in 1..MaxRung |-> "none"]
      /\ bell \in {"starting", "recv"}
  BY DEF BellInit, BellRests
<1>3. told \in Seq(Kinds) /\ Len(told) = 0
  BY <1>1, <1>2
<1>4. /\ posts \in [1..MaxRung -> 0..Tries] /\ arrived \in [1..MaxRung -> 0..Tries]
      /\ excuse \in [1..MaxRung -> Excuses]
      /\ \A i \in 1..MaxRung : posts[i] = 0 /\ arrived[i] = 0 /\ excuse[i] = "none"
  BY <1>2, BellAssumption DEF Nought, Excuses
<1>5. BellTypeOK
  BY <1>3, <1>2, <1>4, BellAssumption DEF BellTypeOK, BellPcs
<1>6. NoSilentMiss
  BY <1>2, <1>4, BellAssumption DEF NoSilentMiss, Listening
<1>7. PostsCounted
  BY <1>2, <1>4, BellAssumption DEF PostsCounted, Listening
<1> QED
  BY <1>5, <1>6, <1>7 DEF BellInv

\* Everything but `told` and its length, which every step but two leaves alone.
LEMMA BellFacts ==
  ASSUME BellInv
  PROVE  /\ Len(told) \in Nat /\ Len(told) <= MaxRung /\ told \in Seq(Kinds)
         /\ since \in Nat /\ since <= Len(told)
         /\ next \in Nat /\ 1 <= next /\ next <= Len(told) + 1
         /\ MaxRung \in Nat /\ Tries \in Nat /\ Tries # 0
         /\ RingCapacity \in Nat /\ RingCapacity # 0
         /\ posts \in [1..MaxRung -> 0..Tries] /\ arrived \in [1..MaxRung -> 0..Tries]
         /\ excuse \in [1..MaxRung -> Excuses]
         /\ bell \in BellPcs
         /\ bell \in {"row", "post", "pause"} => InHand \in 1..MaxRung
BY BellAssumption, LenProperties DEF BellInv, BellTypeOK, PostsCounted, InHand

\* The daemon publishes.
LEMMA EmitKeeps ==
  ASSUME BellInv, NEW kind \in Kinds, Emit(kind)
  PROVE  BellInv'
<1>1. /\ told' \in Seq(Kinds) /\ Len(told') = Len(told) + 1
      /\ \A i \in 1..Len(told) : told'[i] = told[i]
  BY BellFacts, AppendProperties DEF Emit
<1>2. UNCHANGED <<since, bell, next, posts, arrived, excuse, bellDeaths>> /\ Len(told) < MaxRung
  BY DEF Emit
<1>3. BellTypeOK'
  BY <1>1, <1>2, BellFacts DEF BellInv, BellTypeOK
<1>4. PostsCounted'
  BY <1>2 DEF BellInv, PostsCounted, InHand, Listening
<1>5. NoSilentMiss'
  <2>1. \A i \in (since + 1)..(next - 1) : told'[i] = told[i]
    <3>1. \A i \in (since + 1)..(next - 1) : i \in 1..Len(told)
      BY BellFacts
    <3> QED
      BY <1>1, <3>1
  <2>2. \A i \in 1..MaxRung : i + RingCapacity <= Len(told) => i + RingCapacity <= Len(told')
    BY <1>1, BellFacts
  <2> QED
    BY <1>2, <2>1, <2>2 DEF BellInv, NoSilentMiss, Listening, InHand
<1> QED
  BY <1>3, <1>4, <1>5 DEF BellInv

\* The task begins to listen; nothing was posted before.
LEMMA SpawnKeeps ==
  ASSUME BellInv, Spawn
  PROVE  BellInv'
<1>1. /\ bell = "starting" /\ bell' \in {"recv", "off"}
      /\ since' = Len(told) /\ next' = Len(told) + 1
      /\ UNCHANGED <<told, posts, arrived, excuse, bellDeaths>>
  BY DEF Spawn
<1>2. BellTypeOK'
  BY <1>1, BellFacts DEF BellInv, BellTypeOK, BellPcs
<1>3. PostsCounted'
  BY <1>1, BellFacts DEF BellInv, PostsCounted, Listening
<1>4. NoSilentMiss'
  BY <1>1, BellFacts DEF BellInv, NoSilentMiss
<1> QED
  BY <1>2, <1>3, <1>4 DEF BellInv

\* An event comes.
LEMMA HearKeeps ==
  ASSUME BellInv, Hear
  PROVE  BellInv'
<1>1. /\ bell = "recv" /\ next' = next + 1 /\ next <= Len(told)
      /\ bell' = IF IsNotable(told[next]) THEN "row" ELSE "recv"
      /\ UNCHANGED <<told, since, posts, arrived, excuse, bellDeaths>>
  BY BellFacts DEF Hear, Rest, OldestKept
<1>2. told[next] \in Kinds
  BY <1>1, BellFacts, ElementOfSeq
<1>3. InHand' = next /\ next \in 1..MaxRung
  BY <1>1, BellFacts DEF InHand
<1>4. BellTypeOK'
  BY <1>1, BellFacts DEF BellInv, BellTypeOK, BellPcs
<1>5. PostsCounted'
  <2>1. bell' = "row" => since < InHand' /\ excuse[InHand'] = "none" /\ posts[InHand'] = 0
    <3>1. excuse[next] = "none" /\ posts[next] = 0
      BY <1>3, BellFacts DEF BellInv, PostsCounted
    <3>2. since < next
      BY <1>1 DEF BellInv, PostsCounted, Listening
    <3> QED
      BY <1>3, <3>1, <3>2
  <2>2. \A i \in 1..MaxRung :
          /\ arrived[i] <= posts[i]
          /\ i >= next' \/ bell' = "starting" => posts[i] = 0 /\ excuse[i] = "none"
    BY <1>1, BellFacts DEF BellInv, PostsCounted
  <2>3. since < next'
    BY <1>1, BellFacts DEF BellInv, PostsCounted, Listening
  <2> QED
    BY <1>1, <2>1, <2>2, <2>3 DEF PostsCounted
<1>6. NoSilentMiss'
  <2>1. ASSUME NEW i \in (since + 1)..(next' - 1), told[i] # "trace"
        PROVE  arrived[i] > 0 \/ excuse[i] # "none" \/ (i = InHand' /\ bell' = "row")
    <3>1. CASE i = next
      BY <1>1, <1>2, <1>3, <2>1, <3>1 DEF IsNotable, Kinds
    <3>2. CASE i \in (since + 1)..(next - 1)
      BY <1>1, <2>1, <3>2 DEF BellInv, NoSilentMiss, Listening
    <3> QED
      BY <1>1, <3>1, <3>2, BellFacts
  <2> QED
    BY <1>1, <2>1 DEF BellInv, NoSilentMiss
<1> QED
  BY <1>4, <1>5, <1>6 DEF BellInv

\* The ring has dropped what the task had not come to: it says which.
LEMMA OverrunKeeps ==
  ASSUME BellInv, Overrun
  PROVE  BellInv'
<1>1. PICK k : k = OldestKept
  OBVIOUS
<1>2. /\ bell = "recv" /\ next < k /\ next' = k
      /\ UNCHANGED <<told, since, bell, posts, arrived, bellDeaths>>
      /\ excuse' = [i \in DOMAIN excuse |-> IF i \in next..(k - 1) THEN "overrun" ELSE excuse[i]]
  BY <1>1 DEF Overrun
<1>3. k \in Nat /\ k <= Len(told) /\ (k > 1 => k - 1 + RingCapacity <= Len(told)) /\ k > 1
  <2>1. PICK n \in Nat, c \in Nat : n = Len(told) /\ c = RingCapacity /\ c # 0
    BY BellFacts
  <2>2. CASE n > c
    <3>1. k = n - c + 1
      BY <1>1, <2>1, <2>2 DEF OldestKept
    <3>2. k \in Nat /\ k <= n /\ k > 1 /\ k - 1 + c <= n
      BY <2>1, <2>2, <3>1
    <3> QED
      BY <2>1, <3>2
  <2>3. CASE ~(n > c)
    <3>1. k = 1
      BY <1>1, <2>1, <2>3 DEF OldestKept
    <3> QED
      BY <1>2, <3>1, BellFacts
  <2> QED
    BY <2>2, <2>3
<1>4. \A i \in 1..MaxRung :
        excuse'[i] = IF i \in next..(k - 1) THEN "overrun" ELSE excuse[i]
  BY <1>2, BellFacts
<1>5. excuse' \in [1..MaxRung -> Excuses]
  BY <1>2, BellFacts DEF Excuses
<1>6. BellTypeOK'
  BY <1>2, <1>3, <1>5, BellFacts DEF BellInv, BellTypeOK
<1>7. PostsCounted'
  BY <1>2, <1>3, <1>4, BellFacts DEF BellInv, PostsCounted, Listening
<1>8. NoSilentMiss'
  <2>1. ASSUME NEW i \in (since + 1)..(k - 1), told[i] # "trace"
        PROVE  arrived[i] > 0 \/ excuse'[i] # "none"
    <3>1. i \in 1..MaxRung
      BY <1>3, BellFacts
    <3>2. CASE i \in next..(k - 1)
      BY <1>4, <3>1, <3>2
    <3>3. CASE i \in (since + 1)..(next - 1)
      BY <1>2, <1>4, <2>1, <3>1, <3>3, BellFacts DEF BellInv, NoSilentMiss, Listening
    <3> QED
      BY <1>3, <3>2, <3>3, BellFacts
  <2>2. ASSUME NEW i \in 1..MaxRung
        PROVE  /\ excuse'[i] = "overrun" => i + RingCapacity <= Len(told)
               /\ excuse'[i] = "reported" => posts[i] = Tries
    BY <1>3, <1>4, BellFacts DEF BellInv, NoSilentMiss
  <2> QED
    BY <1>2, <2>1, <2>2 DEF NoSilentMiss
<1> QED
  BY <1>6, <1>7, <1>8 DEF BellInv

\* A post begins for the message in hand, with its row or after a pause.
LEMMA PostKeeps ==
  ASSUME BellInv, bell = "row" \/ bell = "pause", Post,
         UNCHANGED <<told, since, next, arrived, excuse, bellDeaths>>
  PROVE  BellInv'
<1>1. PICK i \in 1..MaxRung : i = InHand /\ i = InHand'
  BY BellFacts DEF InHand
<1>2. /\ posts[i] \in Nat /\ posts[i] < Tries /\ arrived[i] <= posts[i] /\ arrived[i] \in Nat
      /\ since < InHand /\ excuse[i] = "none"
  BY <1>1, BellFacts DEF BellInv, PostsCounted
<1>3. /\ bell' = "post" /\ posts'[i] = posts[i] + 1
      /\ \A j \in 1..MaxRung : j # i => posts'[j] = posts[j]
      /\ posts' \in [1..MaxRung -> 0..Tries]
  BY <1>1, <1>2, BellFacts DEF Post, Rest
<1>4. BellTypeOK'
  BY <1>3, BellFacts DEF BellInv, BellTypeOK, BellPcs
<1>5. PostsCounted'
  <2>1. i < next
    BY <1>1, BellFacts DEF InHand
  <2>2. \A j \in 1..MaxRung : /\ arrived[j] <= posts'[j]
                              /\ j >= next => posts'[j] = 0 /\ excuse[j] = "none"
    <3>1. \A j \in 1..MaxRung : j # i =>
            /\ arrived[j] <= posts'[j]
            /\ j >= next => posts'[j] = 0 /\ excuse[j] = "none"
      BY <1>3 DEF BellInv, PostsCounted
    <3>2. arrived[i] <= posts'[i] /\ ~(i >= next)
      BY <1>2, <1>3, <2>1, BellFacts
    <3> QED
      BY <3>1, <3>2
  <2>3. arrived[i] < posts'[i]
    BY <1>2, <1>3
  <2>4. since < next
    BY <1>1, <1>2, <2>1, BellFacts
  <2> QED
    BY <1>1, <1>2, <1>3, <2>2, <2>3, <2>4 DEF PostsCounted
<1>6. NoSilentMiss'
  <2>1. \A j \in 1..MaxRung : excuse[j] = "reported" => posts'[j] = Tries
    BY <1>2, <1>3 DEF BellInv, NoSilentMiss
  <2> QED
    BY <1>1, <1>3, <2>1 DEF BellInv, NoSilentMiss, Listening, InHand
<1> QED
  BY <1>4, <1>5, <1>6 DEF BellInv

\* The message in hand is put down: it has arrived, or there is an excuse.
LEMMA PutDownKeeps ==
  ASSUME BellInv, bell \in {"row", "post"}, bell' = "recv",
         NEW i \in 1..MaxRung, i = InHand,
         arrived' \in [1..MaxRung -> 0..Tries], excuse' \in [1..MaxRung -> Excuses],
         \A j \in 1..MaxRung : j # i => arrived'[j] = arrived[j] /\ excuse'[j] = excuse[j],
         arrived'[i] <= posts[i],
         arrived'[i] > 0 \/ excuse'[i] # "none",
         excuse'[i] # "overrun",
         excuse'[i] = "reported" => posts[i] = Tries,
         UNCHANGED <<told, since, next, posts, bellDeaths>>
  PROVE  BellInv'
<1>1. BellTypeOK'
  BY BellFacts DEF BellInv, BellTypeOK, BellPcs
<1>2. i < next /\ since < i
  BY BellFacts DEF InHand, BellInv, PostsCounted
<1>3. PostsCounted'
  <2>1. \A j \in 1..MaxRung : /\ arrived'[j] <= posts[j]
                              /\ j >= next => posts[j] = 0 /\ excuse'[j] = "none"
    BY <1>2, BellFacts DEF BellInv, PostsCounted
  <2>2. since < next
    BY <1>2, BellFacts
  <2> QED
    BY <2>1, <2>2 DEF PostsCounted
<1>4. NoSilentMiss'
  <2>1. ASSUME NEW j \in (since + 1)..(next - 1), told[j] # "trace"
        PROVE  arrived'[j] > 0 \/ excuse'[j] # "none"
    <3>1. j \in 1..MaxRung
      BY BellFacts
    <3>2. CASE j # i
      BY <2>1, <3>1, <3>2 DEF BellInv, NoSilentMiss, Listening
    <3> QED
      BY <3>2
  <2>2. \A j \in 1..MaxRung : /\ excuse'[j] = "overrun" => j + RingCapacity <= Len(told)
                              /\ excuse'[j] = "reported" => posts[j] = Tries
    BY DEF BellInv, NoSilentMiss
  <2> QED
    BY <2>1, <2>2 DEF NoSilentMiss
<1> QED
  BY <1>1, <1>3, <1>4 DEF BellInv

\* What becomes of the message in hand.
LEMMA DeliveryKeeps ==
  ASSUME BellInv, Row \/ Delivered \/ Fails \/ Again
  PROVE  BellInv'
<1>1. bell \in {"row", "post", "pause"}
  BY DEF Row, Delivered, Fails, Again
<1>2. PICK i \in 1..MaxRung : i = InHand
  BY <1>1, BellFacts
<1>3. /\ posts[i] \in 0..Tries /\ arrived[i] \in 0..Tries /\ arrived[i] <= posts[i]
      /\ excuse[i] = "none" /\ Tries \in Nat
      /\ bell = "post" => arrived[i] < posts[i]
  BY <1>1, <1>2, BellFacts DEF BellInv, PostsCounted
<1>4. ASSUME Arrives, bell = "post"
      PROVE  /\ arrived' \in [1..MaxRung -> 0..Tries] /\ arrived'[i] = arrived[i] + 1
             /\ \A j \in 1..MaxRung : j # i => arrived'[j] = arrived[j]
             /\ arrived'[i] <= posts[i] /\ arrived'[i] > 0
  BY <1>2, <1>3, <1>4, BellFacts DEF Arrives
<1>5. ASSUME NEW e \in Excuses, excuse' = [excuse EXCEPT ![InHand] = e]
      PROVE  /\ excuse' \in [1..MaxRung -> Excuses] /\ excuse'[i] = e
             /\ \A j \in 1..MaxRung : j # i => excuse'[j] = excuse[j]
  BY <1>2, <1>5, BellFacts
<1>6. CASE Row
  <2>1. bell = "row" /\ UNCHANGED <<told, since, next, arrived, bellDeaths>>
    BY <1>6 DEF Row
  <2>2. CASE Post /\ UNCHANGED excuse
    BY <2>1, <2>2, PostKeeps
  <2>3. CASE Rest("recv") /\ excuse' = [excuse EXCEPT ![InHand] = "no row"] /\ UNCHANGED posts
    <3>1. "no row" \in Excuses
      BY DEF Excuses
    <3>2. /\ excuse' \in [1..MaxRung -> Excuses] /\ excuse'[i] = "no row"
          /\ \A j \in 1..MaxRung : j # i => excuse'[j] = excuse[j]
      BY <1>5, <2>3, <3>1
    <3>3. bell' = "recv" /\ arrived' \in [1..MaxRung -> 0..Tries]
      BY <2>1, <2>3, BellFacts DEF Rest
    <3> QED
      BY <1>2, <1>3, <2>1, <2>3, <3>2, <3>3, PutDownKeeps
  <2> QED
    BY <1>6, <2>2, <2>3 DEF Row
<1>7. CASE Delivered
  <2>1. /\ bell = "post" /\ bell' = "recv" /\ Arrives
        /\ UNCHANGED <<told, since, next, posts, excuse, bellDeaths>>
    BY <1>7 DEF Delivered, Rest
  <2>2. excuse' \in [1..MaxRung -> Excuses] /\ excuse'[i] = "none"
    BY <1>3, <2>1, BellFacts
  <2> QED
    BY <1>2, <1>4, <2>1, <2>2, PutDownKeeps
<1>8. CASE Fails
  <2>1. bell = "post" /\ UNCHANGED <<told, since, next, posts, bellDeaths>>
    BY <1>8 DEF Fails
  <2>2. /\ arrived' \in [1..MaxRung -> 0..Tries] /\ arrived'[i] <= posts[i]
        /\ \A j \in 1..MaxRung : j # i => arrived'[j] = arrived[j]
    BY <1>3, <1>4, <1>8, <2>1, BellFacts DEF Fails
  <2>3. CASE posts[i] < Tries
    <3>1. bell' = "pause" /\ UNCHANGED excuse
      BY <1>2, <1>8, <2>3 DEF Fails, Rest
    <3>2. BellTypeOK'
      BY <2>1, <2>2, <3>1 DEF BellInv, BellTypeOK, BellPcs
    <3>3. \A j \in 1..MaxRung : arrived'[j] <= posts[j]
      BY <2>2 DEF BellInv, PostsCounted
    <3>4. PostsCounted'
      BY <1>2, <2>1, <2>3, <3>1, <3>3 DEF BellInv, PostsCounted, Listening, InHand
    <3>5. \A j \in 1..MaxRung : arrived[j] > 0 => arrived'[j] > 0
      <4>1. arrived'[i] = arrived[i] \/ arrived'[i] > 0
        BY <1>4, <1>8, <2>1 DEF Fails
      <4> QED
        BY <2>2, <4>1
    <3>6. \A j \in (since + 1)..(next - 1) : j \in 1..MaxRung
      BY BellFacts
    <3>7. NoSilentMiss'
      BY <1>2, <2>1, <3>1, <3>5, <3>6 DEF BellInv, NoSilentMiss, Listening, InHand
    <3> QED
      BY <3>2, <3>4, <3>7 DEF BellInv
  <2>4. CASE ~(posts[i] < Tries)
    <3>1. bell' = "recv" /\ excuse' = [excuse EXCEPT ![InHand] = "reported"]
      BY <1>2, <1>8, <2>4 DEF Fails, Rest
    <3>2. "reported" \in Excuses
      BY DEF Excuses
    <3>3. /\ excuse' \in [1..MaxRung -> Excuses] /\ excuse'[i] = "reported"
          /\ \A j \in 1..MaxRung : j # i => excuse'[j] = excuse[j]
      BY <1>5, <3>1, <3>2
    <3>4. posts[i] = Tries
      BY <1>3, <2>4
    <3> QED
      BY <1>2, <2>1, <2>2, <3>1, <3>3, <3>4, PutDownKeeps
  <2> QED
    BY <2>3, <2>4
<1>9. CASE Again
  BY <1>9, PostKeeps DEF Again
<1> QED
  BY <1>6, <1>7, <1>8, <1>9

\* The daemon dies; the next one starts over.
LEMMA BellDiesKeeps ==
  ASSUME BellInv, BellDies
  PROVE  BellInv'
<1>1. <<>> \in Seq(Kinds) /\ Len(<<>>) = 0
  BY EmptySeq
<1>2. told' \in Seq(Kinds) /\ Len(told') = 0
  BY <1>1 DEF BellDies
<1>3. /\ since' = 0 /\ next' = 1 /\ bell' = "starting"
      /\ posts' \in [1..MaxRung -> 0..Tries] /\ arrived' \in [1..MaxRung -> 0..Tries]
      /\ excuse' \in [1..MaxRung -> Excuses]
      /\ \A i \in 1..MaxRung : posts'[i] = 0 /\ arrived'[i] = 0 /\ excuse'[i] = "none"
  BY BellAssumption DEF BellDies, Nought, Excuses, Rest
<1>4. bellDeaths' \in 0..MaxBellDeaths
  <2>1. bellDeaths \in 0..MaxBellDeaths /\ bellDeaths < MaxBellDeaths
        /\ bellDeaths' = bellDeaths + 1
    BY DEF BellDies, BellInv, BellTypeOK
  <2> QED
    BY <2>1, BellAssumption
<1>5. BellTypeOK'
  BY <1>2, <1>3, <1>4, BellAssumption DEF BellTypeOK, BellPcs
<1>6. NoSilentMiss'
  BY <1>3, BellAssumption DEF NoSilentMiss, Listening
<1>7. PostsCounted'
  BY <1>3, BellAssumption DEF PostsCounted, Listening
<1> QED
  BY <1>5, <1>6, <1>7 DEF BellInv

\* Every step keeps BellInv.
LEMMA BellInvNext == BellInv /\ [BellNext]_bellVars => BellInv'
<1> SUFFICES ASSUME BellInv, [BellNext]_bellVars PROVE BellInv'
  OBVIOUS
<1>1. CASE UNCHANGED bellVars
  BY <1>1 DEF bellVars, BellInv, BellTypeOK, NoSilentMiss, PostsCounted, Listening, InHand
<1> QED
  BY <1>1, EmitKeeps, SpawnKeeps, HearKeeps, OverrunKeeps, DeliveryKeeps, BellDiesKeeps
  DEF BellNext, Ring

\* The notifier misses nothing silently: a failed stage or an outcome it has
\* passed has arrived, or there is an excuse that is true of it, for any ring,
\* any number of tries, and however often the daemon dies (webhook.rs:220-225).
THEOREM MissesAreSaid == BellSpec => []NoSilentMiss
<1>1. BellInv => NoSilentMiss
  BY DEF BellInv
<1> QED
  BY <1>1, BellBegins, BellInvNext, PTL DEF BellSpec

------------------------------------------------------------------------------
(* The followed log: TailInv *)

\* A tab with no page.
LEMMA NoTabType ==
  /\ NoTab \in Tab /\ NoTab.shows = "nothing"
  /\ \A f \in BOOLEAN, s \in {"loading", "not found", "store error", "closed"} :
       LET rec == [NoTab EXCEPT !.follow = f, !.shows = s]
       IN rec \in Tab /\ rec.shows = s
  /\ [NoTab EXCEPT !.shows = "closed"] \in Tab
  /\ [NoTab EXCEPT !.shows = "closed"].shows = "closed"
<1>1. PICK zero \in 0..MaxLines : zero = 0
  BY TailAssumption
<1>2. NoTab = [shows |-> "nothing", follow |-> FALSE, source |-> "none", server |-> "none",
               pos |-> zero, last |-> zero]
  BY <1>1 DEF NoTab
<1>3. NoTab \in Tab /\ NoTab.shows = "nothing"
  BY <1>2 DEF Tab
<1> HIDE DEF NoTab
<1> QED
  BY <1>3 DEF Tab

\* What a step of one tab turns its page into.
LEMMA TurnKeeps ==
  ASSUME TailInv, NEW t \in Tabs, NEW rec \in Tab, Turn(t, rec),
         UNCHANGED <<registered, readable, journal>>,
         orphans' \in [Tabs -> 0..MaxMishaps], mishaps' \in 0..MaxMishaps,
         \A u \in Tabs : orphans'[u] <= mishaps',
         rec.shows = "loading" => registered,
         rec.shows \in {"no output", "following"} => readable /\ registered
  PROVE  TailInv'
<1>1. tab' = [tab EXCEPT ![t] = rec] /\ tab \in [Tabs -> Tab]
  BY DEF Turn, TailInv, TailTypeOK
<1>2. TailTypeOK'
  BY <1>1 DEF TailInv, TailTypeOK
<1>3. \A u \in Tabs : tab'[u] = IF u = t THEN rec ELSE tab[u]
  BY <1>1
<1> QED
  BY <1>2, <1>3 DEF TailInv, UnreadableIsSaid, Shows

\* A mishap is counted, and no connection is lost that is not one.
LEMMA FaultCounts ==
  ASSUME TailInv, Fault \/ UNCHANGED mishaps
  PROVE  /\ mishaps \in Nat /\ mishaps' \in 0..MaxMishaps /\ mishaps' >= mishaps
         /\ Fault => mishaps' = mishaps + 1
         /\ \A u \in Tabs : orphans[u] <= mishaps'
         /\ orphans \in [Tabs -> 0..MaxMishaps]
<1>1. /\ mishaps \in 0..MaxMishaps /\ MaxMishaps \in Nat
      /\ orphans \in [Tabs -> 0..MaxMishaps] /\ \A u \in Tabs : orphans[u] <= mishaps
  BY TailAssumption DEF TailInv, TailTypeOK
<1>2. mishaps' \in 0..MaxMishaps /\ mishaps' >= mishaps /\ (Fault => mishaps' = mishaps + 1)
  BY <1>1 DEF Fault
<1> QED
  BY <1>1, <1>2

\* Every step of a tab, its connection or what is left of one.
LEMMA TabKeeps ==
  ASSUME TailInv, NEW t \in Tabs,
         Visit(t) \/ Served(t) \/ Deadline(t) \/ Leave(t) \/ HalfDead(t) \/ OrphanEnds(t)
  PROVE  TailInv'
<1>1. PICK r \in Tab : r = tab[t]
  BY DEF TailInv, TailTypeOK
<1>2. /\ r.shows = "loading" => registered
      /\ r.shows \in {"no output", "following"} => readable /\ registered
  BY <1>1 DEF TailInv, UnreadableIsSaid, Shows
<1>3. journal \in 0..MaxLines /\ MaxLines \in Nat /\ Backlog \in Nat /\ 0 \in 0..MaxLines
  BY TailAssumption DEF TailInv, TailTypeOK
<1>4. [NoTab EXCEPT !.shows = "closed"] \in Tab
      /\ [NoTab EXCEPT !.shows = "closed"].shows = "closed"
  BY NoTabType
<1>5. Ended(r) \in Tab /\ Ended(r).shows = r.shows
  <2>1. PICK src \in {"none", "connecting", "open"} :
          src = IF r.source = "open" THEN "connecting" ELSE r.source
    BY DEF Tab
  <2>2. PICK zero \in 0..MaxLines : zero = 0
    BY <1>3
  <2>3. Ended(r) = [r EXCEPT !.server = "none", !.pos = zero, !.source = src]
    BY <2>1, <2>2 DEF Ended, Tab
  <2> QED
    BY <2>3 DEF Tab
<1>6. ASSUME NEW rec \in Tab, Turn(t, rec), Fault \/ UNCHANGED mishaps,
             UNCHANGED <<registered, readable, journal, orphans>>,
             rec.shows = "loading" => registered,
             rec.shows \in {"no output", "following"} => readable /\ registered
      PROVE  TailInv'
  <2>1. /\ orphans' \in [Tabs -> 0..MaxMishaps] /\ mishaps' \in 0..MaxMishaps
        /\ \A u \in Tabs : orphans'[u] <= mishaps'
    BY <1>6, FaultCounts
  <2> QED
    BY <1>6, <2>1, TurnKeeps
<1>7. CASE Visit(t)
  <2>1. PICK follow \in BOOLEAN, s \in {"loading", "not found", "store error"} :
          /\ Turn(t, [NoTab EXCEPT !.follow = follow, !.shows = s])
          /\ s = "loading" => registered
          /\ Fault \/ UNCHANGED mishaps
          /\ UNCHANGED <<registered, readable, journal, orphans>>
    BY <1>7 DEF Visit
  <2>2. PICK rec : rec = [NoTab EXCEPT !.follow = follow, !.shows = s]
    OBVIOUS
  <2>3. rec \in Tab /\ rec.shows = s
    BY <2>2, NoTabType
  <2> QED
    BY <1>6, <2>1, <2>2, <2>3
<1>8. CASE PageFails(t)
  <2>1. PICK rec : rec = [r EXCEPT !.shows = "log error"]
    OBVIOUS
  <2>2. rec \in Tab /\ rec.shows = "log error"
    BY <2>1 DEF Tab
  <2> QED
    BY <1>1, <1>6, <1>8, <2>1, <2>2 DEF PageFails
<1>9. CASE Page(t)
  <2>1. r.shows = "loading" /\ readable /\ registered
    BY <1>1, <1>2, <1>9 DEF Page, Shows, TailSucceeds
  <2>2. CASE r.follow
    <3>1. PICK rec : rec = [r EXCEPT !.shows = "following", !.source = "connecting"]
      OBVIOUS
    <3>2. rec \in Tab /\ rec.shows = "following"
      BY <3>1 DEF Tab
    <3> QED
      BY <1>1, <1>6, <1>9, <2>1, <2>2, <3>1, <3>2 DEF Page
  <2>3. CASE ~r.follow
    <3>1. PICK s \in {"no output", "lines"} : s = IF journal = 0 THEN "no output" ELSE "lines"
      OBVIOUS
    <3>2. PICK rec : rec = [r EXCEPT !.shows = s, !.last = journal]
      OBVIOUS
    <3>3. rec \in Tab /\ rec.shows = s
      BY <1>3, <3>1, <3>2 DEF Tab
    <3> QED
      BY <1>1, <1>6, <1>9, <2>1, <2>3, <3>1, <3>2, <3>3 DEF Page
  <2> QED
    BY <2>2, <2>3
<1>10. CASE Connect(t)
  <2>1. PICK rec : rec = [r EXCEPT !.server = "preflight"]
    OBVIOUS
  <2>2. rec \in Tab /\ rec.shows = r.shows
    BY <2>1 DEF Tab
  <2> QED
    BY <1>1, <1>2, <1>6, <1>10, <2>1, <2>2 DEF Connect
<1>11. CASE FollowFails(t)
  <2>1. PICK rec : rec = [r EXCEPT !.server = "none"]
    OBVIOUS
  <2>2. rec \in Tab /\ rec.shows = r.shows
    BY <2>1 DEF Tab
  <2> QED
    BY <1>1, <1>2, <1>6, <1>11, <2>1, <2>2 DEF FollowFails
<1>12. CASE Follow(t)
  <2>1. PICK k \in 0..MaxLines : k = Skipped
    <3>1. journal > Backlog => journal - Backlog \in 0..MaxLines
      BY <1>3
    <3>2. Skipped \in 0..MaxLines
      BY <1>3, <3>1 DEF Skipped
    <3> QED
      BY <3>2
  <2>2. PICK rec : rec = [r EXCEPT !.server = "open", !.source = "open", !.pos = k]
    OBVIOUS
  <2>3. rec \in Tab /\ rec.shows = r.shows
    BY <2>2 DEF Tab
  <2> QED
    BY <1>1, <1>2, <1>6, <1>12, <2>1, <2>2, <2>3 DEF Follow
<1>13. CASE SendLine(t)
  <2>1. PICK k \in 0..MaxLines : k = r.pos + 1
    <3>1. r.pos < journal /\ r.pos \in 0..MaxLines
      BY <1>1, <1>13 DEF SendLine, Tab
    <3>2. r.pos + 1 \in 0..MaxLines
      BY <1>3, <3>1
    <3> QED
      BY <3>2
  <2>2. PICK rec : rec = [r EXCEPT !.pos = k, !.last = k]
    OBVIOUS
  <2>3. rec \in Tab /\ rec.shows = r.shows
    BY <2>2 DEF Tab
  <2> QED
    BY <1>1, <1>2, <1>6, <1>13, <2>1, <2>2, <2>3 DEF SendLine
<1>14. CASE Deadline(t)
  BY <1>1, <1>2, <1>5, <1>6, <1>14 DEF Deadline
<1>15. CASE Leave(t)
  BY <1>4, <1>6, <1>15 DEF Leave
<1>16. CASE HalfDead(t)
  <2>1. /\ Fault /\ UNCHANGED <<registered, readable, journal>>
        /\ orphans' = [orphans EXCEPT ![t] = @ + 1]
    BY <1>16 DEF HalfDead
  <2>2. /\ mishaps \in Nat /\ mishaps' = mishaps + 1 /\ mishaps' \in 0..MaxMishaps
        /\ orphans \in [Tabs -> 0..MaxMishaps] /\ \A u \in Tabs : orphans[u] <= mishaps
    BY <2>1, FaultCounts DEF TailInv
  <2>3. /\ orphans' \in [Tabs -> 0..MaxMishaps] /\ \A u \in Tabs : orphans'[u] <= mishaps'
    <3>1. orphans[t] + 1 \in 0..MaxMishaps /\ orphans[t] + 1 <= mishaps'
      <4>1. PICK o \in 0..MaxMishaps : o = orphans[t] /\ o <= mishaps
        BY <2>2
      <4>2. o + 1 \in 0..MaxMishaps /\ o + 1 <= mishaps'
        BY <2>2, <4>1, TailAssumption
      <4> QED
        BY <4>1, <4>2
    <3> QED
      BY <2>1, <2>2, <3>1
  <2>4. PICK rec \in Tab : Turn(t, rec) /\ rec.shows \in {r.shows, "closed"}
    BY <1>1, <1>4, <1>5, <1>16 DEF HalfDead
  <2> QED
    BY <1>2, <2>1, <2>2, <2>3, <2>4, TurnKeeps
<1>17. CASE OrphanEnds(t)
  <2>1. /\ UNCHANGED <<registered, readable, journal, tab, mishaps>> /\ orphans[t] > 0
        /\ orphans' = [orphans EXCEPT ![t] = @ - 1]
    BY <1>17 DEF OrphanEnds
  <2>2. /\ mishaps \in Nat /\ MaxMishaps \in Nat
        /\ orphans \in [Tabs -> 0..MaxMishaps] /\ \A u \in Tabs : orphans[u] <= mishaps
    BY TailAssumption DEF TailInv, TailTypeOK
  <2>3. orphans[t] - 1 \in 0..MaxMishaps /\ orphans[t] - 1 <= mishaps
    BY <2>1, <2>2
  <2>4. orphans' \in [Tabs -> 0..MaxMishaps] /\ \A u \in Tabs : orphans'[u] <= mishaps
    BY <2>1, <2>2, <2>3
  <2> QED
    BY <2>1, <2>4 DEF TailInv, TailTypeOK, UnreadableIsSaid, Shows
<1> QED
  BY <1>7, <1>8, <1>9, <1>10, <1>11, <1>12, <1>13, <1>14, <1>15, <1>16, <1>17 DEF Served

\* No page is open at first.
LEMMA TailBegins == TailInit => TailInv
<1> SUFFICES ASSUME TailInit PROVE TailInv
  OBVIOUS
<1>1. 0 \in 0..MaxLines /\ 0 \in 0..MaxMishaps
  BY TailAssumption
<1>2. TailTypeOK
  <2>1. tab \in [Tabs -> Tab] /\ orphans \in [Tabs -> 0..MaxMishaps]
    BY <1>1, NoTabType DEF TailInit
  <2>2. registered \in BOOLEAN /\ readable \in BOOLEAN
    BY DEF TailInit
  <2> QED
    BY <1>1, <2>1, <2>2 DEF TailInit, TailTypeOK
<1>3. \A t \in Tabs : tab[t].shows = "nothing" /\ orphans[t] <= mishaps
  <2>1. PICK n \in Tab : n = NoTab /\ n.shows = "nothing"
    BY NoTabType
  <2>2. \A t \in Tabs : tab[t] = n /\ orphans[t] = 0
    BY <2>1 DEF TailInit
  <2> QED
    BY <2>1, <2>2 DEF TailInit
<1> QED
  BY <1>2, <1>3 DEF TailInv, UnreadableIsSaid, Shows

\* Every step keeps TailInv.
LEMMA TailInvNext == TailInv /\ [TailNext]_tailVars => TailInv'
<1> SUFFICES ASSUME TailInv, [TailNext]_tailVars PROVE TailInv'
  OBVIOUS
<1>1. CASE RegisterApp
  BY <1>1 DEF RegisterApp, TailInv, TailTypeOK, UnreadableIsSaid, Shows
<1>2. CASE LogLine
  <2>1. journal' \in 0..MaxLines
    BY <1>2, TailAssumption DEF LogLine, TailInv, TailTypeOK
  <2> QED
    BY <1>2, <2>1 DEF LogLine, TailInv, TailTypeOK, UnreadableIsSaid, Shows
<1>3. CASE UNCHANGED tailVars
  BY <1>3 DEF tailVars, TailInv, TailTypeOK, UnreadableIsSaid, Shows
<1> QED
  BY <1>1, <1>2, <1>3, TabKeeps DEF TailNext

\* A page that is silent about its log is of one that can be read, for any
\* number of tabs, lines and lost connections (pages.rs:240-246).
THEOREM SilenceIsHonest == TailSpec => []UnreadableIsSaid
<1>1. TailInv => UnreadableIsSaid
  BY DEF TailInv
<1> QED
  BY <1>1, TailBegins, TailInvNext, PTL DEF TailSpec

------------------------------------------------------------------------------
(* The parts side by side *)

\* A step of one part is a step of that part and leaves the others alone.
LEMMA PartsApart ==
  ASSUME [EdgesNext]_edgesVars
  PROVE  /\ part' = part
         /\ [Next]_vars /\ [PollNext]_pollVars /\ [BellNext]_bellVars /\ [TailNext]_tailVars
<1>1. CASE StreamStep
  <2>1. Streams /\ Next
    BY <1>1 DEF StreamStep, Next, Write, View
  <2> QED
    BY <2>1 DEF Streams
<1>2. CASE PollStep
  <2>1. Polls /\ PollNext
    BY <1>2 DEF PollStep, PollNext, Stage
  <2> QED
    BY <2>1 DEF Polls
<1>3. CASE BellStep
  <2>1. Rings /\ BellNext
    BY <1>3 DEF BellStep, BellNext, Ring
  <2> QED
    BY <2>1 DEF Rings
<1>4. CASE TailStep
  <2>1. Tails /\ TailNext
    BY <1>4 DEF TailStep, TailNext, Served
  <2> QED
    BY <2>1 DEF Tails
<1>5. CASE UNCHANGED edgesVars
  BY <1>5 DEF edgesVars
<1> QED
  BY <1>1, <1>2, <1>3, <1>4, <1>5 DEF EdgesNext

\* Whichever part moves, nothing is missed without a word of it: no notable
\* event, and no line of a journal (webhook.rs:220-225, pages.rs:240-246).
THEOREM MissesAreNeverSilent == EdgesSpec => []NothingMissedSilently
<1>1. EdgesInit => BellInv /\ TailInv
  BY BellBegins, TailBegins DEF EdgesInit, TailRests
<1>2. BellInv /\ TailInv /\ [EdgesNext]_edgesVars => (BellInv /\ TailInv)'
  BY PartsApart, BellInvNext, TailInvNext
<1>3. BellInv /\ TailInv => NothingMissedSilently
  BY DEF BellInv, TailInv, NothingMissedSilently
<1> QED
  BY <1>1, <1>2, <1>3, PTL DEF EdgesSpec

\* What all the parts keep, whichever of them moves; the clock, only while it is
\* the stage's.
EdgesKept ==
    /\ StreamInv /\ BellInv /\ TailInv
    /\ part = "poll" => PollInv

\* Whichever part moves, its inductive invariant holds, for any sizes, budgets,
\* bounds and numbers of deploys, viewers, tabs and faults.
THEOREM EdgesHold == EdgesSpec => []EdgesInv
<1>1. EdgesInit => EdgesKept
  <2> SUFFICES ASSUME EdgesInit PROVE EdgesKept
    OBVIOUS
  <2>1. Init /\ (BellInit \/ BellRests) /\ TailInit /\ (part = "poll" => PollInit)
    BY DEF EdgesInit, StreamRests, TailRests
  <2> QED
    BY <2>1, StreamBegins, BellBegins, TailBegins, PollBegins DEF EdgesKept
<1>2. EdgesKept /\ [EdgesNext]_edgesVars => EdgesKept'
  BY PartsApart, StreamInvNext, BellInvNext, TailInvNext, PollInvNext DEF EdgesKept
<1>3. EdgesKept => EdgesInv
  BY DEF EdgesKept, EdgesInv, PollInv
<1> QED
  BY <1>1, <1>2, <1>3, PTL DEF EdgesSpec
==============================================================================

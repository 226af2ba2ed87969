------------------------------ MODULE HostProofs ------------------------------
(***************************************************************************)
(* Proofs about the parts of the host that MCHost puts side by side: the   *)
(* images and the checkout they are built from, the vault, and the agents' *)
(* tools, for any number of attempts, names, commands and lines; then all  *)
(* six together, with what WorkloadProofs and FrontDoorProofs show of the  *)
(* other three.                                                            *)
(***************************************************************************)
EXTENDS MCHost, WorkloadProofs, FrontDoorProofs, SequenceTheorems, TLAPS

------------------------------------------------------------------------------
(* Detect and build: ImagesInv *)

\* Init establishes the invariant.
LEMMA ImagesInitInv == ImagesInit => ImagesInv
  BY ImagesAssumption
  DEF ImagesInit, ImagesInv, ImagesTypeOK, Tag, Attempted, RunsLastGood, OneAtATime,
      HeadHolds, PlanHolds, HostHolds, Built, Stands, OnHost

\* Every step keeps it: the steps before the host is touched, which the lock
\* and the operator's orderliness keep off a plan once made; the steps on the
\* host, which are one attempt's; and what happens around them.
LEMMA ImagesInvNext ==
    ASSUME Orderly, ImagesInv, [ImagesNext]_imageVars
    PROVE  ImagesInv'
<1> USE ImagesAssumption
    DEF ImagesInv, ImagesTypeOK, Tag, Attempted, RunsLastGood, OneAtATime, HeadHolds,
        PlanHolds, HostHolds, Built, Stands, Goes, SameHost, OnHost
<1>1. ASSUME NEW x \in Deploys, Occupy(x) PROVE ImagesInv'
  BY <1>1 DEF Occupy, Taken
<1>2. ASSUME NEW x \in Deploys, Pull(x) PROVE ImagesInv'
  BY <1>2 DEF Pull
<1>3. ASSUME NEW x \in Deploys, Previous(x) PROVE ImagesInv'
  BY <1>3 DEF Previous
<1>4. ASSUME NEW x \in Deploys, Detect(x) PROVE ImagesInv'
  BY <1>4 DEF Detect
<1>5. ASSUME NEW x \in Deploys, Build(x) PROVE ImagesInv'
  BY <1>5 DEF Build
<1>6. ASSUME NEW x \in Deploys, FailsEarly(x) PROVE ImagesInv'
  BY <1>6 DEF FailsEarly
<1>7. ASSUME NEW x \in Deploys, Apply(x) PROVE ImagesInv'
  BY <1>7 DEF Apply, Install
<1>8. ASSUME NEW x \in Deploys, ApplyFails(x) PROVE ImagesInv'
  BY <1>8 DEF ApplyFails
<1>9. ASSUME NEW x \in Deploys, Healthy(x) PROVE ImagesInv'
  BY <1>9 DEF Healthy
<1>10. ASSUME NEW x \in Deploys, Unhealthy(x) PROVE ImagesInv'
  BY <1>10 DEF Unhealthy
<1>11. ASSUME NEW x \in Deploys, Undo(x) PROVE ImagesInv'
  BY <1>11 DEF Undo, Install
<1>12. CASE RunsAgain
  BY <1>12 DEF RunsAgain
<1>13. CASE OperatorPulls
  BY <1>13 DEF OperatorPulls, InUse
<1>14. CASE BuildByHand
  BY <1>14 DEF BuildByHand
<1>15. CASE UNCHANGED imageVars
  BY <1>15 DEF imageVars
<1> QED
  BY <1>1, <1>2, <1>3, <1>4, <1>5, <1>6, <1>7, <1>8, <1>9, <1>10, <1>11, <1>12, <1>13,
     <1>14, <1>15 DEF ImagesNext

\* With an orderly operator: an image is of the commit it is named after, and
\* the container runs the last good one whenever no attempt has the host,
\* after any number of pushes, failures and rollbacks (build.rs:6-10,
\* run.rs:349-367).
THEOREM LastGoodRuns == ASSUME Orderly PROVE ImagesSpec => []RunsLastGood
<1>1. ImagesInit => ImagesInv
  BY ImagesInitInv
<1>2. ImagesInv /\ [ImagesNext]_imageVars => ImagesInv'
  BY ImagesInvNext
<1>3. ImagesInv => RunsLastGood
  BY DEF ImagesInv
<1> QED
  BY <1>1, <1>2, <1>3, PTL DEF ImagesSpec

------------------------------------------------------------------------------
(* The vault *)

\* SecretsKept is inductive, on top of the types.
SecretsInv == SecretsTypeOK /\ SecretsKept

\* No secret is set at first.
LEMMA SecretsInitInv == SecretsInit => SecretsInv
<1> SUFFICES ASSUME SecretsInit PROVE SecretsInv
  OBVIOUS
<1>1. Nothing \in Command
  BY SecretsAssumption DEF Nothing, Command
<1> QED
  BY <1>1, SecretsAssumption
  DEF SecretsInit, SecretsInv, SecretsTypeOK, SecretsKept

\* Every command's step keeps it; a name leaves the vault only into the hands
\* of a set that has not created it yet, or for lost.
LEMMA SecretsInvNext ==
    ASSUME SecretsInv, [SecretsNext]_secretVars
    PROVE  SecretsInv'
<1>0. Nothing \in Command /\ Nothing.pc = "idle"
  BY SecretsAssumption DEF Nothing, Command
<1> USE <1>0, SecretsAssumption
    DEF SecretsInv, SecretsTypeOK, SecretsKept, Command, In, Leave, Replacing
<1>1. ASSUME NEW c \in Commands, NEW n \in SecretNames, Use(c, n) PROVE SecretsInv'
  BY <1>1 DEF Use
<1>2. ASSUME NEW c \in Commands, SetRemoves(c) PROVE SecretsInv'
  BY <1>2 DEF SetRemoves
<1>3. ASSUME NEW c \in Commands, SetCreates(c) PROVE SecretsInv'
  BY <1>3 DEF SetCreates
<1>4. ASSUME NEW c \in Commands, Removes(c) PROVE SecretsInv'
  BY <1>4 DEF Removes
<1>5. ASSUME NEW c \in Commands, EnsureAll(c) PROVE SecretsInv'
  BY <1>5 DEF EnsureAll, Listed
<1>6. ASSUME NEW c \in Commands, Breaks(c) PROVE SecretsInv'
  BY <1>6 DEF Breaks
<1>7. CASE UNCHANGED secretVars
  BY <1>7 DEF secretVars
<1> QED
  BY <1>1, <1>2, <1>3, <1>4, <1>5, <1>6, <1>7 DEF SecretsNext

\* A secret once set is missing only while a set is between rm and create, or
\* after a removal or a set that broke there; and no deploy is refused for one
\* that is missing otherwise (secrets/mod.rs:10-44, 84-96).
THEOREM SecretsStayKept == SecretsSpec => []SecretsKept
<1>1. SecretsInit => SecretsInv
  BY SecretsInitInv
<1>2. SecretsInv /\ [SecretsNext]_secretVars => SecretsInv'
  BY SecretsInvNext
<1>3. SecretsInv => SecretsKept
  BY DEF SecretsInv
<1> QED
  BY <1>1, <1>2, <1>3, PTL DEF SecretsSpec

------------------------------------------------------------------------------
(* The agents' tools: McpInv *)

\* Numbers the steps below need.
LEMMA Sums ==
    /\ 0 <= 1
    /\ \A n, m \in Nat : n \in 1..m /\ n # m => n < m
    /\ \A m \in Nat : \A n \in 1..m : n \in Nat
    /\ \A n \in 0..MaxOutages : n < MaxOutages => n + 1 \in 0..MaxOutages
<1>1. 0 <= 1
  OBVIOUS
<1>2. \A n, m \in Nat : n \in 1..m /\ n # m => n < m
  OBVIOUS
<1>3. \A n \in 0..MaxOutages : n < MaxOutages => n + 1 \in 0..MaxOutages
  BY McpAssumption
<1> QED
  BY <1>1, <1>2, <1>3

\* The verdict on a line: an answer for what is due one, or a call; and never an
\* answer that only a call has.
LEMMA VerdictType ==
    ASSUME NEW m \in Messages
    PROVE  /\ Verdict(m) \in (Answers \ {"tool result", "tool error", "retry"})
                                \cup {"nothing", "call"}
           /\ Verdict(m) = "nothing" <=> ~Due(m)
<1>1. ReplyTo(m) \in (Answers \ {"tool result", "tool error", "retry"}) \cup {"call"}
  BY DEF ReplyTo, Answers
<1>2. "nothing" \notin Answers /\ "parse error" \in Answers
  BY DEF Answers
<1> QED
  BY <1>1, <1>2 DEF Verdict, Silent, Due

\* Lines answered in order, one line more.
InOrder(s) == \A j, k \in DOMAIN s : j < k => s[j].line < s[k].line

Spoken == Seq([line : 1..MaxMessages, answer : Answers])

Speaks(s, t, i, a) ==
    /\ t \in Spoken /\ InOrder(t)
    /\ {t[k].line : k \in DOMAIN t} = {s[k].line : k \in DOMAIN s} \cup {i}
    /\ \A k \in DOMAIN t : \/ k \in DOMAIN s /\ t[k] = s[k]
                           \/ t[k].line = i /\ t[k].answer = a

LEMMA OneMoreAnswer ==
    ASSUME NEW s \in Spoken, InOrder(s), NEW i \in 1..MaxMessages, NEW a \in Answers, NEW t,
           \A k \in DOMAIN s : s[k].line < i,
           t = Append(s, [line |-> i, answer |-> a])
    PROVE  Speaks(s, t, i, a)
<1> USE DEF Spoken
<1> PICK one \in [line : 1..MaxMessages, answer : Answers] : one = [line |-> i, answer |-> a]
  OBVIOUS
<1>0. one.line = i /\ one.answer = a
  OBVIOUS
<1>1. t = Append(s, one)
  OBVIOUS
<1>2. t \in Seq([line : 1..MaxMessages, answer : Answers]) /\ Len(t) = Len(s) + 1
      /\ DOMAIN t = 1..(Len(s) + 1) /\ DOMAIN s = 1..Len(s)
  BY <1>1
<1>3. t[Len(s) + 1] = one /\ \A k \in 1..Len(s) : t[k] = s[k]
  BY <1>1
<1>4. Len(s) \in Nat
  OBVIOUS
<1>5. \A k \in DOMAIN t : (k \in DOMAIN s /\ t[k] = s[k]) \/ (k = Len(s) + 1 /\ t[k] = one)
  BY <1>2, <1>3, <1>4
<1>6. InOrder(t)
  <2> SUFFICES ASSUME NEW j \in DOMAIN t, NEW k \in DOMAIN t, j < k
               PROVE  t[j].line < t[k].line
    BY DEF InOrder
  <2>1. j \in DOMAIN s /\ t[j] = s[j]
    BY <1>2, <1>4, <1>5
  <2>2. CASE k \in DOMAIN s /\ t[k] = s[k]
    BY <2>1, <2>2 DEF InOrder
  <2>3. CASE t[k] = one
    BY <2>1, <2>3, <1>0
  <2> QED
    BY <2>2, <2>3, <1>5
<1>7. {t[k].line : k \in DOMAIN t} = {s[k].line : k \in DOMAIN s} \cup {i}
  <2>1. DOMAIN s \subseteq DOMAIN t /\ Len(s) + 1 \in DOMAIN t
    BY <1>2, <1>4
  <2> QED
    BY <2>1, <1>2, <1>3, <1>5, <1>0
<1> QED
  BY <1>0, <1>2, <1>5, <1>6, <1>7 DEF Speaks

\* The types that the steps need, as numbers.
LEMMA McpTypes ==
    ASSUME McpTypeOK
    PROVE  /\ stdin \in Seq(Messages) /\ Len(stdin) \in Nat /\ Len(stdin) <= MaxMessages
           /\ taken \in Nat /\ taken <= Len(stdin) /\ taken <= MaxMessages
           /\ taken > 0 => taken \in 1..MaxMessages /\ taken \in 1..taken
           /\ begun \in [1..MaxMessages -> Nat]
           /\ stdout \in Seq([line : 1..MaxMessages, answer : Answers])
<1>1. stdin \in Seq(Messages) /\ Len(stdin) <= MaxMessages /\ taken \in 0..Len(stdin)
      /\ begun \in [1..MaxMessages -> Nat]
      /\ stdout \in Seq([line : 1..MaxMessages, answer : Answers])
  BY DEF McpTypeOK
<1>2. Len(stdin) \in Nat
  BY <1>1, LenProperties
<1>3. taken \in Nat /\ taken <= Len(stdin) /\ taken <= MaxMessages
  BY <1>1, <1>2, McpAssumption
<1>4. taken > 0 => taken \in 1..MaxMessages /\ taken \in 1..taken
  BY <1>3, McpAssumption
<1> QED
  BY <1>1, <1>2, <1>3, <1>4

\* The loop has read nothing yet.
LEMMA McpBegins == McpInit => McpInv
<1> SUFFICES ASSUME McpInit PROVE McpInv
  OBVIOUS
<1>1. stdin = <<>> /\ stdout = <<>> /\ taken = 0 /\ outages = 0 /\ request = "none"
      /\ mcp = "probing"
  BY DEF McpInit
<1>2. Len(<<>>) = 0 /\ DOMAIN stdout = {} /\ 1..0 = {}
  BY <1>1
<1>3. McpTypeOK
  <2> PICK silent \in Seq([line : 1..MaxMessages, answer : Answers]) : silent = <<>>
    BY EmptySeq, Zenon
  <2> PICK empty \in Seq(Messages) : empty = <<>>
    BY EmptySeq, Zenon
  <2>1. stdin = empty /\ stdout = silent
    BY <1>1
  <2>2. stdin \in Seq(Messages) /\ stdout \in Seq([line : 1..MaxMessages, answer : Answers])
    BY <2>1
  <2>3. Len(stdin) = 0 /\ Len(stdin) <= MaxMessages /\ taken \in 0..Len(stdin)
        /\ outages \in 0..MaxOutages
    BY <1>1, <1>2, McpAssumption
  <2>4. begun \in [1..MaxMessages -> Nat]
    BY DEF McpInit
  <2>5. /\ eof \in BOOLEAN /\ serving \in BOOLEAN
        /\ mcp \in {"probing", "reading", "calling", "exited"}
        /\ era \in {"undetermined", "legacy"}
        /\ request \in {"none", "curl", "accepted", "refused", "lost"}
    BY DEF McpInit
  <2> QED
    BY <2>2, <2>3, <2>4, <2>5 DEF McpTypeOK
<1>4. OneAnswerEach
  BY <1>1, <1>2 DEF OneAnswerEach, LinesAnswered
<1>5. ToolsTellTruth
  BY <1>2 DEF ToolsTellTruth
<1>6. CallInHand
  BY <1>1, McpAssumption DEF CallInHand, McpInit
<1> QED
  BY <1>3, <1>4, <1>5, <1>6 DEF McpInv

\* The client writes.
LEMMA WritesKeeps ==
    ASSUME McpInv, NEW m \in Messages, Writes(m)
    PROVE  McpInv'
<1> USE DEF Writes, hostVars
<1>1. stdin \in Seq(Messages) /\ taken \in 0..Len(stdin) /\ Len(stdin) \in Nat
  BY DEF McpInv, McpTypeOK
<1>2. stdin' \in Seq(Messages) /\ Len(stdin') = Len(stdin) + 1
      /\ \A i \in 1..Len(stdin) : stdin'[i] = stdin[i]
  BY <1>1
<1>3. McpTypeOK'
  BY <1>1, <1>2, McpAssumption DEF McpInv, McpTypeOK
<1>4. \A i \in 1..taken : stdin'[i] = stdin[i]
  BY <1>1, <1>2
<1>5. taken' = taken /\ stdout' = stdout /\ begun' = begun /\ mcp' = mcp /\ request' = request
  OBVIOUS
<1>6. OneAnswerEach'
  BY <1>4, <1>5 DEF McpInv, OneAnswerEach, LinesAnswered, OnCall
<1>7. \A k \in DOMAIN stdout : stdout[k].line \in 1..taken
  BY DEF McpInv, OneAnswerEach, LinesAnswered
<1>8. ToolsTellTruth'
  BY <1>4, <1>5, <1>7 DEF McpInv, ToolsTellTruth
<1>9. taken > 0 => taken \in 1..taken
  BY <1>1
<1>10. CallInHand'
  BY <1>4, <1>5, <1>9 DEF McpInv, CallInHand
<1> QED
  BY <1>3, <1>6, <1>8, <1>10 DEF McpInv

\* What reads no line and answers none, and begins nothing.
LEMMA AroundKeeps ==
    ASSUME McpInv, Closes \/ GoesDown \/ ComesUp \/ Probe \/ Leaves \/ UNCHANGED mcpVars
    PROVE  McpInv'
<1> USE DEF Closes, GoesDown, ComesUp, Probe, Leaves, clientVars, hostVars, mcpVars
<1>1. UNCHANGED <<stdin, taken, stdout, begun, era>>
  OBVIOUS
<1>2. McpTypeOK'
  <2>1. McpTypeOK
    BY DEF McpInv
  <2>2. outages' \in 0..MaxOutages
    <3>1. outages \in 0..MaxOutages
      BY <2>1 DEF McpTypeOK
    <3>2. outages' = outages \/ (outages < MaxOutages /\ outages' = outages + 1)
      OBVIOUS
    <3> QED
      BY <3>1, <3>2, Sums, Zenon
  <2>3. /\ eof' \in BOOLEAN /\ serving' \in BOOLEAN
        /\ mcp' \in {"probing", "reading", "calling", "exited"}
    BY <2>1 DEF McpTypeOK
  <2>4. request' \in {"none", "curl", "accepted", "refused", "lost"}
    BY <2>1 DEF McpTypeOK
  <2> QED
    BY <2>1, <2>2, <2>3, <2>4, <1>1 DEF McpTypeOK
<1>3. mcp = "calling" <=> mcp' = "calling"
  OBVIOUS
<1>4. request = request' \/ (request \in {"accepted", "refused"} /\ request' = "lost")
  OBVIOUS
<1>5. OneAnswerEach' /\ ToolsTellTruth'
  <2>1. \A i : OnCall(i)' <=> OnCall(i)
    BY <1>1, <1>3 DEF OnCall
  <2>2. LinesAnswered' = LinesAnswered
    BY <1>1 DEF LinesAnswered
  <2>3. {i \in 1..taken : Due(stdin[i]) /\ ~OnCall(i)}'
        = {i \in 1..taken : Due(stdin[i]) /\ ~OnCall(i)}
    BY <2>1, <1>1
  <2> QED
    BY <2>2, <2>3, <1>1 DEF McpInv, OneAnswerEach, ToolsTellTruth
<1>6. CallInHand
  BY DEF McpInv
<1>7. CallInHand'
  <2>1. CASE request' = request
    BY <2>1, <1>1, <1>3, <1>6 DEF CallInHand
  <2>2. CASE request \in {"accepted", "refused"} /\ request' = "lost"
    <3>1. request = "refused" => begun[taken] <= 1
      BY <1>6 DEF CallInHand
    <3> QED
      BY <2>2, <3>1, <1>1, <1>3, <1>6 DEF CallInHand
  <2> QED
    BY <2>1, <2>2, <1>4
<1> QED
  BY <1>2, <1>5, <1>7 DEF McpInv

\* The loop takes a line.
LEMMA TakeKeeps ==
    ASSUME McpInv, Take
    PROVE  McpInv'
<1> DEFINE v == Verdict(NextLine)
           now == taken + 1
<1>1. stdin \in Seq(Messages) /\ taken \in Nat /\ taken < Len(stdin) /\ Len(stdin) <= MaxMessages
      /\ Len(stdin) \in Nat
  BY McpTypes DEF McpInv, Take
<1>2. now \in 1..Len(stdin) /\ now \in 1..MaxMessages /\ now \in Nat /\ taken < now
  BY <1>1, McpAssumption
<1>3. NextLine \in Messages /\ NextLine = stdin[now]
  BY <1>1, <1>2 DEF NextLine
<1>4. /\ v \in (Answers \ {"tool result", "tool error", "retry"}) \cup {"nothing", "call"}
      /\ v = "nothing" <=> ~Due(stdin[now])
  BY <1>3, VerdictType
<1>5. /\ mcp = "reading" /\ taken' = now /\ UNCHANGED <<stdin, eof, begun, serving, outages>>
      /\ era' = IF v = "initialized" THEN "legacy" ELSE era
      /\ IF v = "call" THEN mcp' = "calling" /\ request' = "curl" ELSE UNCHANGED <<mcp, request>>
      /\ IF v \in {"nothing", "call"} THEN UNCHANGED stdout
         ELSE stdout' = Append(stdout, [line |-> now, answer |-> v])
  BY DEF Take, Says, clientVars, hostVars
<1> HIDE DEF v, now
<1>6. /\ LinesAnswered = {i \in 1..taken : Due(stdin[i])}
      /\ \A i \in 1..MaxMessages : i > taken => begun[i] = 0
      /\ begun[now] = 0
  <2>1. \A i \in 1..MaxMessages : i > taken => begun[i] = 0
    BY DEF McpInv, CallInHand
  <2> QED
    BY <2>1, <1>2, <1>5 DEF McpInv, OneAnswerEach, OnCall
<1>7. \A k \in DOMAIN stdout : stdout[k].line \in 1..taken /\ stdout[k].line < now
  <2>1. \A k \in DOMAIN stdout : stdout[k].line \in 1..taken
    BY <1>6 DEF LinesAnswered
  <2> QED
    BY <2>1, <1>1, <1>2
<1>8. 1..now = (1..taken) \cup {now} /\ now \notin 1..taken
  BY <1>1 DEF now
<1>9. stdout \in Seq([line : 1..MaxMessages, answer : Answers]) /\ InOrder(stdout)
  BY DEF McpInv, McpTypeOK, OneAnswerEach, InOrder
<1>10. CallInHand'
  <2>1. \A i \in 1..MaxMessages : i > now => i > taken
    BY <1>1, <1>2
  <2>2. request = "none"
    BY <1>5 DEF McpInv, CallInHand, McpTypeOK
  <2>3. v = "call" => Due(stdin[now])
    BY <1>4
  <2> QED
    BY <2>1, <2>2, <2>3, <1>2, <1>5, <1>6 DEF CallInHand
<1>11. CASE v \in {"nothing", "call"}
  <2>1. McpTypeOK'
    BY <1>2, <1>5, <1>11 DEF McpInv, McpTypeOK
  <2>2. LinesAnswered' = {i \in 1..now : Due(stdin[i]) /\ ~OnCall(i)'}
    <3>1. LinesAnswered' = LinesAnswered
      BY <1>5, <1>11 DEF LinesAnswered
    <3>2. CASE v = "nothing"
      <4>1. ~Due(stdin[now]) /\ mcp' = "reading"
        BY <3>2, <1>4, <1>5
      <4> QED
        BY <3>1, <4>1, <1>6, <1>8 DEF OnCall
    <3>3. CASE v = "call"
      <4>1. mcp' = "calling"
        BY <3>3, <1>5
      <4> QED
        BY <3>1, <4>1, <1>5, <1>6, <1>8 DEF OnCall
    <3> QED
      BY <3>2, <3>3, <1>11
  <2>3. OneAnswerEach'
    BY <2>2, <1>5, <1>11 DEF McpInv, OneAnswerEach
  <2>4. ToolsTellTruth'
    BY <1>5, <1>11 DEF McpInv, ToolsTellTruth
  <2> QED
    BY <2>1, <2>3, <2>4, <1>10 DEF McpInv
<1>12. CASE v \notin {"nothing", "call"}
  <2>1. v \in Answers \ {"tool result", "tool error", "retry"}
    BY <1>4, <1>12
  <2>2. stdout' = Append(stdout, [line |-> now, answer |-> v])
    BY <1>5, <1>12
  <2>3. Speaks(stdout, stdout', now, v)
    <3>1. v \in Answers /\ \A k \in DOMAIN stdout : stdout[k].line < now
      BY <2>1, <1>7
    <3> QED
      BY <3>1, <2>2, <1>2, <1>9, OneMoreAnswer DEF Spoken
  <2>4. McpTypeOK'
    BY <2>3, <1>2, <1>5, <1>12 DEF McpInv, McpTypeOK, Speaks, Spoken
  <2>5. LinesAnswered' = {i \in 1..now : Due(stdin[i]) /\ ~OnCall(i)'}
    <3>1. LinesAnswered' = LinesAnswered \cup {now}
      BY <2>3 DEF LinesAnswered, Speaks
    <3>2. Due(stdin[now]) /\ mcp' = "reading"
      BY <1>4, <1>5, <1>12
    <3> QED
      BY <3>1, <3>2, <1>6, <1>8 DEF OnCall
  <2>6. OneAnswerEach'
    BY <2>3, <2>5, <1>5 DEF OneAnswerEach, InOrder, Speaks
  <2>7. ToolsTellTruth'
    <3> SUFFICES ASSUME NEW k \in DOMAIN stdout'
                 PROVE  /\ begun[stdout'[k].line] <= 1
                        /\ stdin[stdout'[k].line].tool = "deploy" /\ stdout'[k].answer = "tool result"
                           => begun[stdout'[k].line] = 1
                        /\ stdout'[k].answer \notin {"tool result", "tool error"}
                           => begun[stdout'[k].line] = 0
      BY <1>5 DEF ToolsTellTruth
    <3>1. CASE k \in DOMAIN stdout /\ stdout'[k] = stdout[k]
      BY <3>1 DEF McpInv, ToolsTellTruth
    <3>2. CASE stdout'[k].line = now /\ stdout'[k].answer = v
      <4>1. begun[stdout'[k].line] = 0 /\ stdout'[k].answer # "tool result"
        BY <3>2, <2>1, <1>6
      <4> QED
        BY <4>1, Sums, Zenon
    <3> QED
      BY <3>1, <3>2, <2>3 DEF Speaks
  <2> QED
    BY <2>4, <2>6, <2>7, <1>10 DEF McpInv
<1> QED
  BY <1>11, <1>12

\* The daemon takes the call in hand: no answer names its line yet.
LEMMA HandledKeeps ==
    ASSUME McpInv, Handled
    PROVE  McpInv'
<1>1. /\ request = "curl" /\ UNCHANGED <<stdin, eof, taken, mcp, era, stdout, serving, outages>>
      /\ \/ /\ request' = "accepted"
            /\ begun' = [begun EXCEPT ![taken] =
                            IF stdin[taken].tool = "deploy" THEN @ + 1 ELSE @]
         \/ request' = "refused" /\ begun' = begun
  BY DEF Handled, clientVars
<1>2. mcp = "calling" /\ taken \in 1..MaxMessages /\ begun \in [1..MaxMessages -> Nat]
      /\ begun[taken] = 0 /\ taken \in Nat
  BY <1>1, McpTypes DEF McpInv, CallInHand
<1>3. /\ begun' \in [1..MaxMessages -> Nat]
      /\ \A i \in 1..MaxMessages : i # taken => begun'[i] = begun[i]
      /\ begun'[taken] \in {0, 1}
      /\ request' = "accepted" /\ stdin[taken].tool = "deploy" => begun'[taken] = 1
      /\ request' = "refused" => begun'[taken] = 0
      /\ request' \in {"accepted", "refused"}
  <2>1. CASE request' = "refused" /\ begun' = begun
    BY <2>1, <1>2
  <2>2. CASE /\ request' = "accepted"
             /\ begun' = [begun EXCEPT ![taken] =
                             IF stdin[taken].tool = "deploy" THEN @ + 1 ELSE @]
    <3>1. PICK n \in {0, 1} : /\ n = IF stdin[taken].tool = "deploy" THEN 1 ELSE 0
      OBVIOUS
    <3>2. begun' = [begun EXCEPT ![taken] = n]
      BY <2>2, <3>1, <1>2
    <3>3. n \in Nat
      BY <3>1
    <3> QED
      BY <2>2, <3>1, <3>2, <3>3, <1>2
  <2> QED
    BY <2>1, <2>2, <1>1
<1>4. McpTypeOK'
  BY <1>1, <1>3 DEF McpInv, McpTypeOK
<1>5. OneAnswerEach'
  BY <1>1 DEF McpInv, OneAnswerEach, LinesAnswered, OnCall
<1>6. \A k \in DOMAIN stdout : stdout[k].line # taken /\ stdout[k].line \in 1..MaxMessages
  <2>1. \A k \in DOMAIN stdout : stdout[k].line \in {i \in 1..taken : ~OnCall(i)}
    BY DEF McpInv, OneAnswerEach, LinesAnswered
  <2>2. \A k \in DOMAIN stdout : stdout[k].line # taken
    BY <2>1, <1>2 DEF OnCall
  <2> QED
    BY <2>1, <2>2, <1>2, McpAssumption
<1>7. ToolsTellTruth'
  BY <1>1, <1>3, <1>6 DEF McpInv, ToolsTellTruth
<1>8. CallInHand'
  <2>1. \A i \in 1..MaxMessages : i > taken => begun[i] = 0 /\ i # taken
    BY <1>2 DEF McpInv, CallInHand
  <2> QED
    BY <2>1, <1>1, <1>2, <1>3 DEF McpInv, CallInHand
<1> QED
  BY <1>4, <1>5, <1>7, <1>8 DEF McpInv

\* The answer to the call in hand.
LEMMA ConcludesKeeps ==
    ASSUME McpInv, Replied \/ CallFails \/ Unreachable
    PROVE  McpInv'
<1>1. PICK a \in {"tool result", "tool error", "retry"} :
        /\ Concludes(a)
        /\ a = "tool result" => request = "accepted"
        /\ a = "tool error" => request \in {"refused", "lost"}
        /\ a = "retry" => request = "curl"
  BY DEF Replied, CallFails, Unreachable
<1>2. request \in {"curl", "accepted", "refused", "lost"}
  BY <1>1
<1>3. /\ UNCHANGED <<stdin, eof, taken, era, begun, serving, outages>>
      /\ mcp' = "reading" /\ request' = "none"
      /\ stdout' = Append(stdout, [line |-> taken, answer |-> a])
  BY <1>1 DEF Concludes, Says, clientVars, hostVars
<1>4. /\ mcp = "calling" /\ taken \in 1..MaxMessages /\ taken \in 1..taken /\ Due(stdin[taken])
      /\ taken \in Nat
  BY <1>2, McpTypes DEF McpInv, CallInHand
<1>5. LinesAnswered = {i \in 1..taken : Due(stdin[i]) /\ i # taken}
  BY <1>4 DEF McpInv, OneAnswerEach, OnCall
<1>6. \A k \in DOMAIN stdout : stdout[k].line < taken
  <2> SUFFICES ASSUME NEW k \in DOMAIN stdout PROVE stdout[k].line < taken
    OBVIOUS
  <2>1. stdout[k].line \in 1..taken /\ stdout[k].line # taken
    BY <1>5 DEF LinesAnswered
  <2>2. stdout[k].line \in Nat
    BY <2>1, <1>4, Sums, Zenon
  <2> QED
    BY <2>1, <2>2, <1>4, Sums, Zenon
<1>7. stdout \in Seq([line : 1..MaxMessages, answer : Answers]) /\ InOrder(stdout) /\ a \in Answers
  BY DEF McpInv, McpTypeOK, OneAnswerEach, InOrder, Answers
<1>8. Speaks(stdout, stdout', taken, a)
  BY <1>3, <1>4, <1>6, <1>7, OneMoreAnswer DEF Spoken
<1>9. McpTypeOK'
  BY <1>3, <1>8 DEF McpInv, McpTypeOK, Speaks, Spoken
<1>10. LinesAnswered' = {i \in 1..taken : Due(stdin[i])}
  BY <1>4, <1>5, <1>8 DEF LinesAnswered, Speaks
<1>11. OneAnswerEach'
  BY <1>3, <1>8, <1>10 DEF OneAnswerEach, InOrder, OnCall, Speaks
<1>12. /\ begun[taken] <= 1
       /\ stdin[taken].tool = "deploy" /\ a = "tool result" => begun[taken] = 1
       /\ a \notin {"tool result", "tool error"} => begun[taken] = 0
  <2>1. /\ request \in {"curl", "refused"} => begun[taken] = 0
        /\ request \in {"accepted", "lost"} => begun[taken] <= 1
        /\ request = "accepted" /\ stdin[taken].tool = "deploy" => begun[taken] = 1
    BY DEF McpInv, CallInHand
  <2>2. CASE request \in {"curl", "refused"}
    <3>1. begun[taken] = 0 /\ a # "tool result"
      BY <2>1, <2>2, <1>1
    <3> QED
      BY <3>1, Sums, Zenon
  <2>3. CASE request \in {"accepted", "lost"}
    BY <2>1, <2>3, <1>1
  <2> QED
    BY <2>2, <2>3, <1>2
<1>13. ToolsTellTruth'
  <2> SUFFICES ASSUME NEW k \in DOMAIN stdout'
               PROVE  /\ begun[stdout'[k].line] <= 1
                      /\ stdin[stdout'[k].line].tool = "deploy" /\ stdout'[k].answer = "tool result"
                         => begun[stdout'[k].line] = 1
                      /\ stdout'[k].answer \notin {"tool result", "tool error"}
                         => begun[stdout'[k].line] = 0
    BY <1>3 DEF ToolsTellTruth
  <2>1. CASE k \in DOMAIN stdout /\ stdout'[k] = stdout[k]
    BY <2>1 DEF McpInv, ToolsTellTruth
  <2>2. CASE stdout'[k].line = taken /\ stdout'[k].answer = a
    BY <2>2, <1>12
  <2> QED
    BY <2>1, <2>2, <1>8 DEF Speaks
<1>14. CallInHand'
  BY <1>3 DEF McpInv, CallInHand
<1> QED
  BY <1>9, <1>11, <1>13, <1>14 DEF McpInv

LEMMA McpInvNext ==
  ASSUME McpInv, [McpNext]_mcpVars
  PROVE  McpInv'
<1>1. CASE \E m \in Messages : Writes(m)
  BY <1>1, WritesKeeps
<1>2. CASE Closes \/ GoesDown \/ ComesUp \/ Probe \/ Leaves \/ UNCHANGED mcpVars
  BY <1>2, AroundKeeps
<1>3. CASE Take
  BY <1>3, TakeKeeps
<1>4. CASE Handled
  BY <1>4, HandledKeeps
<1>5. CASE Replied \/ CallFails \/ Unreachable
  BY <1>5, ConcludesKeeps
<1> QED
  BY <1>1, <1>2, <1>3, <1>4, <1>5 DEF McpNext

\* McpInv in every reachable state.
LEMMA McpInvHolds == McpSpec => []McpInv
BY McpBegins, McpInvNext, PTL DEF McpSpec

\* However many lines, calls and outages: what has been answered is every
\* request read, but for the call in hand, once and in order (lib.rs:72,
\* rpc.rs:11-12).
THEOREM EachAnsweredOnce == McpSpec => []OneAnswerEach
<1>1. McpInv => OneAnswerEach
  BY DEF McpInv
<1> QED
  BY <1>1, McpInvHolds, PTL

\* And an agent that is told to retry has begun no deploy, one that has a
\* result one (daemon.rs:28-31).
THEOREM RetryIsSafe == McpSpec => []ToolsTellTruth
<1>1. McpInv => ToolsTellTruth
  BY DEF McpInv
<1> QED
  BY <1>1, McpInvHolds, PTL

------------------------------------------------------------------------------
(* Side by side: HostInv *)

\* What MCHost's host with both apps up takes for granted.
HostGiven ==
    /\ Web \in Apps /\ x1 \in Texts
    /\ MaxRuns > 0 /\ MaxFaults > 0 /\ MaxCrashes > 0

\* Every part's invariant all the time; a question's, while questions are asked.
PartsInv ==
    /\ ExactInv /\ RequestInv /\ SnapshotInv /\ McpInv /\ SecretsInv /\ ImagesInv
    /\ part = "fleet" => FleetInv

LEMMA BothUpExact ==
  ASSUME HostGiven, BothUp
  PROVE  ExactInv
<1> USE DEF HostGiven, BothUp
<1>1. /\ \A s \in Stems : unit[s] = (IF s \in Apps THEN x1 ELSE None) /\ loaded[s] = unit[s]
                           /\ timer[s] = None /\ armed[s] = None
      /\ \A a \in Apps : running[a] = x1
      /\ x1 # None /\ x1 # Foreign
  BY WorkloadAssumption
<1>2. x1 \in UnitText /\ None \in UnitText /\ None \in TimerText
  BY DEF UnitText, TimerText
<1>3. /\ unit \in [Stems -> UnitText] /\ loaded \in [Stems -> UnitText]
      /\ timer \in [Stems -> TimerText] /\ armed \in [Stems -> TimerText]
      /\ running \in [Apps -> UnitText]
  BY <1>2
<1>4. job \in Job /\ job.op = "remove" /\ job.result = "failed" /\ job.todo = {} /\ Wanted = {}
  BY NoSpecType, BegunType DEF Begun, Wanted
<1>5. runs \in 0..MaxRuns /\ faults \in 0..MaxFaults /\ crashes \in 0..MaxCrashes
  BY WorkloadAssumption
<1>6. TypeOK
  BY <1>3, <1>4, <1>5 DEF TypeOK
<1>7. TimersFindable /\ NoDeadTimer
  BY <1>1, WorkloadAssumption DEF TimersFindable, NoDeadTimer
<1>8. PreflightHolds /\ TasksWritten /\ Disarmed
  BY <1>4 DEF PreflightHolds, TasksWritten, Disarmed
<1>9. RunInv
  BY <1>4 DEF RunInv, OpKnown, FilesSoFar, SystemdSoFar, Succeeded
<1>10. ContainersKept
  BY <1>1, <1>4, UnitsAreStems DEF ContainersKept, NoGhost, ContainerSoFar, Succeeded, Main
<1> QED
  BY <1>6, <1>7, <1>8, <1>9, <1>10 DEF ExactInv, FilesInv, UnitsInv

LEMMA PartsInit ==
  ASSUME HostGiven, HostInit
  PROVE  PartsInv
<1>1. ExactInv
  BY BothUpExact, ExactInit DEF HostInit, OneByHand, WorkloadRests
<1>2. DoorInit /\ McpInit /\ SecretsInit /\ ImagesInit /\ FleetInit
  BY DEF HostInit, DoorRests, McpRests
<1>3. RequestInv /\ SnapshotInv
  BY <1>2, DoorInitInv, SnapshotInit DEF DoorInv
<1> QED
  BY <1>1, <1>2, <1>3, McpBegins, SecretsInitInv, ImagesInitInv, FleetInvInit DEF PartsInv

\* Whatever part moves, each part makes a step of its own or none.
PartsMove ==
    /\ part' = part
    /\ [Next]_vars /\ [DoorNext]_doorVars /\ [McpNext]_mcpVars
    /\ [SecretsNext]_secretVars /\ [ImagesNext]_imageVars
    /\ part = "fleet" => [FleetNext]_<<vars, fleetVars>>

LEMMA OnePartMoves == [HostNext]_hostPartVars => PartsMove
<1>1. CASE WorkloadStep
  <2>1. Works /\ Next /\ Seen
    BY <1>1 DEF WorkloadStep, Next, Prune
  <2> QED
    BY <2>1 DEF Works, Seen, PartsMove, FleetNext
<1>2. CASE DoorStep
  <2>1. Doors /\ DoorNext
    BY <1>2 DEF DoorStep, DoorNext, Proceed
  <2> QED
    BY <2>1 DEF Doors, PartsMove
<1>3. CASE McpStep
  <2>1. Talks /\ McpNext
    BY <1>3 DEF McpStep, McpNext
  <2> QED
    BY <2>1 DEF Talks, PartsMove
<1>4. CASE FleetStep
  <2>1. Asks /\ Looks
    BY <1>4 DEF FleetStep, Looks
  <2>2. [FleetNext]_<<vars, fleetVars>>
    BY <2>1 DEF FleetNext
  <2> QED
    BY <2>1, <2>2, HostMoves DEF Asks, PartsMove
<1>5. CASE SecretsStep
  <2>1. Keeps /\ SecretsNext
    BY <1>5 DEF SecretsStep, SecretsNext
  <2> QED
    BY <2>1 DEF Keeps, PartsMove
<1>6. CASE ImagesStep
  <2>1. Tagging /\ ImagesNext
    BY <1>6 DEF ImagesStep, ImagesNext
  <2> QED
    BY <2>1 DEF Tagging, PartsMove
<1>7. CASE UNCHANGED hostPartVars
  BY <1>7 DEF hostPartVars, PartsMove
<1> QED
  BY <1>1, <1>2, <1>3, <1>4, <1>5, <1>6, <1>7 DEF HostNext

\* The six parts side by side: each keeps its inductive invariant in every state
\* of a host on which any one of them moves, for any apps whose names are apart
\* and an orderly operator.
THEOREM HostKept ==
  ASSUME NamesApart, Orderly, HostGiven
  PROVE  HostSpec => []HostInv
<1>1. HostInit => PartsInv
  BY PartsInit
<1>2. PartsInv /\ [HostNext]_hostPartVars => PartsInv'
  <2> SUFFICES ASSUME PartsInv, PartsMove PROVE PartsInv'
    BY OnePartMoves
  <2>1. ExactInv'
    BY ExactNext DEF PartsInv, PartsMove
  <2>2. RequestInv' /\ SnapshotInv'
    BY DoorTypeNext, RowsNext, SeenNext, SnapshotNext DEF PartsInv, PartsMove, RequestInv
  <2>3. McpInv' /\ SecretsInv' /\ ImagesInv'
    BY McpInvNext, SecretsInvNext, ImagesInvNext DEF PartsInv, PartsMove
  <2>4. part' = "fleet" => FleetInv'
    BY FleetInvNext DEF PartsInv, PartsMove, ExactInv
  <2> QED
    BY <2>1, <2>2, <2>3, <2>4 DEF PartsInv
<1>3. PartsInv => HostInv
  BY DEF PartsInv, HostInv, ExactInv, FilesInv, SecretsInv
<1> QED
  BY <1>1, <1>2, <1>3, PTL DEF HostSpec
==============================================================================

---------------------------------- MODULE Mcp ----------------------------------
(***************************************************************************)
(* `kuadrat mcp` (crates/mcp/src/lib.rs, rpc.rs, tools.rs, daemon.rs): one *)
(* loop that reads a JSON-RPC message a line, answers it or not, and asks  *)
(* the daemon over HTTP for what its tools need.                           *)
(*                                                                         *)
(* A message is what the loop looks at: its method, whether it has an id,  *)
(* the protocol version in its _meta, its tool.  "ping" stands for         *)
(* tools/list too, "read" for the tools that start nothing.  An answer is  *)
(* the line it answers and its kind.                                       *)
(***************************************************************************)
EXTENDS Naturals, Sequences, SequencesExt

CONSTANTS
    MaxMessages,   \* bound: lines the client writes
    MaxOutages     \* bound: daemon deaths

ASSUME McpAssumption == MaxMessages \in Nat /\ MaxOutages \in Nat

VARIABLES
    stdin,      \* lines the client has written
    eof,        \* it has closed the pipe
    taken,      \* lines the loop has read
    mcp,        \* where the loop is
    era,        \* Era
    stdout,     \* answers
    request,    \* the call in hand, as far as the daemon has taken it
    begun,      \* per line: deploys begun for it
    serving,    \* the daemon answers
    outages     \* deaths so far

mcpVars == <<stdin, eof, taken, mcp, era, stdout, request, begun, serving, outages>>

clientVars == <<stdin, eof>>

hostVars == <<begun, serving, outages>>

Line(method, id, version, tool) == [method |-> method, id |-> id, version |-> version, tool |-> tool]

\* Lines with no method to look at: blank, not JSON-RPC, not UTF-8.
Unread == {Line(m, FALSE, "none", "none") : m \in {"blank", "garbage", "not text"}}

Requests ==
    {Line(m, id, v, "none") : m \in {"initialize", "server/discover", "ping", "other"},
                              id \in BOOLEAN, v \in {"none", "modern", "unsupported"}}
    \cup {Line("tools/call", id, v, t) : id \in BOOLEAN, v \in {"none", "modern"},
                              t \in {"read", "deploy", "unknown", "bad arguments"}}

Messages == Unread \cup Requests

Answers == {"parse error", "initialized", "method not found", "unsupported version",
            "no era", "result", "bad call", "tool result", "tool error", "retry"}

McpInit ==
    /\ stdin = <<>> /\ eof = FALSE /\ taken = 0
    /\ mcp = "probing" /\ era = "undetermined"
    /\ stdout = <<>>
    /\ request = "none"
    /\ begun = [i \in 1..MaxMessages |-> 0]
    /\ serving \in BOOLEAN
    /\ outages = 0

------------------------------------------------------------------------------
(* The client and the daemon *)

Writes(m) ==
    /\ ~eof /\ Len(stdin) < MaxMessages
    /\ stdin' = Append(stdin, m)
    /\ UNCHANGED <<eof, taken, mcp, era, stdout, request, hostVars>>

Closes ==
    /\ ~eof
    /\ eof' = TRUE
    /\ UNCHANGED <<stdin, taken, mcp, era, stdout, request, hostVars>>

GoesDown ==
    /\ serving /\ outages < MaxOutages
    /\ serving' = FALSE
    /\ outages' = outages + 1
    /\ request' = IF request \in {"accepted", "refused"} THEN "lost" ELSE request
    /\ UNCHANGED <<clientVars, taken, mcp, era, stdout, begun>>

ComesUp ==
    /\ ~serving
    /\ serving' = TRUE
    /\ UNCHANGED <<clientVars, taken, mcp, era, stdout, request, begun, outages>>

------------------------------------------------------------------------------
(* The loop *)

\* Only silence is fatal.
Probe ==
    /\ mcp = "probing"
    /\ mcp' = IF serving THEN "reading" ELSE "exited"
    /\ UNCHANGED <<clientVars, taken, era, stdout, request, hostVars>>

\* No _meta and no initialize before it; server/discover needs neither.
Eraless(m) == m.version = "none" /\ era = "undetermined" /\ m.method # "server/discover"

\* handle and dispatch, for a request: the first that applies.
ReplyTo(m) ==
    IF m.method = "initialize" THEN "initialized"
    ELSE IF m.method = "other" THEN "method not found"
    ELSE IF m.version = "unsupported" THEN "unsupported version"
    ELSE IF Eraless(m) THEN "no era"
    ELSE IF m.tool \in {"unknown", "bad arguments"} THEN "bad call"
    ELSE IF m.method = "tools/call" THEN "call" ELSE "result"

\* Mutant: an initialize is answered before its id is looked for.
SilentButInitialize(m) == ~m.id /\ m.method # "initialize"

\* A blank line and a notification.
Silent(m) == ~m.id

\* parse_line and handle: the answer, "nothing", or a call to be made.
Verdict(m) ==
    IF m.method = "garbage" THEN "parse error" ELSE IF Silent(m) THEN "nothing" ELSE ReplyTo(m)

Says(answer) == stdout' = Append(stdout, [line |-> taken', answer |-> answer])

NextLine == stdin[taken + 1]

Take ==
    /\ mcp = "reading" /\ taken < Len(stdin)
    /\ NextLine.method # "not text"
    /\ taken' = taken + 1
    /\ LET verdict == Verdict(NextLine)
       IN /\ era' = IF verdict = "initialized" THEN "legacy" ELSE era
          /\ IF verdict = "call" THEN mcp' = "calling" /\ request' = "curl"
             ELSE UNCHANGED <<mcp, request>>
          /\ IF verdict \in {"nothing", "call"} THEN UNCHANGED stdout ELSE Says(verdict)
    /\ UNCHANGED <<clientVars, hostVars>>

\* next_line fails, and serve with it; or the pipe is closed and empty.
Leaves ==
    /\ mcp = "reading"
    /\ IF taken < Len(stdin) THEN NextLine.method = "not text" ELSE eof
    /\ mcp' = "exited"
    /\ UNCHANGED <<clientVars, taken, era, stdout, request, hostVars>>

------------------------------------------------------------------------------
(* tools::dispatch and CurlDaemon::request *)

\* The daemon takes the request, and a deploy is begun, or refused.
Handled ==
    /\ request = "curl" /\ serving
    /\ \/ /\ request' = "accepted"
          /\ begun' = [begun EXCEPT ![taken] =
                          IF stdin[taken].tool = "deploy" THEN @ + 1 ELSE @]
       \/ request' = "refused" /\ UNCHANGED begun
    /\ UNCHANGED <<clientVars, taken, mcp, era, stdout, serving, outages>>

Concludes(answer) ==
    /\ mcp' = "reading"
    /\ request' = "none"
    /\ UNCHANGED <<clientVars, taken, era, hostVars>>
    /\ Says(answer)

Replied == request = "accepted" /\ Concludes("tool result")

\* Mutant: a lost connection counts as no daemon.
LostIsUnreachable ==
    \/ request = "refused" /\ Concludes("tool error")
    \/ request = "lost" /\ Concludes("retry")

\* The daemon's own message, or none: curl's exit is not 7.
CallFails == request \in {"refused", "lost"} /\ Concludes("tool error")

\* Nothing listens, or curl cannot be run.
Unreachable == request = "curl" /\ Concludes("retry")

McpNext ==
    \/ \E m \in Messages : Writes(m)
    \/ Closes \/ GoesDown \/ ComesUp
    \/ Probe \/ Take \/ Leaves \/ Handled \/ Replied \/ CallFails \/ Unreachable

McpSpec == McpInit /\ [][McpNext]_mcpVars

------------------------------------------------------------------------------
\* Every variable keeps its type.
McpTypeOK ==
    /\ stdin \in Seq(Messages) /\ Len(stdin) <= MaxMessages
    /\ eof \in BOOLEAN /\ serving \in BOOLEAN
    /\ taken \in 0..Len(stdin)
    /\ mcp \in {"probing", "reading", "calling", "exited"}
    /\ era \in {"undetermined", "legacy"}
    /\ stdout \in Seq([line : 1..MaxMessages, answer : Answers])
    /\ request \in {"none", "curl", "accepted", "refused", "lost"}
    /\ begun \in [1..MaxMessages -> Nat]
    /\ outages \in 0..MaxOutages

Due(m) == m.method = "garbage" \/ m.id

OnCall(i) == mcp = "calling" /\ i = taken

LinesAnswered == {stdout[k].line : k \in DOMAIN stdout}

\* Every request is answered once, in the order of the requests, a
\* notification never, whatever the era, the tool or the daemon
\* (lib.rs:72, rpc.rs:11-12).
OneAnswerEach ==
    /\ \A j, k \in DOMAIN stdout : j < k => stdout[j].line < stdout[k].line
    /\ LinesAnswered = {i \in 1..taken : Due(stdin[i]) /\ ~OnCall(i)}

\* A call begins one deploy at most, and exactly one if it is answered with a
\* result; an agent that is told to retry has begun none (daemon.rs:28-31).
ToolsTellTruth ==
    \A k \in DOMAIN stdout :
        LET i == stdout[k].line
        IN /\ begun[i] <= 1
           /\ stdin[i].tool = "deploy" /\ stdout[k].answer = "tool result" => begun[i] = 1
           /\ stdout[k].answer \notin {"tool result", "tool error"} => begun[i] = 0

\* What makes the two inductive: what has been begun for a line the loop has not
\* answered yet.
CallInHand ==
    /\ mcp = "calling" <=> request # "none"
    /\ mcp = "calling" => taken > 0 /\ Due(stdin[taken])
    /\ \A i \in 1..MaxMessages : i > taken => begun[i] = 0
    /\ request \in {"curl", "refused"} => begun[taken] = 0
    /\ request \in {"accepted", "lost"} => begun[taken] <= 1
    /\ request = "accepted" /\ stdin[taken].tool = "deploy" => begun[taken] = 1

McpInv == McpTypeOK /\ OneAnswerEach /\ ToolsTellTruth /\ CallInHand
==============================================================================

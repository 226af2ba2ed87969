-------------------------------- MODULE MCEdges --------------------------------
(***************************************************************************)
(* For TLC: the components that share no state with one another and whose  *)
(* liveness matters, side by side.  A behaviour is of one part, chosen at  *)
(* the start, while the others rest in a state where none of their fair    *)
(* actions is enabled.                                                     *)
(***************************************************************************)
EXTENDS EventStream, HealthPoll, Doorbell, JournalTail

VARIABLE part   \* the component that moves

edgesVars == <<part, vars, pollVars, bellVars, tailVars>>

\* The health check after it has passed.
PollRests ==
    /\ clock = 0 /\ begunAt = 0 /\ attempted = 1 /\ heard = 0
    /\ poll = "passed" /\ healthy = TRUE /\ wedged = FALSE

\* The notifier, listening to a hub that has nothing to say.
BellRests ==
    /\ told = <<>> /\ since = 0 /\ next = 1
    /\ bell = "recv" /\ posts = Nought /\ arrived = Nought
    /\ excuse = [i \in 1..MaxRung |-> "none"] /\ bellDeaths = 0

TailRests == TailInit /\ registered /\ readable

StreamRests == Init /\ \A v \in Viewers : viewer[v].deploy \in Foreign

EdgesInit ==
    \/ part = "stream" /\ Init /\ PollRests /\ BellRests /\ TailRests
    \/ part = "poll" /\ StreamRests /\ PollInit /\ BellRests /\ TailRests
    \/ part = "bell" /\ StreamRests /\ PollRests /\ BellInit /\ TailRests
    \/ part = "tail" /\ StreamRests /\ PollRests /\ BellRests /\ TailInit

Streams == part = "stream" /\ UNCHANGED <<part, pollVars, bellVars, tailVars>>
Polls == part = "poll" /\ UNCHANGED <<part, vars, bellVars, tailVars>>
Rings == part = "bell" /\ UNCHANGED <<part, vars, pollVars, tailVars>>
Tails == part = "tail" /\ UNCHANGED <<part, vars, pollVars, bellVars>>

\* Next of each, spelt out so that TLC counts every action.
StreamStep ==
    \/ \E d \in Deploys :
         \/ Streams /\ Create(d)
         \/ Streams /\ StoreEvent(d)
         \/ Streams /\ StoreEnding(d)
         \/ Streams /\ EndSilently(d)
         \/ Streams /\ Publish(d)
    \/ Streams /\ Die
    \/ Streams /\ Listen
    \/ \E v \in Viewers :
         \/ Streams /\ OpenPage(v)
         \/ Streams /\ OpenBare(v)
         \/ Streams /\ RenderPage(v)
         \/ Streams /\ TellDetail(v)
         \/ Streams /\ Subscribe(v)
         \/ Streams /\ ReadRow(v)
         \/ Streams /\ ReadBacklog(v)
         \/ Streams /\ Yield(v)
         \/ Streams /\ Drained(v)
         \/ Streams /\ Receive(v)
         \/ Streams /\ Lagged(v)
         \/ Streams /\ ReadMissed(v)
         \/ Streams /\ Drop(v)

PollStep ==
    \/ Polls /\ Answer
    \/ Polls /\ CannotRun
    \/ Polls /\ AttemptTimesOut
    \/ Polls /\ Wake
    \/ Polls /\ StageCap
    \/ Polls /\ Tick
    \/ Polls /\ HealthChanges
    \/ Polls /\ Wedge

BellStep ==
    \/ \E kind \in Kinds : Rings /\ Emit(kind)
    \/ Rings /\ Spawn
    \/ Rings /\ Hear
    \/ Rings /\ Overrun
    \/ Rings /\ Row
    \/ Rings /\ Delivered
    \/ Rings /\ Fails
    \/ Rings /\ Again
    \/ Rings /\ BellDies

TailStep ==
    \/ Tails /\ RegisterApp
    \/ Tails /\ LogLine
    \/ \E t \in Tabs :
         \/ Tails /\ Visit(t)
         \/ Tails /\ PageFails(t)
         \/ Tails /\ Page(t)
         \/ Tails /\ Connect(t)
         \/ Tails /\ FollowFails(t)
         \/ Tails /\ Follow(t)
         \/ Tails /\ SendLine(t)
         \/ Tails /\ Deadline(t)
         \/ Tails /\ Leave(t)
         \/ Tails /\ HalfDead(t)
         \/ Tails /\ OrphanEnds(t)

EdgesNext == StreamStep \/ PollStep \/ BellStep \/ TailStep

EdgesSpec ==
    /\ EdgesInit /\ [][EdgesNext]_edgesVars
    /\ StreamFair /\ PollFair /\ BellFair /\ TailFair

\* The inductive invariant of the part that moves.
EdgesInv ==
    /\ part = "stream" => StreamInv
    /\ part = "poll" => PollTypeOK /\ OnTime /\ OnPace
    /\ part = "bell" => BellInv
    /\ part = "tail" => TailInv

\* Nothing is missing without a word of it: a notable event that was not
\* delivered has its line in the daemon's log or was pushed out of the ring
\* (webhook.rs:220-225), and a page without lines is of a journal that could
\* be read (pages.rs:240-246).
NothingMissedSilently == NoSilentMiss /\ UnreadableIsSaid
================================================================================

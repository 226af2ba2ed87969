-------------------------------- MODULE Doorbell --------------------------------
(***************************************************************************)
(* The outbound webhook (crates/daemon/src/webhook.rs): one task that      *)
(* listens to the hub (hub.rs) and posts what is notable with curl, a few  *)
(* times if it must, while the hub goes on without it.                     *)
(*                                                                         *)
(* The hub is the sequence of events published since the daemon began, and *)
(* a receiver a place in it.  What a message says of its event is left     *)
(* out, as is time: curl gives up by itself (--max-time).                  *)
(***************************************************************************)
EXTENDS Naturals, Sequences

CONSTANTS
    Tries,           \* ATTEMPTS
    RingCapacity,    \* CAPACITY of the hub
    MaxRung,         \* bound: events published in a daemon's life
    MaxBellDeaths    \* bound: daemon deaths

ASSUME BellAssumption ==
    /\ Tries \in Nat \ {0} /\ RingCapacity \in Nat \ {0}
    /\ MaxRung \in Nat /\ MaxBellDeaths \in Nat

VARIABLES
    told,       \* events this daemon has published, by kind
    since,      \* how many of them before the task subscribed
    bell,       \* where the task is
    next,       \* rx: the event it receives next
    posts,      \* per event: posts begun
    arrived,    \* per event: how often the receiver got its message
    excuse,     \* per event: why it was passed over
    bellDeaths  \* daemon deaths so far

bellVars == <<told, since, bell, next, posts, arrived, excuse, bellDeaths>>

Kinds == {"trace", "stage failed", "finished"}

Excuses == {"none", "overrun", "no row", "reported"}

\* "starting": reconcile, before the task is spawned; "off": no URL, or one
\* that cannot be read.
BellPcs == {"starting", "off", "recv", "row", "post", "pause"}

Nought == [i \in 1..MaxRung |-> 0]

BellInit ==
    /\ told = <<>> /\ since = 0 /\ next = 1
    /\ bell = "starting"
    /\ posts = Nought /\ arrived = Nought
    /\ excuse = [i \in 1..MaxRung |-> "none"]
    /\ bellDeaths = 0

IsNotable(kind) == kind \in {"stage failed", "finished"}

\* The event in hand; recv has moved on already.
InHand == next - 1

Rest(pc) == bell' = pc

------------------------------------------------------------------------------
\* Any attempt of this daemon, a recovered one while it starts included.
\* emit never waits.
Emit(kind) ==
    /\ Len(told) < MaxRung
    /\ told' = Append(told, kind)
    /\ UNCHANGED <<since, bell, next, posts, arrived, excuse, bellDeaths>>

\* from_env and spawn: it hears what is published from now on.
Spawn ==
    /\ bell = "starting"
    /\ bell' \in {"recv", "off"}
    /\ since' = Len(told)
    /\ next' = Len(told) + 1
    /\ UNCHANGED <<told, posts, arrived, excuse, bellDeaths>>

OldestKept == IF Len(told) > RingCapacity THEN Len(told) - RingCapacity + 1 ELSE 1

Hear ==
    /\ bell = "recv"
    /\ next \in OldestKept..Len(told)
    /\ next' = next + 1
    /\ Rest(IF IsNotable(told[next]) THEN "row" ELSE "recv")
    /\ UNCHANGED <<told, since, posts, arrived, excuse, bellDeaths>>

\* Mutant: a receiver that has lagged begins again at the end.
OverrunToEnd ==
    /\ bell = "recv"
    /\ next < OldestKept
    /\ excuse' = [i \in DOMAIN excuse |-> IF i \in next..Len(told) THEN "overrun" ELSE excuse[i]]
    /\ next' = Len(told) + 1
    /\ UNCHANGED <<told, since, bell, posts, arrived, bellDeaths>>

\* Mutant: any error of recv ends the task.
OverrunEnds ==
    /\ bell = "recv"
    /\ next < OldestKept
    /\ Rest("off")
    /\ UNCHANGED <<told, since, next, posts, arrived, excuse, bellDeaths>>

\* Lagged: what the ring no longer has is missed, and recv goes on from there.
Overrun ==
    /\ bell = "recv"
    /\ next < OldestKept
    /\ excuse' = [i \in DOMAIN excuse |-> IF i \in next..(OldestKept - 1) THEN "overrun" ELSE excuse[i]]
    /\ next' = OldestKept
    /\ UNCHANGED <<told, since, bell, posts, arrived, bellDeaths>>

\* send, and one more curl of it.
Post == Rest("post") /\ posts' = [posts EXCEPT ![InHand] = @ + 1]

Arrives == arrived' = [arrived EXCEPT ![InHand] = @ + 1]

Row ==
    /\ bell = "row"
    /\ \/ Post /\ UNCHANGED excuse
       \/ Rest("recv") /\ excuse' = [excuse EXCEPT ![InHand] = "no row"] /\ UNCHANGED posts
    /\ UNCHANGED <<told, since, next, arrived, bellDeaths>>

Delivered ==
    /\ bell = "post"
    /\ Arrives
    /\ Rest("recv")
    /\ UNCHANGED <<told, since, next, posts, excuse, bellDeaths>>

\* No connection, an error status, a timeout: it may have arrived all the same.
Fails ==
    /\ bell = "post"
    /\ Arrives \/ UNCHANGED arrived
    /\ IF posts[InHand] < Tries THEN Rest("pause") /\ UNCHANGED excuse
       ELSE Rest("recv") /\ excuse' = [excuse EXCEPT ![InHand] = "reported"]
    /\ UNCHANGED <<told, since, next, posts, bellDeaths>>

Again ==
    /\ bell = "pause"
    /\ Post
    /\ UNCHANGED <<told, since, next, arrived, excuse, bellDeaths>>

\* The hub and the task go; serve starts over.
BellDies ==
    /\ bell # "starting"
    /\ bellDeaths < MaxBellDeaths
    /\ bellDeaths' = bellDeaths + 1
    /\ Rest("starting")
    /\ told' = <<>> /\ since' = 0 /\ next' = 1
    /\ posts' = Nought /\ arrived' = Nought
    /\ excuse' = [i \in 1..MaxRung |-> "none"]

Ring == Hear \/ Overrun \/ Row \/ Delivered \/ Fails \/ Again

BellNext == (\E kind \in Kinds : Emit(kind)) \/ Spawn \/ Ring \/ BellDies

BellSpec == BellInit /\ [][BellNext]_bellVars

\* The task is polled, the store answers, and curl returns.
BellFair == WF_bellVars(Ring) /\ WF_bellVars(Spawn)

------------------------------------------------------------------------------
\* Every variable keeps its type.
BellTypeOK ==
    /\ told \in Seq(Kinds) /\ Len(told) <= MaxRung
    /\ since \in 0..Len(told) /\ next \in 1..(Len(told) + 1)
    /\ bell \in BellPcs
    /\ posts \in [1..MaxRung -> 0..Tries]
    /\ arrived \in [1..MaxRung -> 0..Tries]
    /\ excuse \in [1..MaxRung -> Excuses]
    /\ bellDeaths \in 0..MaxBellDeaths

Listening == bell \notin {"starting", "off"}

\* A failed stage or an outcome that the task has passed has reached the
\* receiver, or its row was gone, or its failure was printed after as many
\* posts as there are, or it was pushed out of a full ring: a missed ring is
\* never a lost subscriber (webhook.rs:220-225).
NoSilentMiss ==
    /\ \A i \in (since + 1)..(next - 1) :
         Listening /\ told[i] # "trace" =>
            \/ arrived[i] > 0
            \/ excuse[i] # "none"
            \/ i = InHand /\ bell \in {"row", "post", "pause"}
    /\ \A i \in 1..MaxRung :
         /\ excuse[i] = "overrun" => i + RingCapacity <= Len(told)
         /\ excuse[i] = "reported" => posts[i] = Tries

\* What makes it inductive: the posts of the message in hand are counted from
\* nothing, and what the task has not come to has neither posts nor an excuse.
PostsCounted ==
    /\ Listening => since < next
    /\ bell \in {"row", "post", "pause"} => since < InHand /\ excuse[InHand] = "none"
    /\ \A i \in 1..MaxRung :
         /\ arrived[i] <= posts[i]
         /\ i >= next \/ bell = "starting" => posts[i] = 0 /\ excuse[i] = "none"
    /\ bell = "row" => posts[InHand] = 0
    /\ bell = "post" => arrived[InHand] < posts[InHand]
    /\ bell = "pause" => posts[InHand] < Tries

BellInv == BellTypeOK /\ NoSilentMiss /\ PostsCounted

\* However badly deliveries go, the task comes back to the hub and catches up
\* with it once deploys are quiet.
BellCatchesUp ==
    Listening ~> (bell = "starting" \/ (bell = "recv" /\ next > Len(told)))
================================================================================

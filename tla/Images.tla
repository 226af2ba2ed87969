--------------------------------- MODULE Images ---------------------------------
(***************************************************************************)
(* What one app's container runs.  A deploy reads the checkout's HEAD      *)
(* (crates/core/src/deploy/detect.rs), builds an image that is named after *)
(* that commit (build.rs), writes the name into the unit, and restarts if  *)
(* the text has changed (workloads/apply.rs); a rollback writes the last   *)
(* good name back (run.rs).  Nobody copies the image: all of it rests on a *)
(* name that means the same thing whenever it is read.  The checkout is    *)
(* moved by push hooks (daemon/src/hooks.rs) and by the operator, who also *)
(* runs `kuadrat build` and whose commands know no lock.                   *)
(*                                                                         *)
(* An image is the commit it was built from; uncommitted edits, crashes    *)
(* and a rollback that fails as well are left out (DeployEngine has the    *)
(* last two).                                                              *)
(***************************************************************************)
EXTENDS Naturals

CONSTANTS
    Commits,
    Deploys,      \* attempts, each made once
    NoCommit,
    Orderly       \* BOOLEAN: the operator keeps his hands off a checkout in use

ASSUME ImagesAssumption ==
    /\ Commits # {} /\ Deploys # {}
    /\ NoCommit \notin Commits
    /\ Orderly \in BOOLEAN

VARIABLES
    tree,         \* the commit checked out
    tags,         \* podman's images, by the commit in their name
    named,        \* the commit that the unit's Image= names
    container,    \* the image the container runs
    lastGood,     \* the name in the recorded spec
    attempt,      \* the attempts and where they are
    byHand        \* what `kuadrat build` has read, if one is at work

imageVars == <<tree, tags, named, container, lastGood, attempt, byHand>>

------------------------------------------------------------------------------
Tag == Commits \cup {NoCommit}

\* A BuildPlan and what run_stages keeps with it.
Attempted == [pc : {"idle", "git", "previous", "detect", "build", "apply", "health",
                    "undo", "ended"},
              plan : Tag,
              previous : Tag]

ImagesInit ==
    /\ tree \in Commits
    /\ tags = [c \in Commits |-> NoCommit]
    /\ named = NoCommit /\ container = NoCommit /\ lastGood = NoCommit
    /\ attempt = [x \in Deploys |-> [pc |-> "idle", plan |-> NoCommit, previous |-> NoCommit]]
    /\ byHand = NoCommit

Stands(x, pc) == attempt[x].pc = pc

Goes(x, pc) == attempt' = [attempt EXCEPT ![x].pc = pc]

SameHost == UNCHANGED <<named, container, lastGood>>

\* The row in progress that everyone else is turned away by.
Taken == \E x \in Deploys : attempt[x].pc \notin {"idle", "ended"}

\* Somebody has read HEAD, and has not built yet.
InUse == byHand # NoCommit \/ \E x \in Deploys : Stands(x, "build")

\* Mutant: a push is not turned away by an attempt in progress.
OccupyTaken(x) ==
    /\ Stands(x, "idle")
    /\ \E pc \in {"git", "previous"} :
         /\ pc = "previous" => ~Taken
         /\ Goes(x, pc)
    /\ SameHost /\ UNCHANGED <<tree, tags, byHand>>

\* reserve, for a push before its git commands, for a deploy before its load.
Occupy(x) ==
    /\ Stands(x, "idle")
    /\ ~Taken
    /\ \E pc \in {"git", "previous"} : Goes(x, pc)
    /\ SameHost /\ UNCHANGED <<tree, tags, byHand>>

\* fetch and reset --hard.
Pull(x) ==
    /\ Stands(x, "git")
    /\ Orderly => byHand = NoCommit
    /\ tree' \in Commits
    /\ Goes(x, "previous")
    /\ SameHost /\ UNCHANGED <<tags, byHand>>

\* load_previous.
Previous(x) ==
    /\ Stands(x, "previous")
    /\ attempt' = [attempt EXCEPT ![x].pc = "detect", ![x].previous = lastGood]
    /\ SameHost /\ UNCHANGED <<tree, tags, byHand>>

Detect(x) ==
    /\ Stands(x, "detect")
    /\ attempt' = [attempt EXCEPT ![x].pc = "build", ![x].plan = tree]
    /\ SameHost /\ UNCHANGED <<tree, tags, byHand>>

\* podman build -t image_reference: it builds what is there now.
Build(x) ==
    /\ Stands(x, "build")
    /\ tags' = [tags EXCEPT ![attempt[x].plan] = tree]
    /\ Goes(x, "apply")
    /\ SameHost /\ UNCHANGED <<tree, byHand>>

\* git, no Containerfile, no HEAD, podman: the host is untouched.
FailsEarly(x) ==
    /\ attempt[x].pc \in {"git", "previous", "detect", "build", "apply"}
    /\ Goes(x, "ended")
    /\ SameHost /\ UNCHANGED <<tree, tags, byHand>>

\* apply: a text that is the same is only started, which a running container
\* does not notice.
Install(tag) ==
    /\ named' = tag
    /\ container' = IF tag # named \/ container = NoCommit THEN tags[tag] ELSE container

Apply(x) ==
    /\ Stands(x, "apply")
    /\ Install(attempt[x].plan)
    /\ Goes(x, "health")
    /\ UNCHANGED <<tree, tags, lastGood, byHand>>

\* The write fails, or only the reload, or the restart, which has stopped it.
ApplyFails(x) ==
    /\ Stands(x, "apply")
    /\ named' \in {named, attempt[x].plan}
    /\ container' \in {container, NoCommit}
    /\ container' = NoCommit => named' = attempt[x].plan \/ container = NoCommit
    /\ Goes(x, "undo")
    /\ UNCHANGED <<tree, tags, lastGood, byHand>>

\* put_spec and the ending.
Healthy(x) ==
    /\ Stands(x, "health")
    /\ lastGood' = attempt[x].plan
    /\ Goes(x, "ended")
    /\ UNCHANGED <<tree, tags, named, container, byHand>>

Unhealthy(x) ==
    /\ Stands(x, "health")
    /\ Goes(x, "undo")
    /\ SameHost /\ UNCHANGED <<tree, tags, byHand>>

\* unwind_apply.
Undo(x) ==
    /\ Stands(x, "undo")
    /\ IF attempt[x].previous = NoCommit THEN named' = NoCommit /\ container' = NoCommit
       ELSE Install(attempt[x].previous)
    /\ Goes(x, "ended")
    /\ UNCHANGED <<tree, tags, lastGood, byHand>>

------------------------------------------------------------------------------
\* systemd runs the container again, from what its name means by then.
RunsAgain ==
    /\ named # NoCommit
    /\ container' = tags[named]
    /\ UNCHANGED <<tree, tags, named, lastGood, attempt, byHand>>

OperatorPulls ==
    /\ Orderly => ~InUse
    /\ tree' \in Commits
    /\ SameHost /\ UNCHANGED <<tags, attempt, byHand>>

\* kuadrat build: detect and build, with no row.
BuildByHand ==
    /\ IF byHand = NoCommit
       THEN /\ Orderly => ~\E x \in Deploys : Stands(x, "git")
            /\ byHand' = tree /\ UNCHANGED tags
       ELSE /\ tags' = [tags EXCEPT ![byHand] = tree]
            /\ byHand' = NoCommit
    /\ SameHost /\ UNCHANGED <<tree, attempt>>

ImagesNext ==
    \/ \E x \in Deploys :
         \/ Occupy(x) \/ Pull(x) \/ Previous(x) \/ Detect(x) \/ Build(x) \/ FailsEarly(x)
         \/ Apply(x) \/ ApplyFails(x) \/ Healthy(x) \/ Unhealthy(x) \/ Undo(x)
    \/ RunsAgain \/ OperatorPulls \/ BuildByHand

ImagesSpec == ImagesInit /\ [][ImagesNext]_imageVars

------------------------------------------------------------------------------
\* Every variable keeps its type.
ImagesTypeOK ==
    /\ tree \in Commits /\ byHand \in Tag
    /\ tags \in [Commits -> Tag]
    /\ named \in Tag /\ container \in Tag /\ lastGood \in Tag
    /\ attempt \in [Deploys -> Attempted]

OnHost == \E x \in Deploys : attempt[x].pc \in {"health", "undo"}

\* Whoever pulls, builds, fails or rolls back in between: an image is of the
\* commit it is named after, and whenever no attempt has the host, the
\* container runs the last good commit, which no name had to be restored for
\* (build.rs:6-10, run.rs:349-367).
RunsLastGood ==
    /\ \A c \in Commits : tags[c] \in {c, NoCommit}
    /\ ~OnHost => named = lastGood /\ container = lastGood

------------------------------------------------------------------------------
(* What makes RunsLastGood inductive, for an orderly operator *)

\* One attempt at a time.
OneAtATime ==
    \A x, y \in Deploys :
        attempt[x].pc \notin {"idle", "ended"} /\ attempt[y].pc \notin {"idle", "ended"} => x = y

\* HEAD is still what has been read of it.
HeadHolds ==
    /\ byHand # NoCommit => tree = byHand
    /\ \A x \in Deploys : Stands(x, "build") => tree = attempt[x].plan

Built(tag) == tag # NoCommit => tags[tag] = tag

\* What an attempt knows, and what there is of it by then.
PlanHolds ==
    \A x \in Deploys :
        /\ attempt[x].pc \in {"detect", "build", "apply", "health", "undo"} =>
              attempt[x].previous = lastGood
        /\ Stands(x, "build") => attempt[x].plan # NoCommit
        /\ attempt[x].pc \in {"apply", "health", "undo"} =>
              attempt[x].plan # NoCommit /\ Built(attempt[x].plan)
        /\ Stands(x, "health") => named = attempt[x].plan /\ container = attempt[x].plan

\* A unit that still has the old name has the old container, or none.
HostHolds ==
    /\ Built(lastGood) /\ Built(named)
    /\ named = lastGood => container \in {lastGood, NoCommit}

ImagesInv ==
    ImagesTypeOK /\ RunsLastGood /\ OneAtATime /\ HeadHolds /\ PlanHolds /\ HostHolds
================================================================================

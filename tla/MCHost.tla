-------------------------------- MODULE MCHost --------------------------------
(***************************************************************************)
(* For TLC: applying and removing apps, by itself and with questions about *)
(* it in between, the ways a deploy is asked for, the agent's loop, and    *)
(* podman's secrets and images, side by side.  Only the first two share    *)
(* state; a behaviour is of one part, chosen at the start, while the       *)
(* others rest as they began.                                              *)
(***************************************************************************)
EXTENDS MCWorkload, MCFrontDoor, Mcp, Fleet, Secrets, Images

VARIABLE part   \* the component that moves

hostPartVars == <<part, vars, doorVars, mcpVars, fleetVars, secretVars, imageVars>>

WorkloadRests == Init /\ \A s \in Stems : unit[s] = None /\ timer[s] = None

DoorRests == DoorInit /\ recorded = {}

McpRests == McpInit /\ serving

\* A host on which both apps are up, by an earlier run that counts, with one
\* failure and one death, towards the bounds.
BothUp ==
    /\ unit = [s \in Stems |-> IF s \in Apps THEN x1 ELSE None] /\ loaded = unit
    /\ timer = [s \in Stems |-> None] /\ armed = timer
    /\ running = [a \in Apps |-> x1]
    /\ pc = "idle"
    /\ job = Begun("remove", Web, NoSpec)
    /\ runs = 1 /\ faults = 1 /\ crashes = 1

HostInit ==
    /\ FleetInit /\ SecretsInit /\ ImagesInit
    /\ \/ part = "workload" /\ OneByHand /\ DoorRests /\ McpRests
       \/ part = "door" /\ WorkloadRests /\ DoorInit /\ McpRests
       \/ part = "mcp" /\ WorkloadRests /\ DoorRests /\ McpInit
       \/ part = "fleet" /\ BothUp /\ DoorRests /\ McpRests
       \/ part \in {"secrets", "images"} /\ WorkloadRests /\ DoorRests /\ McpRests
    /\ part = "images" \/ tree = CHOOSE c \in Commits : TRUE

Works == part \in {"workload", "fleet"} /\ UNCHANGED <<part, doorVars, mcpVars, secretVars, imageVars>>
Seen == IF part = "fleet" THEN Watched ELSE UNCHANGED fleetVars
Doors == part = "door" /\ UNCHANGED <<part, vars, mcpVars, fleetVars, secretVars, imageVars>>
Talks == part = "mcp" /\ UNCHANGED <<part, vars, doorVars, fleetVars, secretVars, imageVars>>
Asks == part = "fleet" /\ UNCHANGED <<part, doorVars, mcpVars, secretVars, imageVars>>
Keeps == part = "secrets" /\ UNCHANGED <<part, vars, doorVars, mcpVars, fleetVars, imageVars>>
Tagging == part = "images" /\ UNCHANGED <<part, vars, doorVars, mcpVars, fleetVars, secretVars>>

\* Next of each, spelt out so that TLC counts every action.
WorkloadStep ==
    \/ \E a \in Apps :
         \/ Works /\ StartRemove(a) /\ Seen
         \/ \E s \in Specs[a] : Works /\ StartApply(a, s) /\ Seen
    \/ \E t \in Tasks :
         \/ Works /\ WriteTask(t) /\ Seen
         \/ Works /\ EnableTimer(t) /\ Seen
    \/ \E s \in Stems :
         \/ Works /\ PruneContainer(s) /\ Seen
         \/ Works /\ DisableTimer(s) /\ Seen
    \/ Works /\ DropTimer /\ Seen
    \/ Works /\ Pruned /\ Seen
    \/ Works /\ Preflight /\ Seen
    \/ Works /\ WriteMain /\ Seen
    \/ Works /\ WriteTimer /\ Seen
    \/ Works /\ DaemonReload /\ Seen
    \/ Works /\ Start /\ Seen
    \/ Works /\ NothingToRemove /\ Seen
    \/ Works /\ Stop /\ Seen
    \/ Works /\ DeleteMain /\ Seen
    \/ Works /\ Refused /\ Seen
    \/ Works /\ StepFails /\ Seen
    \/ Works /\ Crash /\ Seen

DoorStep ==
    \/ \E x \in Actors :
         \/ \E ask \in {"register", "deploy", "push", "command"}, what \in Asked :
              Doors /\ Ask(x, ask, what[1], what[2])
         \/ Doors /\ TurnAway(x)
         \/ Doors /\ TakeTrigger(x)
         \/ Doors /\ NotAPush(x)
         \/ Doors /\ Scan(x)
         \/ Doors /\ ScanRefuses(x)
         \/ Doors /\ Insert(x)
         \/ Doors /\ Read(x)
         \/ Doors /\ ReadNothing(x)
         \/ Doors /\ NotBusy(x)
         \/ Doors /\ FoundBusy(x)
         \/ Doors /\ SpecBad(x)
         \/ Doors /\ SpecGood(x)
         \/ Doors /\ ReserveBusy(x)
         \/ Doors /\ Reserve(x)
         \/ Doors /\ GitSucceeds(x)
         \/ Doors /\ GitFails(x)
         \/ Doors /\ Told(x)
         \/ Doors /\ HandOff(x)
         \/ Doors /\ NobodyThere(x)
         \/ Doors /\ NoSpecFound(x)
         \/ Doors /\ RunLocally(x)
    \/ \E i \in DOMAIN attempts : Doors /\ AttemptEnds(i)
    \/ Doors /\ DaemonDies
    \/ Doors /\ DaemonStarts

McpStep ==
    \/ \E m \in Messages : Talks /\ Writes(m)
    \/ Talks /\ Closes
    \/ Talks /\ GoesDown
    \/ Talks /\ ComesUp
    \/ Talks /\ Probe
    \/ Talks /\ Take
    \/ Talks /\ Leaves
    \/ Talks /\ Handled
    \/ Talks /\ Replied
    \/ Talks /\ CallFails
    \/ Talks /\ Unreachable

FleetStep ==
    \/ \E a \in Apps : Asks /\ AskStatus(a)
    \/ Asks /\ AskAll
    \/ Asks /\ AskList
    \/ Asks /\ LookForFile
    \/ Asks /\ IsActive
    \/ Asks /\ CannotTell
    \/ \E s \in Stems : Asks /\ ReadEntry(s)
    \/ Asks /\ Printed
    \/ Asks /\ Over

SecretsStep ==
    \E c \in Commands :
        \/ \E n \in SecretNames : Keeps /\ Use(c, n)
        \/ Keeps /\ SetRemoves(c)
        \/ Keeps /\ SetCreates(c)
        \/ Keeps /\ Removes(c)
        \/ Keeps /\ EnsureAll(c)
        \/ Keeps /\ Breaks(c)

ImagesStep ==
    \/ \E x \in Deploys :
         \/ Tagging /\ Occupy(x)
         \/ Tagging /\ Pull(x)
         \/ Tagging /\ Previous(x)
         \/ Tagging /\ Detect(x)
         \/ Tagging /\ Build(x)
         \/ Tagging /\ FailsEarly(x)
         \/ Tagging /\ Apply(x)
         \/ Tagging /\ ApplyFails(x)
         \/ Tagging /\ Healthy(x)
         \/ Tagging /\ Unhealthy(x)
         \/ Tagging /\ Undo(x)
    \/ Tagging /\ RunsAgain
    \/ Tagging /\ OperatorPulls
    \/ Tagging /\ BuildByHand

HostNext == WorkloadStep \/ DoorStep \/ McpStep \/ FleetStep \/ SecretsStep \/ ImagesStep

HostSpec == HostInit /\ [][HostNext]_hostPartVars

\* What is inductive in WorkloadProofs, FrontDoorProofs and HostProofs (SecretsKept
\* is, on top of its types); of containers, where names are apart.
HostInv ==
    /\ part \in {"workload", "fleet"} => NamesApart /\ UnitsInv /\ RunInv /\ ContainersKept
    /\ part = "door" => RequestInv /\ SnapshotInv
    /\ part = "mcp" => McpInv
    /\ part = "fleet" => FleetInv
    /\ part = "secrets" => SecretsTypeOK
    /\ part = "images" => ImagesInv
================================================================================

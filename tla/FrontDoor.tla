------------------------------- MODULE FrontDoor -------------------------------
(***************************************************************************)
(* How a deploy is asked for.  Registrations (store::register_app), deploy *)
(* requests and push hooks of the daemon (api.rs, hooks.rs) under its      *)
(* trigger_lock, and `kuadrat deploy` (main.rs, resolve.rs,                *)
(* daemon_client.rs), which registers the app itself, then asks the daemon *)
(* over HTTP, and deploys in its own process only if nobody answered.      *)
(*                                                                         *)
(* Each actor makes one request.  Both processes open the store; one       *)
(* statement is a step, unless no other process can come in between.  The  *)
(* attempt itself, the two halves of reserve, the deploy slot and dropped  *)
(* handlers are Daemon's.  An app's spec is good or it is not.             *)
(***************************************************************************)
EXTENDS Naturals, Sequences

CONSTANTS
    Names,        \* app names
    SlugOf,       \* spec::slug of a name
    NoSlug,       \* the empty slug
    Repos,        \* repo paths
    Relative,     \* those of them that are not absolute
    Asked,        \* the pairs of name and repo that requests are made with
    Handlers,     \* requests to the daemon
    Clis,         \* runs of `kuadrat deploy`
    Nobody,
    Apart,        \* BOOLEAN: the daemon and a CLI never register at once
    MaxDeaths     \* bound: daemon deaths

Actors == Handlers \cup Clis

ASSUME DoorAssumption ==
    /\ DOMAIN SlugOf = Names
    /\ Names # {} /\ Repos # {}
    /\ Relative \subseteq Repos /\ Asked \subseteq Names \X Repos
    /\ Handlers \cap Clis = {}
    /\ Nobody \notin Actors
    /\ Apart \in BOOLEAN
    /\ MaxDeaths \in Nat

VARIABLES
    config,       \* table app_config: per name the registration, or NoConfig
    recorded,     \* the names in table apps
    writes,       \* registrations so far
    attempts,     \* table deploys, in id order
    listening,    \* the daemon answers
    trigger,      \* trigger_lock: its holder
    actor,        \* each request and where it is
    deaths        \* daemon deaths so far

doorVars == <<config, recorded, writes, attempts, listening, trigger, actor, deaths>>

storeVars == <<config, recorded, writes, attempts>>

daemonVars == <<listening, trigger, deaths>>

NoConfig == [repo |-> Nobody, stamp |-> 0, by |-> Nobody]

\* A row of app_config, with its writer and its place among all writes.
Config == [repo : Repos, stamp : Nat, by : Actors] \cup {NoConfig}

Attempt == [name : Names, by : Actors,
            work : {"reserved", "running", "ended"}]

Pcs == {"idle", "lock", "scan", "insert", "read", "busy", "spec", "reserve", "branch",
        "fetch", "reset", "reply", "curl", "resolve", "running", "ended"}

Actor == [pc : Pcs,
          ask : {"register", "deploy", "push", "command"},
          name : Names, repo : Repos,
          snapshot : Config,     \* the registration a handler has read
          began : Nat,           \* writes, when the request was made
          id : Nat,              \* the attempt it is about
          answer : {"none", "accepted", "done", "refused", "lost"}]

NotAsked == [pc |-> "idle", ask |-> "register", name |-> CHOOSE n \in Names : TRUE,
             repo |-> CHOOSE r \in Repos : TRUE, snapshot |-> NoConfig, began |-> 0,
             id |-> 0, answer |-> "none"]

DoorInit ==
    /\ config = [n \in Names |-> NoConfig]
    /\ recorded \in {S \in SUBSET Names : \A m, n \in S :
                        SlugOf[m] # NoSlug /\ (SlugOf[m] = SlugOf[n] => m = n)}
    /\ writes = 0
    /\ attempts = <<>>
    /\ listening = TRUE
    /\ trigger = Nobody
    /\ actor = [x \in Actors |-> NotAsked]
    /\ deaths = 0

------------------------------------------------------------------------------
AtDoor(x, pc) == actor[x].pc = pc

Step(x, rec) == actor' = [actor EXCEPT ![x] = rec]

Go(x, pc) == Step(x, [actor[x] EXCEPT !.pc = pc])

\* A response; for a command, its exit.  "accepted" comes with a deploy id,
\* "refused" is any status of ApiError; a handler's locals are gone.
Answered(rec, answer) ==
    IF answer = "accepted" THEN [rec EXCEPT !.pc = "ended", !.answer = answer]
    ELSE [NotAsked EXCEPT !.pc = "ended", !.answer = answer]

\* A handler answers and drops the guard.
Reply(x, answer) ==
    /\ Step(x, Answered(actor[x], answer))
    /\ trigger' = IF trigger = x THEN Nobody ELSE trigger
    /\ UNCHANGED <<listening, deaths>>

\* It has the guard no longer, and its client not yet the id.
Accept(x, rec) ==
    /\ Step(x, [rec EXCEPT !.pc = "reply"])
    /\ trigger' = Nobody
    /\ UNCHANGED <<listening, deaths>>

Told(x) ==
    /\ AtDoor(x, "reply")
    /\ Reply(x, "accepted")
    /\ UNCHANGED storeVars

Unfinished(i) == attempts[i].work \in {"reserved", "running"}

\* in_progress_deploys, and the store's lock.
Busy(n) == \E i \in DOMAIN attempts : attempts[i].name = n /\ Unfinished(i)

IsCommand(x) == actor[x].ask = "command"

\* A request or a command arrives.
Ask(x, ask, name, repo) ==
    /\ AtDoor(x, "idle")
    /\ IF x \in Clis THEN ask = "command" ELSE ask # "command" /\ listening
    /\ Step(x, [actor[x] EXCEPT
            !.pc = IF ask = "command" THEN "scan" ELSE "lock",
            !.ask = ask, !.name = name, !.repo = repo, !.began = writes])
    /\ UNCHANGED <<storeVars, daemonVars>>

\* No secret is configured, or it is not the one: any push may be.
Unverified(x) == actor[x].ask = "push"

\* hooks::github and gitlab, before the guard.
TurnAway(x) ==
    /\ AtDoor(x, "lock")
    /\ Unverified(x)
    /\ Reply(x, "refused")
    /\ UNCHANGED storeVars

\* Mutant: a registration does not take trigger_lock.
TakeTriggerToDeploy(x) ==
    /\ AtDoor(x, "lock")
    /\ actor[x].ask # "register" => trigger = Nobody
    /\ trigger' = IF actor[x].ask = "register" THEN trigger ELSE x
    /\ Go(x, IF actor[x].ask = "register" THEN "scan" ELSE "read")
    /\ UNCHANGED <<storeVars, listening, deaths>>

TakeTrigger(x) ==
    /\ AtDoor(x, "lock")
    /\ trigger = Nobody
    /\ trigger' = x
    /\ Go(x, IF actor[x].ask = "register" THEN "scan" ELSE "read")
    /\ UNCHANGED <<storeVars, listening, deaths>>

------------------------------------------------------------------------------
(* register_app, for the API, the form and the CLI's back-fill *)

\* Between its SELECT and its INSERT.
Registering(x) == AtDoor(x, "insert")

\* Mutant: names are compared, not the slugs they share.
SameName(n, m) == FALSE

Collides(n, m) == m # n /\ SlugOf[m] = SlugOf[n]

Known == {n \in Names : config[n] # NoConfig} \cup recorded

Acceptable(x) ==
    /\ SlugOf[actor[x].name] # NoSlug
    /\ actor[x].repo \notin Relative
    /\ ~\E m \in Known : Collides(actor[x].name, m)

\* The daemon's registrations share the store's connection and its mutex.
Excluded(x, y) == Apart \/ (~IsCommand(x) /\ ~IsCommand(y))

\* The checks; parse_route and canonicalize come before a command's.
Scan(x) ==
    /\ AtDoor(x, "scan")
    /\ ~\E y \in Actors : Registering(y) /\ Excluded(x, y)
    /\ Acceptable(x)
    /\ Go(x, "insert")
    /\ UNCHANGED <<storeVars, daemonVars>>

ScanRefuses(x) ==
    /\ AtDoor(x, "scan")
    /\ ~Acceptable(x) \/ IsCommand(x)
    /\ Reply(x, "refused")
    /\ UNCHANGED storeVars

\* Mutant: the back-fill only adds an app nobody has registered yet.
InsertIfNew(x) ==
    /\ Registering(x)
    /\ writes' = writes + 1
    /\ config' = IF IsCommand(x) /\ config[actor[x].name] # NoConfig THEN config
                 ELSE [config EXCEPT ![actor[x].name] =
                    [repo |-> actor[x].repo, stamp |-> writes', by |-> x]]
    /\ IF IsCommand(x) THEN Go(x, "curl") /\ UNCHANGED daemonVars ELSE Reply(x, "done")
    /\ UNCHANGED <<recorded, attempts>>

\* The upsert writes every column.
Insert(x) ==
    /\ Registering(x)
    /\ writes' = writes + 1
    /\ config' = [config EXCEPT ![actor[x].name] =
                    [repo |-> actor[x].repo, stamp |-> writes', by |-> x]]
    /\ IF IsCommand(x) THEN Go(x, "curl") /\ UNCHANGED daemonVars ELSE Reply(x, "done")
    /\ UNCHANGED <<recorded, attempts>>

------------------------------------------------------------------------------
(* start_deploy_locked and dispatch_push, under trigger_lock *)

Read(x) ==
    /\ AtDoor(x, "read")
    /\ config[actor[x].name] # NoConfig
    /\ Step(x, [actor[x] EXCEPT !.pc = "busy", !.snapshot = config[actor[x].name]])
    /\ UNCHANGED <<storeVars, daemonVars>>

ReadNothing(x) ==
    /\ AtDoor(x, "read")
    /\ config[actor[x].name] = NoConfig
    /\ Reply(x, "refused")
    /\ UNCHANGED storeVars

\* parse_push: a tag, a deletion, not JSON.
NotAPush(x) ==
    /\ AtDoor(x, "busy")
    /\ actor[x].ask = "push"
    /\ Reply(x, "done")
    /\ UNCHANGED storeVars

NotBusy(x) ==
    /\ AtDoor(x, "busy")
    /\ ~Busy(actor[x].name)
    /\ Go(x, IF actor[x].ask = "push" THEN "reserve" ELSE "spec")
    /\ UNCHANGED <<storeVars, daemonVars>>

Record(x, work) ==
    attempts' = Append(attempts, [name |-> actor[x].name, by |-> x, work |-> work])

\* ensure_not_busy says no; a push leaves a receipt (record_refusal).
FoundBusy(x) ==
    /\ AtDoor(x, "busy")
    /\ Busy(actor[x].name)
    /\ IF actor[x].ask = "push"
       THEN Record(x, "ended") /\ Reply(x, "done")
       ELSE UNCHANGED attempts /\ Reply(x, "refused")
    /\ UNCHANGED <<config, recorded, writes>>

SetWork(i, work) == attempts' = [attempts EXCEPT ![i].work = work]

\* deploy_spec: no kuadrat.json, or not a valid one.  A push has its row by now.
SpecBad(x) ==
    /\ AtDoor(x, "spec")
    /\ IF actor[x].id = 0 THEN UNCHANGED attempts ELSE SetWork(actor[x].id, "ended")
    /\ Reply(x, "refused")
    /\ UNCHANGED <<config, recorded, writes>>

\* A button goes on to reserve; a push spawns what it has reserved.
SpecGood(x) ==
    /\ AtDoor(x, "spec")
    /\ IF actor[x].id = 0
       THEN Go(x, "reserve") /\ UNCHANGED <<attempts, daemonVars>>
       ELSE SetWork(actor[x].id, "running") /\ Accept(x, actor[x])
    /\ UNCHANGED <<config, recorded, writes>>

\* A CLI came in between: reserve's own row is the receipt.
ReserveBusy(x) ==
    /\ AtDoor(x, "reserve")
    /\ Busy(actor[x].name)
    /\ Record(x, "ended")
    /\ Reply(x, IF actor[x].ask = "push" THEN "done" ELSE "refused")
    /\ UNCHANGED <<config, recorded, writes>>

\* reserve_deploy; a button's attempt is spawned in the same breath.
Reserve(x) ==
    /\ AtDoor(x, "reserve")
    /\ ~Busy(actor[x].name)
    /\ LET got == [actor[x] EXCEPT !.id = Len(attempts) + 1]
       IN IF actor[x].ask = "push"
          THEN /\ Record(x, "reserved")
               /\ Step(x, [got EXCEPT !.pc = "branch"])
               /\ UNCHANGED daemonVars
          ELSE Record(x, "running") /\ Accept(x, got)
    /\ UNCHANGED <<config, recorded, writes>>

InGit(x) == actor[x].pc \in {"branch", "fetch", "reset"}

AfterGit == [branch |-> "fetch", fetch |-> "reset", reset |-> "spec"]

GitSucceeds(x) ==
    /\ InGit(x)
    /\ Go(x, AfterGit[actor[x].pc])
    /\ UNCHANGED <<storeVars, daemonVars>>

\* It fails, or GIT_TIMEOUT kills it, or the push is for another branch.
GitFails(x) ==
    /\ InGit(x)
    /\ SetWork(actor[x].id, "ended")
    /\ \E answer \in {"refused", "done"} :
         /\ answer = "done" => AtDoor(x, "branch")
         /\ Reply(x, answer)
    /\ UNCHANGED <<config, recorded, writes>>

------------------------------------------------------------------------------
(* kuadrat deploy, after the back-fill *)

\* try_deploy: the daemon handles the command's POST; a deploy from here on.
HandOff(x) ==
    /\ AtDoor(x, "curl")
    /\ listening
    /\ Go(x, "lock")
    /\ UNCHANGED <<storeVars, daemonVars>>

\* Handoff::Unreachable: --root, curl cannot be run, or exit 7.
NobodyThere(x) ==
    /\ AtDoor(x, "curl")
    /\ Go(x, "resolve")
    /\ UNCHANGED <<storeVars, daemonVars>>

\* resolve_spec finds none, or cannot parse it.
NoSpecFound(x) ==
    /\ AtDoor(x, "resolve")
    /\ Reply(x, "refused")
    /\ UNCHANGED storeVars

\* run: reserve, in the CLI's own process.
RunLocally(x) ==
    /\ AtDoor(x, "resolve")
    /\ IF Busy(actor[x].name)
       THEN /\ Record(x, "ended") /\ Reply(x, "refused")
       ELSE /\ Record(x, "running")
            /\ Step(x, [actor[x] EXCEPT !.pc = "running", !.id = Len(attempts) + 1])
            /\ UNCHANGED daemonVars
    /\ UNCHANGED <<config, recorded, writes>>

------------------------------------------------------------------------------
(* The attempts, and the daemon's life *)

Ours(i) == AtDoor(attempts[i].by, "running")

\* run_reserved: rolled back or failed, or done and put_spec.  A local one ends its command.
AttemptEnds(i) ==
    /\ attempts[i].work = "running"
    /\ Ours(i) \/ listening
    /\ SetWork(i, "ended")
    /\ \/ UNCHANGED recorded
       \/ /\ ~\E m \in recorded : Collides(attempts[i].name, m)
          /\ recorded' = recorded \cup {attempts[i].name}
    /\ IF Ours(i) THEN Step(attempts[i].by, Answered(actor[attempts[i].by], "done"))
       ELSE UNCHANGED actor
    /\ UNCHANGED <<config, writes, daemonVars>>

\* What the daemon was doing for x; a command's curl has not been let in at
\* "scan", "insert" and "curl".
InDaemon(x) ==
    /\ actor[x].pc \notin {"idle", "curl", "resolve", "running", "ended"}
    /\ actor[x].pc \in {"scan", "insert"} => ~IsCommand(x)

\* Mutant: a lost connection counts as a daemon that is not there.
DieUnreachable ==
    /\ listening /\ deaths < MaxDeaths
    /\ deaths' = deaths + 1
    /\ listening' = FALSE
    /\ trigger' = Nobody
    /\ actor' = [x \in Actors |->
         IF ~InDaemon(x) THEN actor[x]
         ELSE IF IsCommand(x) THEN [actor[x] EXCEPT !.pc = "resolve"]
         ELSE Answered(actor[x], "lost")]
    /\ UNCHANGED storeVars

\* Refused with no status: curl's exit is not 7.  The daemon may have carried
\* out what it has not replied to.
DaemonDies ==
    /\ listening /\ deaths < MaxDeaths
    /\ deaths' = deaths + 1
    /\ listening' = FALSE
    /\ trigger' = Nobody
    /\ actor' = [x \in Actors |-> IF InDaemon(x) THEN Answered(actor[x], "lost") ELSE actor[x]]
    /\ UNCHANGED storeVars

\* serve: reconcile, then bind.  Daemon tells what happens if a CLI is at work.
DaemonStarts ==
    /\ ~listening
    /\ \A x \in Clis : ~AtDoor(x, "running")
    /\ listening' = TRUE
    /\ attempts' = [i \in DOMAIN attempts |->
         IF Unfinished(i) THEN [attempts[i] EXCEPT !.work = "ended"] ELSE attempts[i]]
    /\ UNCHANGED <<config, recorded, writes, trigger, actor, deaths>>

\* What the actor, or whoever works for it, does next.
Proceed(x) ==
    \/ Scan(x) \/ ScanRefuses(x) \/ Insert(x)
    \/ Read(x) \/ ReadNothing(x) \/ NotBusy(x) \/ FoundBusy(x)
    \/ SpecBad(x) \/ SpecGood(x) \/ ReserveBusy(x) \/ Reserve(x)
    \/ GitSucceeds(x) \/ GitFails(x)
    \/ Told(x) \/ HandOff(x) \/ NobodyThere(x) \/ NoSpecFound(x) \/ RunLocally(x)

DoorNext ==
    \/ \E x \in Actors :
         \/ \E ask \in {"register", "deploy", "push", "command"}, what \in Asked :
              Ask(x, ask, what[1], what[2])
         \/ TurnAway(x) \/ TakeTrigger(x) \/ NotAPush(x) \/ Proceed(x)
    \/ \E i \in DOMAIN attempts : AttemptEnds(i)
    \/ DaemonDies \/ DaemonStarts

DoorSpec == DoorInit /\ [][DoorNext]_doorVars

------------------------------------------------------------------------------
DoorTypeOK ==
    /\ config \in [Names -> Config]
    /\ recorded \subseteq Names
    /\ writes \in Nat
    /\ attempts \in Seq(Attempt)
    /\ listening \in BOOLEAN
    /\ trigger \in Handlers \cup Clis \cup {Nobody}
    /\ actor \in [Actors -> Actor]
    /\ deaths \in 0..MaxDeaths

\* No two apps share a slug, hence units, container and image: whichever of
\* API, form, back-fill or an older store they come from (store/mod.rs:451-457).
SlugsDistinct == \A m, n \in Known : SlugOf[m] = SlugOf[n] => m = n

\* A push or a deploy works on one registration from its first look to its
\* last: only a CLI's back-fill, which knows no trigger_lock, can replace it
\* meanwhile (hooks.rs:167-169, api.rs:151-153).
SnapshotInForce ==
    \A x \in Actors :
        LET now == config[actor[x].name]
        IN AtDoor(x, "busy") \/ AtDoor(x, "spec") \/ AtDoor(x, "reserve") \/ InGit(x) =>
              now = actor[x].snapshot \/ now.by \in Clis

\* A command that is told of an attempt is told of one made from its own
\* registration, or a later one, and never from what was there before
\* (resolve.rs:19-21).
NotStale ==
    \A x \in Clis : actor[x].answer = "accepted" => actor[x].snapshot.stamp > actor[x].began

\* One request, one attempt at most, on whichever side, also when the answer
\* is lost; and who is told of an attempt is told of that one
\* (daemon_client.rs:9-13).
StartsOnce ==
    /\ \A i, j \in DOMAIN attempts : attempts[i].by = attempts[j].by => i = j
    /\ \A x \in Actors : actor[x].answer = "accepted" =>
         actor[x].id \in DOMAIN attempts /\ attempts[actor[x].id].by = x

------------------------------------------------------------------------------
(* What makes them inductive *)

\* At most one registration is between its SELECT and its INSERT, and what its
\* SELECT has found is still so.
ScanHolds ==
    \A x \in Actors : Registering(x) =>
        /\ \A y \in Actors : Registering(y) => x = y
        /\ \A m \in Known : SlugOf[m] = SlugOf[actor[x].name] => m = actor[x].name

Admitted == {"busy", "spec", "reserve", "branch", "fetch", "reset", "curl", "resolve"}

\* What is attempted has been registered.
AttemptsKnown ==
    /\ \A x \in Actors : actor[x].pc \in Admitted => actor[x].name \in Known
    /\ \A i \in DOMAIN attempts : attempts[i].name \in Known

\* Whose attempt has a row, and whose has not.
HasRow(x) == actor[x].id \in DOMAIN attempts /\ attempts[actor[x].id].by = x

Rowless == {"idle", "lock", "scan", "insert", "read", "busy", "reserve", "curl", "resolve"}

RowsOwned ==
    /\ \A x \in Actors :
         /\ InGit(x) \/ AtDoor(x, "reply") \/ AtDoor(x, "running") => HasRow(x)
         /\ AtDoor(x, "spec") => actor[x].id = 0 \/ HasRow(x)
         /\ actor[x].pc \in Rowless => actor[x].id = 0
    /\ \A i \in DOMAIN attempts :
         LET x == actor[attempts[i].by]
         IN x.pc \notin Rowless /\ (x.pc = "spec" => x.id # 0)

\* A command that has registered its app is in the registration, or before it.
CommandsSeen ==
    \A x \in Actors :
        /\ actor[x].began <= writes
        /\ x \in Clis /\ actor[x].pc \notin {"idle", "scan", "insert", "ended"} =>
              config[actor[x].name].stamp > actor[x].began
        /\ x \in Clis /\ (InGit(x) \/ actor[x].pc \in {"busy", "spec", "reserve", "reply"}) =>
              actor[x].snapshot.stamp > actor[x].began

\* A handler is under trigger_lock from its first look at the registration to
\* its answer; so is a registration, unless a command makes it.
UnderTrigger(x) ==
    \/ AtDoor(x, "read") \/ AtDoor(x, "busy") \/ AtDoor(x, "spec") \/ AtDoor(x, "reserve")
    \/ InGit(x)
    \/ (AtDoor(x, "scan") \/ Registering(x)) /\ x \notin Clis

TriggerHeld == \A x \in Actors : UnderTrigger(x) => trigger = x

CommandsAreClis ==
    \A x \in Actors : ~AtDoor(x, "idle") /\ ~AtDoor(x, "ended") => (IsCommand(x) <=> x \in Clis)

RequestInv == DoorTypeOK /\ StartsOnce /\ RowsOwned /\ NotStale /\ CommandsSeen

SlugInv == SlugsDistinct /\ ScanHolds /\ AttemptsKnown

SnapshotInv == TriggerHeld /\ CommandsAreClis /\ SnapshotInForce

DoorInv == RequestInv /\ SlugInv
================================================================================

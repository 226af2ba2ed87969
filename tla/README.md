# kuadrat in TLA+

kuadrat deploys applications to one host as podman Quadlet units behind Caddy.
A deploy is a pipeline of six stages (detect, build, secrets, apply, route,
healthcheck) that changes the host through commands, records every step in a
SQLite store, undoes itself when a stage fails, and is undone by `reconcile`
when the process dies in the middle. A CLI, a daemon (buttons, an HTTP API,
push hooks, an MCP surface) and the daemon's start-up all run this one engine
over one store. These modules model that engine, how a deploy is asked for and
who may run it when, how its events reach a browser, a webhook's receiver and an
agent, how its health check keeps to its time, and what happens to an app's
units, scheduled tasks, timers, images and secrets on the host.

## The system

| Component | State it keeps | Operations | What makes it correct |
|---|---|---|---|
| Store (`core/src/store`) | tables `deploys`, `locks`, `apps`, `events`, `app_config` | one method per read or write, each one transaction | a row's ending, its lock and its terminal event change together |
| Deploy engine (`core/src/deploy/run.rs`) | none of its own: locals of one call | `run`, `reserve`, `run_reserved`, `reconcile` | a deploy is done, or undone, or says it is neither; it ends once |
| Apply, gateway, health (`core/src/workloads`, `gateway`, `deploy/health.rs`) | unit files, timers, fragments, what systemd and Caddy have loaded, the container | `apply`, `remove`, `prune_tasks`, `apply_route`, `remove_route`, `healthcheck` | foreign files are left alone; what is written is what runs; no timer outlives its app unseen; polling keeps its budget |
| Daemon (`daemon/src/api.rs`, `hooks.rs`, `state.rs`, `lib.rs`) | `trigger_lock`, `deploy_slot`, spawned tasks | deploy requests, push hooks, `reconcile_api`, start-up recovery | one writer per app, one deploy per checkout, no request waits for ever |
| CLI (`cli/src`) | none | local deploy, hand-off to the daemon, `reconcile`, registration back-fill | same, with only the store's lock to go by |
| Hub and stream (`daemon/src/hub.rs`, `stream.rs`, `pages.rs`) | a broadcast ring, one SSE stream per viewer | publish, subscribe, backlog, resume, lag recovery | a viewer sees the log once, in order, to its end |
| Registration (`store::register_app`, `state::spec_for`, `cli/resolve.rs`) | table `app_config` | register, back-fill, read before a deploy | no two apps share a slug; the operator's last word is what is deployed |
| Hand-off (`cli/daemon_client.rs`) | none | ask the daemon, read its answer, deploy locally if nobody is there | one attempt per request, whatever becomes of the answer |
| Webhook notifier (`daemon/src/webhook.rs`) | a subscription | posts notable events, with retries | what was not delivered is in the log or was overrun; it never stops listening |
| Logs (`core/src/logs`, `lines_sse`, `pages.rs`) | a `journalctl` child per stream | read, follow | an unreadable journal is not a quiet one; no child outlives its reader |
| MCP server (`mcp/src`) | the protocol's era | one loop over stdin, a daemon request per tool | every request is answered once and truly |
| Detect and build (`deploy/detect.rs`, `build.rs`) | none (git, podman) | read HEAD, build an image named after it | a name means one commit, so that a rollback brings back what ran |
| Secrets (`core/src/secrets`) | none (podman) | set, rm, ls, the stage's pre-flight | a secret once set stays |
| Status and list (`workloads/query.rs`) | none | several reads per answer | no answer is of two moments |
| Spec, rendering, exec, fs, configuration, assets | none | pure text and thin commands | see "Not modelled" |

Components interact through the store (every process), the host's files and
commands (whoever runs a stage), and, inside the daemon, two guards and the
broadcast hub. What is hard is listed with its source line in `PROJECT.json`
under `hazards`: crashes between any two writes, compensation that fails
halfway, three guards of different reach around one row, a recovery list read
once and used later, and a reader that combines a row, a backlog and a ring
that all move.

## Modules

| Module | Models | Extends |
|---|---|---|
| `DeployStore` | the tables and one operator per store method; no behaviour of its own | |
| `AtomicDeploy` | what a deploy promises: one step from what was served to the new spec, or back | |
| `DeployEngine` | `run.rs`, `apply.rs`, `gateway`, the verdict of `health.rs`: one process at a time, every command and store call a step that may fail or be the last | `DeployStore` |
| `MCDeployEngine`, `MCDeployHistory` | spec sets for TLC, two claims of the code's comments, and a history variable for one of them | `DeployEngine` |
| `Daemon`, `MCDaemon` | request handlers, tasks, start-up and CLI processes as threads over the store | `DeployStore` |
| `EventStream` | store-then-publish, the ring, `events_sse`, the page and `EventSource` | |
| `HealthPoll` | `poll_health` and the stage cap on a clock | |
| `Doorbell` | the webhook's task behind its ring, deliveries and retries | |
| `JournalTail` | an app's page, `lines_sse`, `journalctl -f` and the tab that follows | |
| `MCEdges` | the four above for TLC, one `part` at a time | the four |
| `Workload`, `MCWorkload` | `apply`, `prune_tasks` and `remove` of `apply.rs` with an app's scheduled tasks and their timers | |
| `Fleet` | `status`, `list` and the app list, reading while `Workload` moves | `Workload` |
| `FrontDoor`, `MCFrontDoor` | registrations, deploy requests, pushes and `kuadrat deploy` up to their attempt | |
| `Mcp` | the agent's loop and the daemon it calls | |
| `Secrets` | podman's secrets under concurrent commands | |
| `Images` | HEAD, the images named after it, the unit and the container, under attempts, builds by hand and pulls | |
| `MCHost` | the six above for TLC, one `part` at a time | the six |
| `DeployStoreProofs` | lemmas about the store's operators | `DeployStore` |
| `DeployEngineProofs` | the engine's inductive invariants, what follows from them, and its refinement of `AtomicDeploy` | `DeployEngine`, `DeployStoreProofs` |
| `DaemonProofs` | the daemon's two inductive invariants and what follows | `Daemon`, `DeployStoreProofs` |
| `EventStreamProofs` | the stream's inductive invariant and what follows | `EventStream` |
| `EdgesProofs` | those of `HealthPoll`, `Doorbell` and `JournalTail`, and the four side by side | `MCEdges`, `EventStreamProofs` |
| `WorkloadProofs` | the three inductive invariants of `Workload`, that of `Fleet`, and what follows | `Fleet` |
| `FrontDoorProofs` | the two inductive invariants of `FrontDoor` and what follows | `FrontDoor` |
| `HostProofs` | those of `Images`, `Secrets` and `Mcp`, and the six side by side | `MCHost`, `WorkloadProofs`, `FrontDoorProofs` |

`Daemon` and `DeployEngine` compose the store with what runs over it, `Fleet`
composes the questions with `Workload`. The other components meet only through
facts a model of one takes from the other (that a verified push reaches the
mutex, that an attempt ends), so `MCEdges` and `MCHost` do not compose them: a
behaviour chooses its `part` in the first state and the rest stands still. That
checks each on its own, in one run for those with liveness and one for those
without, where fairness costs nothing.

A row's id is its position in `deploys`; an event's id is its position in its
deploy's log (in `EventStream`, in the whole table). `events[d]` holds what
`events_for(d)` returns; in `EventStream`, `rows[d]` holds the ids of what it
returns, in its order. Definitions that stand for code are listed with their
lines in `PROJECT.json` under `map`. Operators introduced by a comment that
begins with "Mutant" are plausible bugs of the definition that follows them;
no specification uses them.

### DeployEngine

`pc` is the place in `run_stages`, `apply`, `remove`, `apply_route`,
`remove_route` or `reconcile`; `job` holds the locals (the spec, the previous
spec as `load_previous` read it, the stage, whether `compensate` is running, the
old text of the unit file, the rows `reconcile` still has to do). `host` keeps
per app the unit file, the unit systemd has loaded, the unit the container was
started from, the fragment and the fragment Caddy has loaded. A unit is reduced
to a version, a fragment to a route; a file without kuadrat's marker is
`Unowned`. A failing command may leave the host as before, changed, or (a
restart) with the old container stopped; a failing or interrupted write may,
with `Tearing`, leave a truncated file. A store call that errs returns from
where the code's `?` returns. `Crash` loses `pc` and `job` and nothing else.

### Daemon

A thread is a request, the task it spawns, a starting daemon or a CLI process.
`RepoPath` is the checkout each app is registered with. The engine's steps are
cut to its store calls and to whether the host is being changed; store errors
are the engine module's subject. `trigger`, `slot` and the store's `locks` are
the three guards. `Disconnect` drops a handler at an await, as axum does when
its client goes. `Careful` is the rule of api.rs:376-377: the operator does not
run a recovery, or start a daemon, while a CLI process deploys, and the reverse.

### EventStream

`sent` is everything this daemon has published; a receiver is a position in it
and what lies more than `Capacity` behind is gone. A viewer's record is the
stream's locals (`last_sent`, the backlog being yielded, `already_terminal`) and
the client's (`Last-Event-ID` or the page's `resume`, the rows on the page).
`Foreign` deploys are run by a CLI process, whose sink is a `NullSink`.

### Workload

`DeployEngine` has one unit per app; here an app has its main unit and, for each
scheduled task, a `.container` and a `.timer`. `unit` and `timer` are the two
directories, `loaded` what systemd read at the last `daemon-reload`, `armed` the
schedule it runs an active timer by, `running` the unit a container was started
from. A stem is the sequence of the words of its slug, because `prune_tasks`
knows an app's task units by a common prefix only; it scans the quadlet
directory, then the systemd one, in any order, as `read_dir` does. `pc` and
`job` are the place and the locals of one `apply` or `remove`; runs follow one
another and each starts from whatever the last one left. Any command or write
may fail, with its effect, without it or (a write) leaving an empty file, which
no longer carries kuadrat's marker and counts as `Foreign`. Initially any file
may be one the operator wrote.

### Fleet

A question is read step by step: for a status the unit file, then
`systemctl is-active`; for the list the directory, then each file in it. Every
step of `Workload` may come between two of them, and while a question is under
way the module remembers which states each app has been in and which units were
kuadrat's. A container that failed counts as stopped. As in `Workload` one run of
`apply` or `remove` is under way at a time; the CLI's own `apply` and `remove` take
no lock that would make it so.

### FrontDoor

An actor is one request: to the daemon (a registration by API or form, a deploy,
a push) or a `kuadrat deploy`. `trigger` is the daemon's mutex, `config` the
`app_config` table, whose rows carry their writer and their place among all
writes, so that what a handler has read can be told from what was there before.
`register_app` is a scan and an insert; within the daemon nothing comes between
them, between two processes something may, unless `Apart`. The daemon may die
with requests in hand, before or after it has reserved, and the command then
reads `curl`'s exit as `daemon_client.rs` does. The attempt is a row that ends
some time; what happens in it is `DeployEngine`'s and `Daemon`'s.

### Doorbell, JournalTail, Mcp

`Doorbell` has the hub as what was published and a position in it, like
`EventStream`; per event it keeps the posts made, how often the receiver got the
message, and why it was passed over. A delivery may fail after it arrived.
`JournalTail` has the journal as a number of lines, and per tab what it shows,
its `EventSource` and the handler behind it. A connection may be lost with or
without the server noticing; in the second case it becomes one of `orphans`,
which ends when something is written to it or at the deadline. `Mcp` takes
lines from a pipe the client may close, and a call in hand goes through `curl`
to a daemon that may die before, while and after it begins the deploy.

### Secrets, Images

`vault` is what podman has. `set` is two steps, and `lost` keeps which names
need not be there: never set, removed, or lost with a set that broke in between.
In `Images` a commit stands for its source and for an image built from it:
`tags[c]` is what the name of `c` holds. An attempt occupies the app's row and
lock in one step (the two halves of `reserve` are `Daemon`'s), may pull, reads
HEAD, builds, applies and ends, fails or rolls back. `kuadrat build` and the
operator's own pulls know no lock; `Orderly` says that these keep away from a
checkout between somebody's look at HEAD and the build from it.

## Runs

| Run | Bounds | Question |
|---|---|---|
| `engine_faults` | 3 deploys of 2 versions with a domain each, 2 failing commands | without crashes, is a deploy atomic (`AtomicDeploy`), and does a quiet app serve exactly its last good spec |
| `engine_crash` | 2 deploys, 2 failures of commands or store writes, 2 crashes, torn files | what locks, log, files and endings look like after any recovery; does every attempt end |
| `daemon_safe` | 2 apps, 3 threads, 3 deploys, 1 crash, hang-ups; buttons, hooks, restarts, CLI deploys and recoveries, carefully | do locks belong to live attempts, do a row and its log agree on one ending |
| `daemon_recovery` | 1 app, 3 threads, 3 deploys, 1 crash, hang-ups; recoveries through the API at any time | what slot and mutex keep apart |
| `daemon_live` | 2 apps, 3 threads, 2 deploys | does everybody get their turn |
| `edges`, stream | 2 deploys, one foreign, 1 viewer, ring of 1, 6 events, 2 drops or restarts, refusals | is the page the log, and does the stream end |
| `edges`, poll | the code's own 60 s, 2 s, 5 s, 90 s | do the timers add up |
| `edges`, bell | 2 posts per event, ring of 1, 3 events, 1 death | is a missed message accounted for, does the task catch up |
| `edges`, tail | 2 tabs, backlog of 1, 3 lines, 2 mishaps | does a follower come to the newest line, is silence honest, do children leave |
| `host`, workload | 2 apps with a task of the same name, 4 specs with 0 to 2 tasks, 3 runs, 2 failures, 1 crash, one hand-written file | does a run that reports success leave exactly the spec, whatever came before it; are foreign files, neighbours and timers safe |
| `host`, fleet | the same apps up, 2 more runs, 1 failure, 1 question | does every answer hold at some moment of its request |
| `host`, door | 3 names, two of one slug and one without, 2 requests, 1 command, 1 death | are registrations sound, is what is deployed what was asked for, and once |
| `host`, mcp | 2 lines, 2 outages | is every request answered once and truly |
| `host`, secrets | 1 name, 3 commands, 5 uses, 1 break | does a secret once set stay |
| `host`, images | 2 commits, 3 attempts | does a host at rest run the last good commit |
| `engine_spec_kept` | 1 deploy, 1 crash | finding: rollback after `put_spec` |
| `engine_route_cleared` | 2 deploys | finding: a cleared route stays up |
| `daemon_two_writers` | 3 CLI deploys | finding: the lock is released twice |
| `daemon_reconcile_live` | 3 threads | finding: recovery takes live attempts for stranded |
| `slug_race` | 1 request, 1 command | finding: two apps of one slug |

Why the bounds are enough. Two specs and two deploys give a first deploy and a
replacement, which are the two arms of `unwind_apply` and `unwind_route`; the
third deploy of `engine_faults` meets what a failed or rolled-back second one
left. Two failures are a stage that fails and a compensation that fails; two
crashes are a crash of a deploy and a crash of its recovery. One app is enough
where a process runs alone, since no step reads another app's row, lock or
files; two apps are in `daemon_safe`, where lock and slot have different reach.
Three threads are an attempt, its rival and a third who profits, which is the
length of the double-release scenario. A ring of one makes every second event a
lag. In the part `workload` the third run follows a run that failed or died halfway and
the one before it, whose units it must still find; the second app is there to be
left alone. In `door` a third actor beside a reader and a writer of a
registration adds only a second of either kind; the third name is the one no
unit can be made of. Two lines of the agent are one whose answer is delayed or
lost and one behind it, and two outages a daemon that is gone, is back and is
gone again. Secrets of different names never meet; three commands are two sets
and a pre-flight or a removal, and five uses let one of them come round again.
Three attempts are a good one, one that replaces it and fails, and a rival.
`daemon_*` runs a pipeline of one stage before the host is touched and one
after it, since no guard looks at any other difference between stages.

### Fairness

`DeployEngine!FairSpec` (`engine_crash`): a process that is up takes its next step, and recovery
is run again and again. Commands end or are killed by the operator, and
packaging's unit restarts the daemon, whose every start reconciles.
`Daemon!FairSpec`: a thread proceeds (weak), and gets the mutex or the permit
when these come free again and again (strong): tokio's `Mutex` and `Semaphore`
are FIFO. Nothing is assumed about arrivals, crashes or hang-ups.
`StreamFair`: attempts end (`EveryAttemptEnds`), publishing follows storing, the
daemon is restarted, connections are served. `PollFair`: the clock and due
timers; no fairness for the health command's answers. `BellFair`: the task
proceeds, since `curl` gives up by itself, and is spawned by a daemon that has
started; nothing about deliveries that succeed. `TailFair`: a tab that is not
closed is served, and a half-dead follower meets its next line or its deadline;
a read that fails does so a bounded number of times, and a journal that cannot
be read never opens a stream. The part of `MCEdges` that does not move rests
where none of its fair actions is enabled.

## Findings

Five things the code does are not what its comments say; each has a run whose
counterexample shows it.

1. **A rollback that keeps the new spec** (`engine_spec_kept`). `put_spec` and
   `finished` are separate writes; after a crash between them the recovery takes
   the new spec for the previous one and reports `rolled_back`.
2. **A cleared route stays up** (`engine_route_cleared`). The Route stage does
   nothing for a spec without a route, so the old fragment is never removed.
3. **A lock released twice** (`daemon_two_writers`). `run_reserved` releases by
   app what `finished` has already released; another attempt may have taken it
   in between, and a third is then let in beside it.
4. **Recovery of the living** (`daemon_reconcile_live`). Rows are `in_progress`
   from their reservation, before their task has the slot that `reconcile_api`
   holds.
5. **Two apps, one slug** (`slug_race`). `register_app` looks for a colliding slug
   and then inserts. The daemon and `kuadrat deploy` both do that over one file,
   each under a lock of its own process, so both registrations go through and
   the two apps share units, container and images.

Met on the way, without a run:

- An unchanged unit file is only `start`ed, even when an earlier failure or
  crash left another container up; for the same reason a redeploy of a commit
  with further uncommitted edits rebuilds the image and leaves the old container
  running, though README.md:169-171 of the repository says that a redeploy after
  an edit is the same command again. A later restart or rollback then picks the
  edited image up, for both share the name.
- `kuadrat build` and the operator's git commands know no lock: with `Orderly`
  false TLC finds an image that is not of the commit it is named after.
- Nothing keeps two apps from being registered with one checkout, and what keeps a
  push off a checkout that a deploy is reading is the row of its own app
  (hooks.rs:175-178): with such a `RepoPath`, TLC finds a push to one that resets
  the checkout while the other's build reads it, which state.rs:31-34 rules out.
- An app may be taken for another's task (apply.rs:177): with `web` beside an app
  `web-task-job`, an apply or a removal of `web` deletes the other's unit file and
  leaves its container up. A removal of the other then finds no unit and stops
  nothing, an apply finds nothing to restart; both report success with the old
  container running. TLC shows it when given those names.
- `remove_route` skips the reload when a crash already deleted the fragment; a
  file torn by a crash loses its marker.
- A viewer that reads a row just before `reserve` refuses it waits for an event
  that never comes; a viewer of a deploy run by the CLI is never told that it
  ended; what the recovery at start-up ends rings no bell, for the notifier
  subscribes after it.
- `state.rs:67-68` promises the last spec when there is no `kuadrat.json`, which
  `spec_for` refuses; a local `kuadrat deploy` goes by the last spec and its own
  flags although it has just written a registration.
- `tools.rs` tells an agent to wait for "succeeded" where the status is "done",
  and that reconcile "cannot interrupt a live deploy", against finding 4.
- The webhook's comment speaks of three seconds; the retries may take thirty-two.
  The CLI's and the agent's `curl` have no limit at all, so a daemon that hangs
  holds up every later line of the agent.
- A reconnecting follower is shown the last lines again, and misses those that
  came before them. A line that is not UTF-8 ends the agent's session.
- `secret set` leaves a gap, and of two sets at once one may fail; `list` omits a
  unit that is being rewritten and names task units as apps.

## Proofs

All of this is for any number of apps, specs, deploys, failures and crashes.

### The engine

`DeployEngineProofs` rests on `StoreAssumption` and `EngineAssumption`, which TLC
evaluates in every run. What a store operator does to the tables is stated once
in `DeployStoreProofs`. Four invariants are proved, each inductive next to those
before it.

- `LockInv`, from which `TypeCorrect`, `LocksLive` and `EndingsFinal` follow.
  `LockHolderLive` alone is not inductive: that a `Finish` writes the ending of
  the attempt whose lock it frees needs to know whose row the job works on.
  `LockInv` adds that a job at work has an unfinished row of its own app
  (`OwnRow`), that an attempt not yet admitted holds no lock (`NothingHeldYet`),
  that what a recovery has read and not handled is still unfinished
  (`TodoUnfinished`), and that there is a spec behind every file about to be
  written (`SpecsKnown`, for the types).
- `LogInv`, from which `RowsAndLogsAgree` and `LogsInOrder` follow. Every log is
  a prefix of the pipeline, then perhaps a failure, then perhaps the ending
  (`WellLogged`), and the length of the running attempt's log is a function of
  where the job stands (`JobLogged`): without that, nothing says that the next
  entry is the next stage's.
- `ServedInv`, from which `LastGoodStays` and the refinement `KeepsPromise`
  follow. For each place in a run it says which of the unit file, the loaded
  unit, the container, the fragment and Caddy's copy are still the previous
  spec's and which are already the new one's (`GoesForward`), and the same on the
  way back (`GoesBack`). The delicate part is `UnitUndoable`: `unwind_apply`
  restarts only if the text of the file changed, so while anything is to be
  undone a file that still has the old text must mean a container that has the
  old version. Its hypothesis is `Undisturbed`, the setting of `engine_faults`:
  no crash, no failing store write, no torn file (each of them leaves a container
  that lags, see "Met on the way"), and `RoutesKept`: every spec has a route.
  Without that last one `engine_route_cleared` is a counterexample. Failing
  commands are as many as `MaxFaults` says. For the refinement, `Serving` is
  shown to be what the app would go back to as long as the run lasts; a `Submit`
  maps to `Accept`, a `Finish` to `Succeed`, `RollBack` or `Fail`, a `Refuse` to
  `Refuse`, and every other action to a stutter.
- `FilesInv`, from which `FilesStayLastGood` follows, with crashes, failing store
  writes, torn files and any number of recoveries; its only hypothesis is
  `RoutesKept`. Nothing is known of the host while nobody works on it, so the
  invariant is about the row: a file that is not the last good spec's is owed by
  an unfinished attempt of the app whose row has come to a stage that touches
  that file (`ChangesOwed`). This is what makes it right that `compensate` goes
  by the stage in the row, and that `advance_stage` comes before the stage's
  first command. `RowPlace` ties the row's stage to the job's, `JobPlace` says
  which stage's procedure the job is in, and `JobFiles` what it has written so far.

`LockInv` is checked by TLC in `engine_crash`; the others were checked there and in
`engine_faults` before they were proved.

### The daemon

`DaemonProofs` proves `BaseInv` of every `Spec`, operators without care included
(`BasicsHold`): the types, which kind of thread may be where (`PlacesKept`),
that whoever is between its first check and its spawn has the mutex
(`MutexHeld`), that a task at work, or a recovery asked for through the API, has
the slot (`SlotHeld`), that nobody is served before the start-up recovery is
over (`ServingKnown`), and which row is whose (`RowsOwned`, `IdsDistinct`). When
the daemon is the only one at work (`DaemonOnly`) that is enough for one writer
at a time, whence `WritersApart` and `RunningLeftAlone`. `CheckoutsApart`, which
takes besides that every app has a checkout of its own (`CheckoutsOwned`), and
`NewestIsLastGood` need `GuardInv` (checked by TLC with the constants of
`daemon_recovery` before it was proved): an attempt in a stage has an unfinished
row (`WorkIsLive`), so that the next one is turned away by `ensure_not_busy`; at
most one attempt per app is let in and unfinished (`OnePerApp`); none of them
has been overtaken by a later one that succeeded (`NotOvertaken`); and whoever
is about to end well has its spec recorded (`DoneIsRecorded`). `DaemonOnly` is
the code's own limit: `daemon_two_writers` shows what CLI deploys do to the
first of these properties.

`LedgerInv`, which TLC checks in `daemon_safe`, is proved under `CarefulOnly`: local
deploys and recoveries are kept apart, which is what api.rs:376-377 asks of the
operator, and nobody recovers through the API, for `daemon_reconcile_live` shows
that such a recovery may meet a living attempt. It says that a recovery has the
store to itself (`RecoveryAlone`), hence that the rows a thread works on, and those
on a recovery's list, are open and have no ending in their log (`RowsOpen`,
`TodosOpen`), hence that locks belong to unfinished attempts of the same app and
that row and log agree. `StrandedOnly` is `OnlyStrandedReconciled` under
that hypothesis.

### The others

#### Workload and Fleet

`WorkloadProofs` proves `TimersFindable`, `NoDeadTimer` and `ForeignFilesKept`,
for any set of slugs, including apps whose names make their task prefixes
collide. None of them is inductive. `UnitsInv` adds what `apply` learns in one
step and relies on in a later one: what the preflight checked still holds at
each write (`PreflightHolds`), every task about to be enabled already has its
timer (`TasksWritten`), and a timer about to be deleted has been disarmed and
bears the app's prefix (`Disarmed`).

Names may collide: the code does not see to it that no app's unit begins with
another's task prefix (`NamesApart`), and with `web` beside an app `web-task-job`
`NeighboursKept` is false. What is true then is `RunKeepsToItsPrefix`: a step
touches nothing but its own app's units and units under its app's prefix. From
that, `NeighboursLeftAlone` is one lemma about names away: under `NamesApart`
nobody else has such units (`OwnApart`).

`SuccessIsExact` has two halves, and only one of them is about names. What a run
that reports success leaves on disk, in systemd and among the timers is what was
asked for, whatever the apps are called (`SuccessLeavesTheFiles`). That follows
from `RunInv`, which says place by place which of the asked-for files are written
(`FilesSoFar`) and what of them systemd has read (`SystemdSoFar`), whatever was
there when the run began; a run prunes under its own prefix, where its own main
unit never is. Which container is up follows from `ContainersKept`, and that is
where `NamesApart` comes in: its one clause about the host at rest is `NoGhost`, no
container without its unit, which is why a run that finds no unit file starts
the new text and why a removal that finds none has nothing to stop. A prune that
takes an app for a task breaks it. `SlugAssumption`, that a slug is a sequence of
words, is what the lemmas about prefixes rest on. The apps of the run satisfy
`NamesApart` (TLC checks so, in `HostInv`).

`FleetInv` ties what a question has read so far to what has been true since it
was asked. The delicate place is between the two reads of a status
(`ActiveHolds`): the file was there, systemd has not been asked, and the app is
removed. That the answer is then true of a moment when there was a file is
because a container that a step of `Workload` starts, stops or restarts has its
unit file after that step (`FileBehind`: a removal stops before it deletes, an
apply writes before it starts). That is a consequence of `RunInv` alone, so
`AnswersStayTrue` holds for names that collide as well.

#### FrontDoor

`FrontDoorProofs` proves `StartsOnce` and `NotStale` from `RequestInv`, for any
names, requests, commands and deaths, and `SlugsDistinct` from `SlugInv` under
the assumption `Apart`, without which `slug_race` refutes it. `StartsOnce` is
inductive only with `RowsOwned`: an actor at a place before its reservation has
no row, one after it has the row it speaks of, although the daemon it asked may
have died in between. `NotStale` needs `CommandsSeen`: a command that has
written its registration finds in the table its own write or a later one, since
writes are only ever replaced. `SlugsDistinct` needs `ScanHolds`: what the scan
found is still so at the insert, because at most one registration is between
the two; and `AttemptsKnown`, since a name enters `apps` through an attempt.
`SnapshotInForce` is proved from `SnapshotInv`: a handler that has read a
registration still has the mutex, whose holder is the only one in the daemon to
write the table, so the row is the one it read unless its writer is a command.

#### EventStream

`NoGapNoRepeat` and `GoneSawAll` follow from `StreamInv`, for any deploys, viewers,
ring size, drops, lags and restarts. It says of a deploy's rows that they are in
the order of the table (`RowsInOrder`) and of the ring that a deploy's events are
in it in that order, the one stored and not yet published being the newest
(`SentInOrder`). Of a viewer it says that what it was shown is an initial stretch
of the rows and that the id it would resume from is the last of them
(`ViewerKept`), and, while its stream is open, that its queue is a stretch of the
rows that begins no later than where the page ends, and that every row beyond
both is still to be received (`LeavesNoGap`, `Coming`). Subscribing before
reading the backlog is what makes the last clause true, and skipping what is not
above `last_sent` is what lets the two overlap without a repeat. It is claimed
of deploys this daemon runs: what a CLI process stores is never published, and
there the clause is void while the prefix still holds.

#### HealthPoll, Doorbell, JournalTail

`CapForWedgedOnly` follows from `OnTime`: an attempt or a sleep begins within the
budget and lasts at most its own length, so polling is over at `Budget +
Timeout`, before the cap, unless a command cannot be cancelled. It needs
`Budget + Timeout < Cap` and `Interval <= Timeout`, which the code's constants
satisfy. `BudgetIsUsed` adds `OnPace`: attempt number n began no earlier than n - 1
intervals and no later than n - 1 rounds of timeout and interval after the first.

`MissesAreSaid` needs `PostsCounted`: no post is counted for a message the task
has not come to, none has an excuse before it is given up, and one is given up
for its failures only when every try is used. `SilenceIsHonest` needs that a page
which is loading has found its app (`TailInv`). `MissesAreNeverSilent` puts the two
together, for `MCEdges`'s own specification: a step of one part leaves the
variables of the others alone (`PartsApart`). `EdgesHold` is `EdgesInv` for the same
specification and any bounds, the clock's part of it only while the poll moves.

#### Images, Secrets, Mcp

`HostProofs` proves `RunsLastGood` from `ImagesInv` under `Orderly`. The chain is:
one attempt at a time (`OneAtATime`), so that nobody pulls between its look at
HEAD and its build (`HeadHolds`), so that a name holds its own commit, so that
what an attempt remembers as previous is still the last good name and still
built when it has to be put back (`PlanHolds`), and a unit that bears that name
never has another container (`HostHolds`), for then an unchanged text would be
`start`ed and not restarted. `SecretsKept` is inductive but for the types.

`OneAnswerEach` and `ToolsTellTruth` are inductive together with `CallInHand`:
there is a request to the daemon exactly while the loop handles a call, nothing
has been begun for a line beyond the one in hand, nothing for that one while the
request is on its way or after it was refused, and at most one deploy after it
was taken, whether or not the answer came back.

`HostKept` puts the six components of `MCHost` together: `HostInv` for its own
specification and any constants with `NamesApart`, `Orderly` and what its host with
both apps up takes for granted (`HostGiven`: that app exists, and the bounds leave
room for the run before). `PartsInv` is every component's inductive invariant
at once, a question's while questions are asked; whichever part moves, each makes
a step of its own or none (`OnePartMoves`).

### Only model-checked

All liveness, and what is enabled when, is out of the prover's reach:
`EveryAttemptEnds` of engine and daemon, `EveryThreadEnds`, `StreamsEnd`,
`StageEnds`, `BellCatchesUp`, `FollowerCatchesUp` and `FollowersLeave` stay with
TLC. Every safety property of a passing run, `EdgesInv` and `HostInv` included, is
the property of a theorem, some of them under hypotheses that are named there. The
bounds of the runs limit what TLC explores; the theorems hold for all their values.
Of the five properties that a run refutes, three are proved under the hypothesis
that the run lacks: `WritersApart` (`DaemonOnly`), `SlugsStayDistinct` (`Apart`) and
`StrandedOnly` (`CarefulOnly`).

## Not modelled

Parsing, rendering, HTML and the computation of signatures are pure. Signals and
exit codes of child processes are reduced to success or failure. Configuration
is read once from the environment, and assets are constant. `logs::search` has
no caller. Uncommitted edits of a checkout, and two apps on one checkout, are
left out of `Images` (see "Met on the way"); `Daemon` has the checkout each app
is registered with as a constant, and a change of it is `FrontDoor`'s. The
models are composed where components share state that both change; in particular
an attempt's inner life is not composed with `FrontDoor`, where it just ends.

## Plan

What would add most from here:

1. `Workload`: a retry after a failed restart, which only `start`s the unit, and
   uncommitted edits in `Images`; in `DeployEngine`, a `RoutesKept` that is asked app
   by app, for apps that never had a route.
2. One module over `FrontDoor` and `Daemon`, in which an attempt that a request
   started goes on to use the slot, and a registration may move a checkout.
3. Proofs: `LedgerInv` with the operator's care reduced to what a lock could
   enforce.

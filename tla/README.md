# Formal models of the toolbox backend

A desktop shell starts a local Python backend (`src/next/backend`). The backend runs *task runs*
(merge and push Git branches, start builds, create releases and deploy them on a remote Azure
DevOps server, unattended), is operated from a desktop window and from Telegram, keeps a
configuration and credentials, supervises AI command line tools, local services, tunnels and an MCP
server, connects the VPN, and installs a VPN bypass daemon. This directory models those parts, checks the models with
TLC and proves, with TLAPS, the central properties of the run journal, the run service, the remote executor
and its Git step, the configuration store, the Telegram slots, updates and buttons, the AI sessions, the local
services and the VPN runs. Paths below are relative to
`src/next/backend/src/toolbox_backend/` unless they start with `src/`.

## 1. Inventory

| Component | State | Operations | Hard behaviour | What makes it correct |
|---|---|---|---|---|
| Run journal `adapters/run_store.py` | SQLite: runs (status, version, stop, recovery state), steps and checkpoints, effects, reservations, events; in memory: the connection and the write-failure guard | create, transition (compare-and-swap), cancel, record (checkpoint, step, intent, receipt), log, recover, close | crash between any two transactions, I/O errors, stale versions, retried requests | one active run per task, reservations follow the status, effects only move forward, no run is closed with an open effect |
| Run lifecycle `services/runs.py` | workers, lost workers, cancellation events, observers, four permits, acceptances under way | start, cancel, reconcile, recovery loop, initialize, close | every await is an interleaving; failing handlers; deadline, queue timeout, shutdown grace, crash | a write is sent at most once, a closed run is verified, no run is dropped, everything concludes |
| Remote executor `adapters/ado_tasks.py`; Git step `adapters/task_git.py`, `adapters/git_process.py` | checkpoints, intents, receipts (in the journal); locks, the working copy | prepare, execute, reconcile; fetch, update, merge, push, restore | lost answers, late requests, other users of the server and of the repository, a child that outlives the backend | nothing is written twice, nothing is deployed that was not built, what cannot be proved stays unknown |
| ConfigStore `adapters/config_store.py`, `services/tasks.py` | the configuration file and its revision, asyncio lock and file lock | read, run, update, initialize (migration), guard | two processes, cancelled callers, faults around `os.replace` | one register: revisions grow by one, a reported failure was not committed; what an active run froze does not change |
| Settings and credentials `services/settings.py`, `adapters/credentials.py` | the configuration and the Keychain, which no transaction joins | libraries and PATs, import of the old application, decline | a death or a failed write between the two stores | no PAT is used for an address it was not given for, none is left unlisted |
| Event hub `services/events.py`, `api/ws.py` | subscribers, cursors, pending events, histories of 1024, queues | publish, subscribe with replay, unsubscribe, overflow | commits during replay, slow clients, reconnects | per topic: no gap, no duplicate, in order |
| Telegram control `services/telegram*.py`, `adapters/telegram_store.py` | offset and registered updates, the slots and their sessions, the outbox, one-shot buttons | poll, handle, enable, disable, retry, notify, send, consume, menus | crash between registration and handling, handlers that outlive a session, lost answers, double taps, lost rights | a command runs at most once and in order, a bot is polled by one slot, an ambiguous message is not repeated, a panel offers what it can do |
| AI sessions `services/ai_*.py`, `adapters/ai_store.py`, `adapters/ai_process.py`, `adapters/proc_supervisor.py` | sessions, turns, approvals, rules, child processes | create, submit, interrupt, approve, expire, close, recover | approval against expiry, results after an interrupt, orphaned processes, reused pids | one end per turn, one decision per approval, no session without a task |
| Services and tunnels `services/services.py` | per record: state, process, readers, monitor | start, stop, restart, create, delete, shutdown | exits during operations, concurrent creations, a shutdown that cuts operations off | one process each, every one told to end |
| MCP `services/mcp.py`, `mcp/` | state of the Lark server, the claim of an operation, the job of the installation | start, stop, login, logout, install, cancel | cancellation inside a teardown, settings saved meanwhile | one server, one installation, every claim released |
| VPN bypass `vpn/bypass_daemon.py`, `vpn/bypass_installer.py`, `services/vpn_bypass.py` | route table, journal and snapshot of the root daemon | sweep, install, activate, deactivate | kills between a route command and its record, changes by others | every route of ours is journalled, nothing of others is removed |
| VPN session `services/vpn.py`, `vpn/login_worker.py`, `adapters/vpn_browser.py`, `vpn_client.py`, `window_automation.py` | the run under way and its task, the registry of the Chromes of logins, in memory and in a file | start, cancel, submit a code, clear the profile, close; inside a run: open, restart, press, log in | an ended run that overlaps the next one, a monitor that writes the address beside the ladder, interruptions at every await, a Chrome that survives | one run, which cancel and close reach; a success is a connection; a login leaves no process behind and kills no other |
| Work items, releases, API `api/`, wiring `app.py` | none of their own, or a worker thread | request handlers; `app.py` orders start and shutdown | the concurrency of ConfigStore | as ConfigStore |
| Desktop `src/next/desktop` | supervisor of the backend, updater, views | start, restart with backoff, update | backend dies while starting or updating | one backend at a time |

How they interact: the API and Telegram call `RunService`; an acceptance runs inside ConfigStore's
lock, so that a settings write and a reservation are never concurrent; `RunService` and the
executor reach the journal through `RunStore.call`, a thread under one lock; committed events go
through the event loop to the hub, and from there to WebSocket clients and to the notifications of
Telegram; the AI store publishes its events to the hub when the writing coroutine resumes; the start
and the end of all of them are ordered by `app.py`'s lifespan.

`PROJECT.json` lists the hazards of this code, each at its line, with the properties that cover it.

## 2. Modules

| Module | What it models |
|---|---|
| `RunLease` | the abstract promise of the journal: locks are taken together, never shared, kept while any remote operation is open, given back in one last step |
| `RunJournal` | the journal, one action per transaction of `RunStore`, its callers unconstrained |
| `RunService` | the service: clients, workers, permits, observers, recovery loop, start, shutdown and crash; EXTENDS `RunJournal` and calls its actions |
| `RunProofs`, `AdoExecutorProofs`, `GitFlowProofs`, `ConfigStoreProofs`, `TelegramProofs`, `AiSessionsProofs`, `ServiceLifecycleProofs`, `VpnRunsProofs` | the theorems, section 5 |
| `AdoExecutor` | the executor of a run and its reconciliation against a server: builds, releases, environments, other users, requests that are lost or arrive late |
| `GitFlow` | the Git step: directory locks, commands, pushes, restoration, people who commit and push meanwhile |
| `ConfigStore`, `ConfigRegister` | the store of the configuration with its two locks, threads and processes; the register it implements |
| `SettingsCredentials` | operations over the configuration *and* the Keychain |
| `EventStream` | one subscription: journal, publication, replay, buffer, queue, socket, client |
| `TelegramUpdates` | takeover of a bot, polling, registration, two workers, handlers |
| `TelegramSlots` | the main slot and the AI slots: enable, disable, retry, tokens, sessions, the shared database, the message being sent |
| `TelegramOutbox` | notifications, the bounded outbox, the sender |
| `TelegramActions` | one-shot buttons: tokens, taps, confirmations, cancellations, rights |
| `TelegramMenu` | the screens, what each panel offers, what its handlers refuse, Back |
| `AiChat` | the owner task of one AI session: queue, turns, interrupts, approvals, timers |
| `AiSessions` | creation under a lock, limits, session tasks, processes, pids, crash and recovery |
| `ServiceLifecycle` | records of services and tunnels: launch, monitor, readers, close, shutdown |
| `LarkLifecycle`, `RuntimeInstall` | the managed MCP server with its login; the installation job |
| `BypassDaemon` | the sweep of the root daemon, the installer, the requests of the service |
| `VpnRuns` | the runs of the VPN session: the ladder, its monitor, the login with its worker and its Chrome, cancel, timeout, close, restart |
| `MC*` | instances for TLC |

Refinements: `RunService => RunJournal => RunLease` (`ImplementsJournal`, `ImplementsLease`) and
`ConfigStore => ConfigRegister` (`ImplementsRegister`).

Each section below names the correspondence that is not obvious from the names, which are those of
the source; `PROJECT.json`, "map", gives the lines of every definition.

### RunJournal

| Variable | Code |
|---|---|
| `status`, `task`, `request`, `stop`, `recovery` | columns of `runs` |
| `step`, `seen` | `run_steps.status`, and the remote ids in its checkpoint |
| `effect` | `run_effects`: state, remote id, owned; "none" when there is no row |
| `holder` | `run_reservations`, by resource key |
| `store` | `_db` and `readonly_error`: closed, open, failed (the write guard), refused |
| `fresh` | `state_version`, see below |

Actions: `Initialize`, `Crash` (also `_close`), `WriteFault`, `Get`, `Create`, `Transition`,
`Cancel`, `Checkpoint`, `FinishStep`, `Intent`, `Receipt`, `Log`, `Recover`. A call that raises
changes nothing, so it is the absence of a step. `state_version` only ever grows and is only
compared for equality with the value a caller read; the model therefore keeps for each run the
callers whose last read is still current: `Get` adds one and every write empties the set. A log
line writes nothing once the log of the run is full, which `Log` leaves open.

Abstracted: texts, timestamps, events and paging; run ids are chosen from unused ones; the JSON of
a checkpoint is the set of build, pipeline and release ids in it; an intent key is a record
`[step, kind, resource]`. A database of a newer schema, which the code opens for reading only, is
treated as `refused`, like one that cannot be opened: neither can be written.

### RunService

Each coroutine has a program counter, and one step per `await` of the journal: `Call` is the
accepted call, the call that commits and then raises (the read after the commit fails), the call
that fails without effect, and the refused call. Between two steps anything else may happen.

| Code | Actions |
|---|---|
| `start` | `Lookup`, `Enter` (second test of `closing`), `AcceptRefused`, `AcceptServed`, `AcceptCreates`, `Spawn` |
| `cancel` | `ApiCancel`, then `Ring` sets the event of the worker, if there still is one |
| `_slot`, `_execute_worker` | `Acquire`, `SlotCancelled`, `SlotTimeout`, `Read`, `Claim`, `Deadline`, `ExecReturns`, `ExecRaises`, `ExecGitFails`, `StopFirst` |
| `_failure_outcome`, `_finish` | `Assess`; `Finish`, `Decide`, `Note` (for an observer `ObsReads`, `ObsDecides`, `ObsNotes`) |
| `_execute` | `Leaves`, and `Lost` when the handlers raise |
| executor through `ExecutionContext` | `ExecCheckpoint`, `ExecFinishStep`, `ExecIntent`, `ExecSend`, `ExecReceipt`, `ExecStop` |
| `reconcile` | `ApiReconcile` or `LoopReconciles`, `ObsBegins`, `ObsOpens`, `ObsReceipt`, `ObsFinishStep`, `ObsReturns`, `ObsTimeout`, `ObsApologises` |
| `_recovery_round` | `LoopRecovers`, `LoopLists`, `LoopEscalates`, `LoopReconciles` |
| `initialize`, `close`, exit | `Boot`, `BootRecovers`, `BootDone`, `BootFails`; `CloseBegins` ... `CloseDone`; `Kill` |

The executor is deliberately weaker than the code: any order of checkpoints, finished steps,
intents, sends and answers, with the three rules every write of `AdoTaskExecutor.write` and
`GitAdapter.execute` follows: the intent is journalled before the request is sent, the request is
sent once, the answer is journalled as confirmed, or (Git only) as unknown. `delivered` counts the
requests that reached the remote side; the program cannot read it, only an observer's query can.

`Ages` stands for the 900 seconds after which an unknown run is escalated.

### AdoExecutor and GitFlow

`x` is the coroutine of `execute` with one program counter per awaited request, `y` the pass of
`reconcile`. A request is an effect of the journal: `intent` first, then `flight` (it may arrive, late,
or be lost), then the server carries it out (`got` keeps the order, a history), then the receipt.
Builds and releases progress by themselves, other people queue builds and deploy (`Outsiders`), the
branch, a definition or the history may drift from the plan. A crash leaves the journal and the
requests in flight. In `GitFlow` a command of the plan is a step that may fail; a push that fails may
have been taken by origin; a flow that dies leaves an `orphan`, the git child that still holds the
inherited lock descriptors. Commits are members of sets (`heads`, `tracking`, `remote`: a branch is
the set of commits it contains), so that "fast-forward" and "contains" are set inclusion.

### ConfigStore, ConfigRegister, SettingsCredentials

A caller (`job[c].pc`) takes its process's asyncio lock, its thread takes `flock`, reads, commits once
or twice, and leaves; `Cancelled` hits the coroutine and not the thread. The configuration is one
task's contents and a revision. `accept` is `RunService.start` inside the lock, `guard()` is part of every commit that edits. In
`SettingsCredentials` an address of a library is its number in the order the library had them, and a
PAT is the number of the address it was given for, so that "a PAT meets an address it was not given
for" is `<`; `copy` is `tx.config`, `disk` the file; each Keychain call and each commit is a step, and
either may fail, with or without having happened where the code cannot tell.

### EventStream

One connection and one topic, with the numbers of `Topic`: the log of a run (kept whole, read in
pages, published under the store's lock), an AI session (trimmed, published when the writer resumes), or one of
the in-memory histories (`bus`). `incoming` is the coroutine `_subscribe_*` between its awaits, `sub`
the `Subscriber`, `wire` the queue; `client` deduplicates and comes back with what it has seen.

### Telegram

`TelegramUpdates`: the server holds updates until a higher offset is asked for; `journal` is the
database. `detached` are handlers cancelled by the end of a session that go on to their next await.
`TelegramSlots`: `control[s]` is the operation that holds the slot's lock and the await it is at;
`fresh` says that its revision is still current, so that a commit of another slot refuses its own.
`TelegramOutbox`: `queue` and `rescan` are the notification queue and the flag that re-reads the
journal after an overflow, `mailing` whether the slot is on, `sender` its session. `outbox` is the table
and `older` what `ORDER BY id` says of its rows to send: the pairs it puts in this order, so that the
oldest row of a set is the one none of the set precedes. `TelegramActions`: a token is an index in order of creation; a tap is a
handler with its awaits. `TelegramMenu`: a screen is the payload of a button, `shown` what the panel
on the screen offers, `Refused` and `Ignored` what the handler of a button answers, `Back` the payload
of the Back button, with `fallback_navigation`; `fresh` says that rights have not changed since the
panel was drawn.

### AI sessions

`AiChat`: `inbox` holds the messages of the owner task in order; timers, process tasks, the API and the
CLI only post to it or write `rows`. A resident CLI (`claude`) and a process per turn (`codex`, `agy`)
are the two values of `Resident`. `AiSessions`: `caller[c]` goes through `create` (lock, count, store, reserve,
task), `task[s]` through `_session`; `pid` may be reused by the system once the process is gone.

### Services, MCP, bypass, VPN

`ServiceLifecycle`: `opClose` and `monitorClose` are the two coroutines that may be inside `close()` of
a record at once; `ending` are the groups whose `close()` was cut off by the shutdown, told to end and left to
their supervisors (`GroupEnds`). `LarkLifecycle`: `claimed` is the claim, `pc` its await, `cont` what follows a teardown;
`editor` is a settings route between its checks and its commit. `RuntimeInstall`: `thread` unpacks Node,
`npm` is the supervised process, `step` the await of a job's task, the publication of the completed state among them. `BypassDaemon`: `table` is the kernel's route table, which anybody may change;
`owner` and `pending` the journal; `seen` the table as last read; every step of a sweep may be the last
(`Crash`, and `StopJob` for the installer's bootout). `VpnRuns`: `record[c]` is the run that call `c` of
`start` made, `pc` the await of its task, `net` what its monitor has read and not yet written; `pend` says
that the task will be interrupted at its await, and `why` by what. `browser[c]` is the process with the pid
of the Chrome of `c`'s login, another one (`foreign`) once the pid is reused; `kept` is the file that
names the Chromes, `clean` the loop of `ChromeRegistry.cleanup` between its awaits.

## 3. Runs

The first eight runs are those of the run journal and service; `.cfg` bounds are the constants, and in
`RunService` three of them bound counters: `Budget` journal failures, `Restarts` shutdowns or crashes,
`Queries` reconciliations over HTTP.

| Run | Bounds | What it shows |
|---|---|---|
| `journal_effects` | one run, one step, one id, a `build_create` and a `build_cancel` | every order of intents, receipts, stops, faults and crashes of a run; two effects are needed for the ownership rule, one step and one id are enough to be or not to be the recorded one |
| `journal_contention` | two runs, two tasks, two keys, two requests, queue of one, no effects | exclusion needs two parties; a queue of one makes the limit bite at once. Symmetric in all four sets |
| `service_faults` | one run, one push, one failure, one query, two attempts | a single failure at any of the calls, in any interleaving |
| `service_restart` | one run, one push, one shutdown or crash | shutdown and restart at any point |
| `service_contention` | two runs, one permit, fair | the permit is the only thing two runs of different tasks share |
| `service_progress` | one failure, one restart, fair | each hand-over between worker, observer, loop and boot |
| `service_retry` | two clients with one request, one failure, one shutdown or crash | no worker is disturbed, see section 6 |
| `service_two_faults` | the same, two failures | **expected violation**, see section 6 |

The other components share no variable with each other, so four modules hold them side by side (the main
instance of some components is extended there, the others are instantiated): a
variable `part` names the instance that moves in a behaviour, the others stay in their initial state.
A behaviour of such a module is a behaviour of one component, on one of its instances, and nothing is
lost or added by it. A property of the module is the conjunction of "if this part moves, its property
holds"; the properties of each component are named and explained in its own module.

| Run | Parts and bounds | What it shows |
|---|---|---|
| `telegram` | `updates`: three updates of two chats, a queue of one, two ends of a session, a death. `slots`: two slots, two bots, four operations, one fault, one death. `outbox`: one message of each kind and room for two; `notices`: two notifications with deaths. `actions`: two users, a confirmation and a change of rights, plan or switch; `buttons`: one user, a confirmation with its cancel button and three overlapping taps; `crowd`: one tap, and more buttons than there is room for. `menu`: two pages of everything, every group of permissions; `panels`: the limits of the code (8 per page, 16 buttons) | `UpdatesSafe`, `SlotsSafe`, `OutboxSafe`, `ActionsSafe`, `MenuSafe`, `TelegramSteps` |
| `work` | `run`: a plan of one target with two stages. `targets`, `shared`: a plan of two targets, a plan of one target with other users. `worktrees`, `publishing`: two flows of one repository, a flow with two pushes. `turns`, `approvals`, `endings`: a process per turn with three prompts, a resident CLI with three approvals, the same closed or exiting. `sessions`, `given up`: three callers, two of one request, a check, an upgrade and a crash; callers that give up. `runs`, `bus`, `ai`: a subscription of each kind | `ExecutorSafe` of `run`, `PlansSafe` of the other plans and the Git step, `AiSafe`, `StreamSafe`, `WorkSteps` |
| `host` | `contention`, `migration`: two processes, three callers. `import`, `libraries`, `library`: one old library and a new one, with faults and a death; two new ones with two addresses each, one fault and a death; one with two faults. `services`, `places`: a service and a tunnel; two tunnels of which one may exist. `lark`, `disturbed`: a server; with cancelled logins and saved settings. `install`, `cancelled`: two jobs. `bypass`, `meddled`, `full`: two destinations, two gateways, three requests and a death; two requests, two deaths and changes by others; room for one route. `ladder`, `again`, `login`: two VPN runs that overlap, while the network changes; two calls with one request, a restart between them; one login that may be out of time, with a restart and reused pids | `SettingsSafe`, `SupervisedSafe` (services and MCP), `VpnSafe`, `HostSteps` (with the steps of the register) |
| `progress` | one small instance of most components, fair | `MessagesArrive`, `WorkEnds`; and, as the theorems state them, `ServicesSafe` and `ImplementsRegister` of its instances |

Why the bounds are enough: each instance is the smallest in which every party of the hazard exists (two
updates of one chat and one of another, two slots for one bot, two callers and a second process), every
limit is reached within the bounds (queues of one, room for two, pages of two entries), and each kind of failure may happen
once at any point, twice where the code reacts to a second one (`Faults <- 2`, `Ends <- 2`). Runs of
tasks are few in the *service* runs: the service's per-run state is independent but for the permits
(`service_contention`) and the journal's exclusions, which are proved for every number of runs.

`CHECK_DEADLOCK FALSE` is set for the runs of the journal and the service, for `telegram` and for
`progress`: all runs finished, every update handled or every bounded operation used up is an end of the
system. `work` and `host` check deadlock: there `Over` and `Quiet` are the states in which nobody has to
do anything more, and any other state without a step would be reported.

### Fairness

The runs of `RunService` assume, and the code justifies:

* a coroutine that can go on does (`WorkerStep`, `ObserverStep`, `Ring`, `Accept`, `Spawn`,
  `BootStep`, `CloseStep`): asyncio resumes what is ready, and each wait has a timer - 300 s for a
  permit, the deadline of the run, 30 s for an observer, 5 s for the shutdown;
* the recovery loop visits each run (`LoopRecovers`, `LoopLists`, `LoopEscalates`): it sleeps 30 s
  and survives every error of the journal;
* time passes (`Ages`).

Nothing is assumed of the executor, of the remote side, of the user, or of failures: an executor may
hang, an answer may never come. Fairness is per run and weak; no strong fairness is needed.

`progress` assumes the same of the other components (`MessageFairness`, `WorkFairness`): a coroutine, a
thread and a loop that can go on do, timers fire, a socket that is given data is read, a supervised
process that was told to end ends (`proc_supervisor` kills after its grace, also when nobody waits for it), the server ends what it
has begun, and a backend that is down is started again by the shell. Strong fairness is assumed of
three steps of the bypass only: the default gateway is usable again and again, and the route command does not fail for ever. Nothing is
assumed of users, of failures, or of the requests of other people.

## 4. Properties

*Journal.* `TerminalSettled`, `SucceededComplete`, `QueuedUntouched`, `RecoveryAccepted` relate the
status to effects and steps; `ReservedByActive`, `OneActivePerTask`, `RequestOnce` are exclusion;
`TerminalFinal`, `EffectForward`, `NoEffectAfterStop`, `ReleasedByClosing` say what a step may not do.
`ReservedByActive` and `QueuedUntouched` are proved, as parts of the inductive invariant, and no run checks them.

*Service.* `AtMostOnce`: no write is sent twice or before its intent is durable. `VerifiedEnd`: a
closed run has a receipt for every write that was sent. `RunsAccountedFor`: it is sent at most once,
and while the process serves no run is dropped (`OwnedOrLost`, `QueuedHasOwner`, `ShutdownStops`).
`PermitsConserved`, `LiveWorkerUndisturbed`. Liveness: `Starts`, `Concludes`, `Resolves`.

*Executor.* `SingleDelivery`, `DeployedIsBuilt`, `DecidedIsQuiet` (no decided run has a request on its
way or a build that goes on), `SucceededIsDeployed`, `ConfirmedWasDelivered`. *Git.* `OneAtATime`,
`ConfirmedIsThere`, `EndIsKnown`, `DoneIsPublished`, `MergeIsKnown`, `NothingLost`.

*Configuration.* `ImplementsRegister`, `FrozenWhileActive`, `LockCoversThread`, `HeardInOrder`,
`OriginalKept`. *Credentials.* `NoOldPat`, `SecretIndexed`, `DeclineClean`; of steps, `CredentialsStep`: `ImportWhole`, `RevisionForward`, `ImportFinal`.

*Stream.* `InOrder`, `NoHole`, `LiveComplete`, `ResumeAccepted`, `ReplayNeverOverflows`.

*Telegram.* `ActedOnce`, `ChatOrder`, `BacklogSilent`, `NothingForgotten`, `FinalStays`; `OneSlotPerBot`,
`RunsAsRecorded`, `TokenOfBot`, `DeliveredOnce`; `PendingBounded`, `DropsInOrder`, `NothingAfterDisable`;
`OnePerToken`, `CancelHolds`, `CancelReachable`, `StartedByRight`; `NothingRefused`, `BackReachesMain`,
`EverythingListed`, `BackReturns`, `PanelWhole`.

*AI.* `OneEnding`, `AnswerMatchesRow`, `RulesAreGranted`, `ProcessOfTurn`; `LiveIsOwned`,
`OverHasNoProcess`, `SessionsWithinLimits`, `NoForeignKill`, `EndsOnce`.

*Services, MCP, bypass.* `OneProcess`, `ServingIsRead`, `TunnelLimit`, `NothingSurvives`; `OneServer`,
`ServingIsWatched`, `TransientIsClaimed`, `StoppedIsStopped`, `ToolAlone`, `ClearedWhileStopped`,
`StopStops`; `OneRunning`, `NothingLeft`, `NamedIsThere`, `CompletedIsWhole`, `EndStays`;
`EveryRouteIsJournaled`, `JobIsEnabled`, `UndoneIsClean`, `JournalFits`, `OthersUntouched`;
`OneRun`, `SuccessIsConnected`, `LoginLeavesNothing`, `OnlyChromeSignalled`, `ProfileAlone`, `EndStands`.

*Liveness* (`MessagesArrive`, `WorkEnds`): an update ends, a change of a run is notified, a pending
message is settled, a committed revision is announced and its caller answered, a subscription is
acknowledged or its connection ends, a prompt is run to its end, an approval is answered; an execution
ends and a provable unknown one is decided, an orphaned process group is terminated and a session told
to close ends, a stop ends and an exit is noticed, an operation of the MCP server and an installation
end and give back their claim, and the bypass repairs its routes.

Exceptions the code itself makes, written into the properties: a journal that cannot be opened
leaves its runs where they are (`Concludes`); a write failure with no lost worker to recover
disables writing until a restart, so an unknown run may stay as it is (`Resolves`); after a failed
journal call a run may be queued without a worker until the next start (`QueuedHasOwner`); a message
whose attempt was refused returns to a full outbox (`PendingBounded`); a route that comes between the
daemon's last look and its command may be lost (`OthersUntouched`); the clean-up of a VPN login that is
interrupted twice, by a cancel and within the three seconds of its kill by the close, or that fails, may leave
its worker and its Chrome for a while, of which the file still knows (`LoginLeavesNothing`, `ProfileAlone`);
a group whose `close()` the shutdown cuts off may outlive it, but was told to end (`OneProcess`, `NothingSurvives`); a
completed installation whose time runs out while its end is published becomes a failed one (`EndStays`). Others are the subject of section 6.

Every property of a passing run has a mutant: an operator defined just before the one it replaces, the same code
with a plausible bug, under which TLC finds the property violated (`PROJECT.json`, "mutants").

## 5. Proofs

For all values of the constants - any number of runs, clients, callers, writes, updates, slots, services,
failures, restarts and crashes - under the ASSUMEs of each module. They say that the "nothing" values
are not members of the sets they are added to, that records have the fields the code gives them and that
bounds are numbers; TLC evaluates them on every instance. In each module the theorem rests on an
inductive invariant: the properties themselves do not imply their next values, and what is added to them is
what the code relies on without saying so. Each was checked by TLC on the instances of section 3 first.

*The journal* (`RunProofs`, its first part). `IInv` is the type invariant, the six safety invariants
(`QueuedUntouched` among them: a queued run has no effects, so cancelling it needs no look at them) and
`AbsentBlank`: a run that does not exist holds nothing, so creating one collides with no old row.
`Invariance` shows that each action preserves each conjunct it can disturb. The action properties follow
from `IInv` by kinds of actions (begins an effect, settles one, moves the status, touches nothing). The
refinement maps `Create` to `Open`, `Intent` to `Begin`, a settling `Receipt` to `Settle`, a
closing `Transition`, `Cancel` or `Recover` to `Close`, and everything else to a stutter.

*The service* (`RunProofs`). Each of its actions is a step of the journal or leaves it
alone, so `ServiceSpec => Spec`, and the journal's invariants hold of the whole service. `AtMostOnce` is
not inductive: `SendInv` adds what a worker about to send knows, a key that is journalled and was not
sent yet. Almost every step is `Calm` (no worker becomes about to send, nothing is sent, no refusal is
recorded) and keeps it by the journal's `EffectKept`; the intent and the send are the two that are not.
`VerifiedEnd` follows from `SendInv`, the journal's `TerminalSettled` and that the program
records no refusal. `PermitsConserved` counts: the workers past `_slot` hold what is not free.

*Who answers for a run* (`RunProofs`). `OwnInv` says that before `initialize` ends and after `close`
nobody is at work (`ProcessInv`); what whoever holds a run knows of its status (`Known`); that a claimed run has a worker or is
lost (`Owned`); that a worker on its way out of a queued run will be able to close it (`Waiting`). From it follows
`RunsAccountedFor`, through any failures and restarts. `LiveWorkersLeftAlone` has the hypothesis `budget = Budget`: no call
of the journal has failed. It is needed, see section 6; the run `service_retry` checks the
property with one failure and one run.

*The remote executor* (`AdoExecutorProofs`). `ExecutorIsSafe` is the `ExecutorSafe` of the run `work`, for any operations, number of
targets, environments, bounds of the server, lost requests and crashes. It has two inductive invariants. `ExecutorInv` holds on a server that others
use too. The journal has one effect for a step, kind and environment, and the server has carried out each once at most
(`Once`): not because a request is sent once, but because every path to an intent knows that its step has no such effect yet
(`InStep`, `Builds`, `Releases`, `Deploys`), and a run that has ended begins none. `DeploySound` keeps what was checked before a
deployment true after it: a build that has succeeded stays so, and a release keeps its build and its triggers.
`AloneInv` holds where nobody else uses the server: every build, release and deployment that is there is of a journalled effect (`Ours`, `Known`), only what
the executor works with may still be under way (`OnlyHere`), and the reconciliation has come to "nothing uncertain" only about
steps whose effects have ended (`Read`). This is why a decided run is quiet; that a success is one of every target
needs also that as many deployments of different environments as there are stages are all of them (`AllDeployed`,
by counting finite sets). A plan has a stage at least, no stage twice, and no environment that is both selected and not
(`PlanAssumption`): `stages()` of `ado_tasks.py` refuses anything else.

*The Git step* (`GitFlowProofs`, `GitInv`). What a flow has left to do is the end of its plan (`PlanInv`); a flow that waits holds the
first of its directories' locks in their order, one that works holds them all (`LockInv`). What a push was journalled with its branch still has, and origin
too once it is confirmed (`EffectInv`); of the pushes of a flow only the last can be unconfirmed, while it is sent or in a flow
that says so or has died (`PushInv`). `DoneIsPublished` and `MergeIsKnown` are inductive with these, because
no branch, here or on origin, ever loses a commit (`CommitsStay`).

*The configuration store* (`ConfigStoreProofs`). `ConfigInv` says who holds which lock at which await, that the copy of the holder
is the file's, one commit behind while a replacement is not confirmed (`Copy`), that a revision stands for the
task that was written with it (`Began`, `Frozen`), and that what was posted, mailed and heard is ordered and committed.
The refinement follows: a commit extends the revision its caller began from, and an answer is what
happened. `LockCoversThread` is stated where a caller is cancelled once at most, as in section 6.

*Credentials* (`ConfigStoreProofs`, its last part, `CredentialsInv`). Between a step on the Keychain and the commit that tells of it the two
stores disagree, so that what the properties say of them at rest is said of each library with what the operation knows: a
PAT in the Keychain is at least as new as the address in the file (`FileSound`), the copy in memory is the file's except in the steps that
have just failed or are about to be looked at, and no address is taken before it was drawn (`NotDrawn`). An import has stored what it
has ticked off (`Imported`), and what it stored is in the list of what to decline (`StillListed`, which is inductive
for one old library only, as in section 6); a decline has deleted what it went past (`Declining`); a move knows the address it goes to, and the
old PAT which it puts back (`OfLibrary`, `Swapped`). A commit may have happened although it failed, so each of them leaves three
states; a fact about `Commits` says which, once for all operations. `RevisionForward` and
`ImportFinal` fail at the one step that writes from a copy it could not confirm (section 6), and are stated without it.

*Telegram updates* (`TelegramProofs`, `UpdatesInv`). The queue, the handlers and what was done are one sequence in the order of arrival
(`Putting`, `Queued`, `Handled`, `Acted`), all of it below the offset; every update between the backlog and the offset is
known (`Seen`), and what a poll has fetched leaves no gap (`Fetched`). A detached handler is the reason
why the order is per chat and per session.

*Telegram slots* (`TelegramProofs`, `SlotsInv`). What an operation knows at each of its awaits: the bot it asked for is the token's, and the configuration's
once a session may begin (`Operating`); no operation ends without a session and leaves one (`Running`); a
message can be sent only while it was not delivered (`Sending`).

*Telegram buttons* (`TelegramProofs`, `ActionsInv`). Tokens are numbered in the order they are made (`Numbered`); what has started something
or was cancelled is consumed (`EffectsUsed`), a consumed token is with one tap, of its own user (`Consumed`), and a tap that may start
something is the first that could (`NotYet`). A cancel button is younger than the confirmation it is linked to (`Linked`), so that expiry and
the eviction of the oldest take the confirmation first, and it can be cancelled as long as it is there.

*The Telegram outbox* (`TelegramProofs`, `OutboxInv`). `older` orders the rows to send in one line (`ByAge`); as they are
finitely many, a set of them has one oldest, which is what a full outbox drops and, of the urgent or the due ones, what is sent next. One
message is being sent at most, and with it the rows to send are at most one more than the limit
(`Sendable`): it is the message that `PendingBounded` allows for. What is dropped, and that nothing is admitted while
the slot is off (`DropsInOrder`, `NothingAfterDisable`), are facts about single steps of such a state.

*AI sessions* (`AiSessionsProofs`, `SessionsInv`). Whoever is inside `create` has the lock, and what it has counted stays true until it adds its
session, whose row exists and whose task does not yet (`Creating`). A session is active exactly as long as its task works, its row is open for as
long, and a process that is up is of an active session (`Owned`). The limits follow by counting finite sets; `LiveIsOwned` is stated where
no request is given up between the row and the task, as in section 6.

*One chat* (`AiSessionsProofs`, `ChatInv`). Turns have ended in their order, each but the one that runs, and that is the last
(`Listed`, `TurnIsLast`): so a turn ends once. A request id is in the queue or in a turn, once (`Distinct`). A process whose
report is in the inbox is gone, and only a resident CLI reports results, exits and is given time after an interrupt
(`Processes`). Of an approval, `AskSound` relates what the row, the owner's memory, the decision and the CLI know: who is still
waited for was told nothing. What makes the answer single is in the mail (`Mail`): a request that is still to be read has no row yet and is there
once, and a decision on its way says what was decided. A rule was granted by a decision for the session (`RulesSound`).

*Services and tunnels* (`ServiceLifecycleProofs`). The two coroutines that may be inside `close()` of one record have taken
its process from it (`Closing`), so that the record's, the operation's, the monitor's and those the shutdown gave up are all there are, and each
that is not the record's was told to end; what is outside the registry has nothing left to end (`Left`). `ServingIsRead` is stated without `SlowClose`, as in section 6.

*The MCP server* (`ServiceLifecycleProofs`, `LarkInv`). A start is safe because no place from which a process is spawned still
has one (`Placed`), although a cancelled login may leave an operation at its clean-up with the teardown abandoned. A stop that
is answered has gone its own way to the end and left no owner (`OfStop`); a state that serves has a watched server,
unless the operation under way, or the clean-up of a cancelled login, is still to change the state (`UnderWatch`).
What `LarkSafe` says only where nothing is cancelled or saved meanwhile rests on `Undisturbed`: whoever ends a server waits
for exactly that one. The other half of the theorem, with cancellations and saves, is as much as the code keeps (section 6).

*The installation* (`ServiceLifecycleProofs`, `InstallInv`). A job's place says what it has started (`JobSound`): only its two
awaits of npm and what follows an interruption have a process, and from its clean-up on that process was told to end.
That the active job is the only one shown as running makes one installer of it, as long as nobody cancels: then the packages
stay whole from the end of `npm ci` to the end of the job (`Whole`). An end that was reached stays because nothing but the publication of a
completion is still interrupted, and only by the time that runs out (`EndStays`). `Node` counts on the thread that moves the Node, which a
cancellation does not stop.

*VPN runs* (`VpnRunsProofs`). `Alone` and `Gated`: the run that is live is the one `current` and `task` name, and who is inside the
gate saw none. `Placed` ties the state of a run to the await of its task, so that a cancelled run has its
interruption before it or is in a clean-up. `LoggedIn` and `Sweeps`: a clean-up has each Chrome that lives
before it or has tried to kill it, and the file names it until it is gone.

*VPN bypass* (`VpnRunsProofs`, `BypassInv`). A sweep acts on a table it read earlier, which others change meanwhile, and dies between a route command and
its record. What carries the properties over this: a route of ours that is there now was there when the table was
read (`ReadIsOurs`), because only the sweep adds one; a command is preceded by its entry in the journal (`Entered`), and what may still be entered fits
(`WillFit`, by cardinalities of finite sets); in an undo, what it went past is gone (`Undoing`). `ForeignRoutesStay` says of
every step that a route of somebody else is not taken away, but for the one that comes between the last look and the command.

*The event stream* (`GitFlowProofs`, `StreamInv`; of a client that keeps the numbers of its topic, `Setting`). What
arrives without a hole has to be said of the way to the client first: an event comes with an item if the client has it or it is in the queue no
later than the item (`Comes`). What is stored below an item comes with it (`QueueWhole`), what is stored below the cursor comes
with the whole queue and was sent (`CursorWhole`), so that reading an item (`NoHole`) and starting again from what was seen keep it. Above the cursor
of a live topic there is only what is not published (`LiveWhole`; the runs publish in the order of their commits, `DueInTurn`).
A replay gets there by stages: its page has every stored event from the cursor to each event of the page (`PageWhole`,
by the cardinalities that bound a page), at its watermark all below is sent (`MarkReached`), and what was published
since it read the watermark waits in its buffer (`PendingWhole`). For AI sessions, whose writers may publish out of turn or be cancelled,
only the types and `InOrder` are stated (section 6 says why).

Only model-checked, because not proved: `MenuSafe`, whose menus are tables of the code. Out of the provers' reach: liveness (`Starts`, `Concludes`,
`Resolves`, `MessagesArrive`, `WorkEnds`), which needs fairness and ENABLED. No module declares a RECURSIVE operator, and
nothing proved needs induction over data, which the installed provers cannot instantiate.

## 6. Where code and documents disagree

The finding of `PROJECT.json`, which the run `service_two_faults` reproduces:
`services/runs.py:122` says "Only exited workers may be recovered in-process; never disturb live
workers." A live worker is disturbed when a request is posted twice at
once and both acceptances read the run as queued; the first worker fails to read the journal twice, in
its body and in its handler, and is listed as lost with the run still queued; the second acceptance
then finds no worker and starts one, without looking at `lost_workers`; the recovery round recovers
the run, unknown, under the worker that is executing it. The next write of that worker is refused
(an intent needs a running run), so nothing is sent twice; the run ends unknown instead of
executed. With one run a single failure is not enough (`service_retry`). With two it is: while another run
holds the only permit, the first worker waits its 300 seconds, its one failed read leaves the run queued
and lost, and an acceptance that was held up as long starts the second worker (TLC finds it with three
clients, one permit and one failure, in 24 steps). Without a failure no worker is
disturbed, which is `LiveWorkersLeftAlone`.

The following were met while the properties were checked on the instances named; the property that would
forbid each of them is defined in the module, and the runs check it only where it holds (the condition is
written where the property is used). Each can be reproduced by adding the property to its part.

| Where | What the code does | What is said | Property, instance |
|---|---|---|---|
| `adapters/task_git.py:567` | when the last checkout fails in a flow that has already failed, the first error is reported and nothing says that another branch is left checked out | S3.md:111: the run "gives repo_needs_attention" | `LeftIsTold`, `publishing` |
| `adapters/ado_tasks.py:1112` | an environment with an attempt above the baseline confirms the deployment, whoever started it | `ado_tasks.py:3`: "Unprovable delivery remains unknown." | `ConfirmedWasDelivered`, `shared` |
| `services/ai_chat.py:758` | a decision after the deadline settles the row as expired and posts nothing; the timer finds no pending row and posts nothing either: the CLI waits | README.md:796: denied automatically when it expires | `Answered` for late deciders, `approvals` |
| `services/ai_chat.py:446` | a late result of an interrupted turn ends the next turn, if that has started | README.md:768: a late result is swallowed | `ResultOfTurn`, a resident CLI with an interrupt |
| `services/ai_chat.py:366` | closing a session with a process per turn ends the turn first, and then finds no task to stop: the process goes on | `ai_sessions.py:80`: "Exactly one cleanup owner" | `NothingLeft`, `turns` |
| `services/ai_sessions.py:495` | a request cancelled between the row and the task leaves a session in `starting` that nothing ends before the next start | the same line | `LiveIsOwned`, `given up` |
| `services/ai_sessions.py:313` | a check reserves its CLI without the lock, while a creation is between its count and its entry | README.md:696: 4 processes of a CLI, shared | the count of sessions and `aux` together, `sessions` |
| `adapters/config_store.py:315` | a second cancellation of one caller gives the lock back under its running thread | `config_store.py:314`: "Keep ownership until it releases flock." | `LockCoversThread`, two cancellations |
| `services/settings.py:340` | the commit after each PAT of an import forgets the planned ones: a death after the next `set` leaves a PAT in no list | `settings.py:322`: "Retry/decline safely owns it." | `DeclineClean`, `SecretIndexed`, two old libraries |
| `services/settings.py:356` | an import that completes replaces the index, and drops the entry of a library whose PAT could not be deleted before: the PAT stays in the Keychain, in no list | `settings.py:568`: "凭据删除失败，保留 pending_delete，可在凭据页重试" (kept, can be tried again) | `SecretIndexed` without its exception, an old library and a new one |
| `services/settings.py:388` | an import whose last commit cannot be confirmed is written over as failed from the configuration before, under the same revision | README.md:95: completed is final | `ImportFinal`, `import` |
| `adapters/ai_store.py:324` | two writers may publish in the reverse order of their numbers, and the hub skips the lower one | S5.md:219: the semantics of the run topic | `LiveComplete`, `ai` |
| `api/ws.py:138` | a page beyond the watermark is read again for ever when the events before it were trimmed | README.md:675: `ai.subscribed` follows | `Acknowledged`, `ai` |
| `src/next/desktop/src/features/settings/useMcp.ts:71` | the page resumes with envelope numbers and is refused | README.md:161: envelope numbers cannot be used to resume | `ResumeAccepted`, `Watermark <- "envelope"` |
| `adapters/telegram_store.py:501` | a close that is on its way to its thread closes the database under a slot that has registered meanwhile | `telegram_store.py:122`: "a concurrent release cannot close the database under a slot that is still starting" | `HeldIsOpen`, `slots` |
| `adapters/telegram_store.py:99` | a message that was being sent stays `sending` while another slot holds the database open | `telegram.py:1369`: "next initialization marks unknown" | `AmbiguousMarked`, `slots` |
| `services/telegram_commands.py:605` | a member without system rights gets a Back that is ignored | telegram-menu-next.md:42: every page has a Back | `BackWorks`, `menu` |
| `services/telegram_menu.py:367` | the full text and the related items lose the way back of their detail | the same line: back to the related items | `RelatedReturns`, `menu` |
| `services/telegram_commands.py:538` | with 11 tunnels the first button of the services page has been evicted before it is shown | telegram-menu-next.md:35 lists it | `PanelWhole`, 11 tunnels |
| `services/services.py:86` | a monitor's close clears the readers of the process that a start launched meanwhile | `services.py:58`: "One structural owner" | `ServingIsRead`, `SlowClose` |
| `services/services.py:528` | the shutdown cancels an operation inside `close()`, whose wait for the end of the group (`ai_process.py:269`) is not shielded and whose record has no owner any more: it returns while the group may live, and a deletion cut off there leaves its tunnel registered | S7.md:103: the normal path, too, releases the processes | `NothingSurvives` without "told to end", `services` |
| `services/mcp.py:1097` | the time of a job runs out while its completion is published: the handler (`mcp.py:1105`) shows it as failed, although the packages are whole | the other handlers keep an end that was reached (`mcp.py:1099`, `mcp.py:1112`) | `EndStays` without its exception, `cancelled` |
| `services/mcp.py:845` | a login cancelled inside the teardown abandons it: stopped, with a server that runs | README.md:1021: it first stops a running server | `StoppedIsStopped`, `disturbed` |
| `services/mcp.py:806` | a revision conflict after a login leaves `logging_in` without a claim | `mcp.py:544`: "Never leave the state machine in "starting"" | `TransientIsClaimed`, `disturbed` |
| `services/mcp.py:294` | a revocation is accepted while a start has the claim but not yet its state | README.md:1004: must be stopped | the settings of `disturbed` |
| `services/mcp.py:1137` | a cancelled job still ends its npm while the next one starts another in the same directory | S6.md:63: one installation at a time | `OneInstaller`, `cancelled` |

(README.md is `src/next/backend/README.md`; S3.md, S5.md and S6.md are under
`src/docs/modernization/archive/work-packages/`, telegram-menu-next.md under `src/docs/capabilities/`.)

## 7. Not modelled, and why

* Contents and redaction of logs, snapshots and messages, HTTP schemas and authentication, the views of
  the frontend: data no property here tells apart. SQLite's own crash safety and the file locks of the
  operating system are trusted.
* The pages of the VPN login inside the browser (an error of theirs is an end of the exchange), the settings
  and credentials of the VPN, which are refused while a run is under way, the last twenty runs that may
  be read, and the read-only status and preview of the bypass; the external `route` command is a step that does its work or does not.
* The AI projector and wizard of Telegram (`telegram_ai.py`), the binding code of a new owner
  and the self-binding of a group member (`resolve_acl`), of which the menu sees only the result.
* Credentials of MCP servers (they use the transaction of `SettingsCredentials`), the self-test and the
  stdio servers, the shutdown of the Lark server with the backend.
* Failures of the local store at four places where the rest of the step is modelled: between a push and its confirmed
  receipt (`Push`; the run would fail with the effect still an intent, as after a death there, which is modelled), when the
  end of an AI session is written (`EndSession`; the row would stay live until the next start marks it), when the registry of Chromes
  is written (`Named`; the Chrome would be known in memory only) and when the list of processes is too large to be read
  (`Look`; its Chrome would be forgotten). The properties of these parts are claimed for a store that can be written.
* The end of a supervised group is awaited for 4.5 s, its supervisor kills after 3 s (`ai_process.py:269`,
  `proc_supervisor.py`): `ServiceLifecycle` takes it that the wait sees the end unless it is cut off. The clean-up of an
  interrupted installation is itself not interrupted again, but by the cancellation of its job.
* Work items and releases: requests over the ConfigStore and the remote server, without state of their
  own. Terminals of AI sessions: bytes in and out.
* The desktop shell: the supervisor that starts the backend again with a backoff, and the updater. The
  models assume only that a backend that is down is started again.

## 8. Plan

1. Theorems: `MenuSafe` of the menus.
2. `telegram_ai.py`: the projector and the wizard of AI sessions in Telegram.
3. The desktop supervisor with its backoff, and the composition of the executor with `RunService`: a
   refinement of its executor by `AdoExecutor`.

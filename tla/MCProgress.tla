----------------------------- MODULE MCProgress -----------------------------
(***************************************************************************)
(* What must happen in the end, for TLC: small instances of the components, *)
(* each by itself, under the fairness that its scheduling justifies: they  *)
(* share no variable.  `part' names the one that moves in a behaviour; the *)
(* others stay in their initial state.                                     *)
(***************************************************************************)
EXTENDS ConfigStore, ServiceLifecycle

VARIABLES
  part,
  arrived, server, stale, journal, poller, batch, work, doing, detached, acts, mark, updatesBound,
  enabled, since, events, queue, rescan, loop, sender, outbox, ages, outboxBound,
  log, due, sub, incoming, wire, link, client, base, sent, streamBound,
  operation, builds, releases, flight, got, drift, steps, effects, stop, out, x, y, requestFaults,
  inbox, pending, turn, marked, behind, phase, prompt, ends, approvals, rules, timers, graces, rows, overdue,
  answer, cli, process, attempt, decider, delivered, interrupts,
  backend, lock, caller, aux, row, record, active, task, order, proc, pid, struck, crashes,
  lark, larkOp, pc, cont, seen, was, succeeded, moved, larkOwner, victim, made, larkAlive, doomed, at, tool,
  loginTask, cancelled, canceller, watched, health, larkFailures, owned, port, loggedIn, editor, saves,
  jobs, activeJob, shown, step, why, thread, npm, ended, node, named, packages,
  table, routes, phases, cache, snapshot, installed, daemon, runner, sweep, read, unswept, dest, gateway, desired,
  reports, saved, request, installer, wish, others, kills, applies, late

updates == <<arrived, server, stale, journal, poller, batch, work, doing, detached, acts, mark, updatesBound>>
messages == <<enabled, since, events, queue, rescan, loop, sender, outbox, ages, outboxBound>>
stream == <<log, due, sub, incoming, wire, link, client, base, sent, streamBound>>
executor == <<operation, builds, releases, flight, got, drift, steps, effects, stop, out, x, y, requestFaults>>
chat == <<inbox, pending, turn, marked, behind, phase, prompt, ends, approvals, rules, timers, graces, rows,
          overdue, answer, cli, process, attempt, decider, delivered, interrupts>>
sessions == <<backend, lock, caller, aux, row, record, active, task, order, proc, pid, struck, crashes>>
mcp == <<lark, larkOp, pc, cont, seen, was, succeeded, moved, larkOwner, victim, made, larkAlive, doomed, at, tool,
         loginTask, cancelled, canceller, watched, health, larkFailures, owned, port, loggedIn, editor, saves>>
install == <<jobs, activeJob, shown, step, why, thread, npm, ended, node, named, packages>>
bypass == <<table, routes, phases, cache, snapshot, installed, daemon, runner, sweep, read, unswept, dest, gateway,
            desired, reports, saved, request, installer, wish, others, kills, applies, late>>
vars == <<part, updates, messages, cvars, stream, executor, chat, sessions, lvars, mcp, install, bypass>>

-----------------------------------------------------------------------------
Updates == INSTANCE TelegramUpdates WITH
  MaxUpdate <- 2, ChatOf <- <<"c1", "c1">>, Callbacks <- {2}, WorkLimit <- 1, Workers <- 2, Ends <- 1, Crashes <- 1,
  session <- poller, bound <- updatesBound

Outbox == INSTANCE TelegramOutbox WITH
  Messages <- {"n", "m"}, KindOf <- [n |-> "notify", m |-> "notify"], PendingLimit <- 2, QueueLimit <- 1,
  MaxAttempts <- 2, Switches <- 1, Outages <- 1,
  mailing <- enabled, older <- ages, quota <- outboxBound

(* Two callers of one process, one of which removes in two commits         *)
HomeOf == [remove |-> "desk", other |-> "desk"]
KindOf == [remove |-> "remove", other |-> "other"]

Stream == INSTANCE EventStream WITH
  Topic <- "run", Watermark <- "topic", QueueSize <- 2, Kept <- 5, Page <- 2, Commits <- 3, Others <- 1,
  Frames <- 2, Cancels <- 0, journal <- log, bound <- streamBound

Executor == INSTANCE AdoExecutor WITH
  Operations <- {"sync_build_release", "deploy_only", "rollback"}, N <- 1, Stages <- <<"e1">>, Unselected <- {"x"},
  Outsiders <- FALSE, MaxBuilds <- 2, MaxAttempts <- 2, Faults <- 2, op <- operation, faults <- requestFaults

(* A process for each turn; a resident CLI that asks for approvals         *)
RuleOf(a) == "Bash git"
Turns == INSTANCE AiChat WITH
  Cli <- "agy", Prompts <- {"p1", "p2"}, Asks <- {}, KeyOf <- RuleOf, Deciders <- {}, QueueLimit <- 1,
  ApprovalLimit <- 1, MaxInterrupts <- 1, MayClose <- TRUE, MayExit <- FALSE, stale <- behind
Approvals == INSTANCE AiChat WITH
  Cli <- "claude", Prompts <- {"p1"}, Asks <- {"a1", "a2"}, KeyOf <- RuleOf, Deciders <- {"a1"}, QueueLimit <- 1,
  ApprovalLimit <- 2, MaxInterrupts <- 0, MayClose <- FALSE, MayExit <- FALSE, stale <- behind

SessionOf(c) == IF c = "c1" THEN "s1" ELSE "s2"
OneCli(s) == "claude"
Sessions == INSTANCE AiSessions WITH
  Callers <- {"c1", "c2"}, Sid <- {"s1", "s2"}, RequestOf <- SessionOf, CliOf <- OneCli, Aux <- {},
  AuxCli <- OneCli, Upgrades <- {}, KindLimit <- 2, CliLimit <- 1, MayCancel <- FALSE, MaxCrashes <- 1

Lark == INSTANCE LarkLifecycle WITH
  ProbeLimit <- 2, MaxServers <- 2, MaxSaves <- 0, MayCancel <- FALSE, larkState <- lark, claimed <- larkOp,
  stale <- moved, live <- larkAlive, missed <- larkFailures

Install == INSTANCE RuntimeInstall WITH
  MaxJobs <- 2, JobCancels <- FALSE, active <- activeJob, job <- shown, told <- ended

Bypass == INSTANCE BypassDaemon WITH
  Nothing <- "nothing", Foreign <- "foreign", Nets <- {1}, Gateways <- {"g1", "g2"},
  Configs <- {[enabled |-> TRUE, gateway |-> "g1", targets |-> {1}],
              [enabled |-> TRUE, gateway |-> "g2", targets |-> {1}]},
  AppNets <- {}, MaxRoutes <- 1, MaxOthers <- 1, MaxCrashes <- 1, MaxApplies <- 2,
  owner <- routes, pending <- phases, job <- daemon, seen <- read, events <- reports, crashes <- kills

ASSUME InstancesAssumption ==
  /\ Updates!UpdatesAssumption /\ Outbox!OutboxAssumption /\ HomeAssumption /\ LifecycleAssumption
  /\ Stream!StreamAssumption /\ Executor!PlanAssumption /\ Bypass!BypassAssumption
  /\ Lark!LarkAssumption /\ Install!InstallAssumption

-----------------------------------------------------------------------------
Parts == {"updates", "outbox", "config", "stream", "executor", "turns", "approvals", "sessions", "services",
          "lark", "install", "bypass"}

Init ==
  /\ part \in Parts
  /\ Updates!UpdatesInit /\ Outbox!OutboxInit /\ ConfigInit /\ Stream!StreamInit /\ Executor!ExecutorInit
  /\ IF part = "approvals" THEN Approvals!ChatInit ELSE Turns!ChatInit
  /\ Sessions!Init /\ ServicesInit /\ Lark!LarkInit /\ Install!InstallInit /\ Bypass!BypassInit
  /\ part # "executor" => operation = "rollback"
  /\ part # "bypass" => dest = 1 /\ table = [n \in {1} |-> "nothing"]

Steps ==
  \/ part = "updates" /\ Updates!UpdatesNext
  \/ part = "outbox" /\ Outbox!OutboxNext
  \/ part = "config" /\ ConfigNext
  \/ part = "stream" /\ Stream!StreamNext
  \/ part = "executor" /\ Executor!ExecutorNext
  \/ part = "turns" /\ Turns!ChatNext
  \/ part = "approvals" /\ Approvals!ChatNext
  \/ part = "sessions" /\ Sessions!Next
  \/ part = "services" /\ ServicesNext
  \/ part = "lark" /\ Lark!LarkNext
  \/ part = "install" /\ Install!InstallNext
  \/ part = "bypass" /\ Bypass!BypassNext

Next ==
  /\ Steps
  /\ UNCHANGED part
  /\ part # "updates" => UNCHANGED updates
  /\ part # "outbox" => UNCHANGED messages
  /\ part # "config" => UNCHANGED cvars
  /\ part # "stream" => UNCHANGED stream
  /\ part # "executor" => UNCHANGED executor
  /\ part \notin {"turns", "approvals"} => UNCHANGED chat
  /\ part # "sessions" => UNCHANGED sessions
  /\ part # "services" => UNCHANGED lvars
  /\ part # "lark" => UNCHANGED mcp
  /\ part # "install" => UNCHANGED install
  /\ part # "bypass" => UNCHANGED bypass

-----------------------------------------------------------------------------
(* The poller, every handler and a session that starts go on; so do the    *)
(* threads and the loops of the backend, and what a socket is given to     *)
(* send is read.                                                           *)
MessageFairness ==
  /\ WF_updates(part = "updates" /\ Updates!Takeover) /\ WF_updates(part = "updates" /\ Updates!Receipt)
  /\ WF_updates(part = "updates" /\ Updates!Poll) /\ WF_updates(part = "updates" /\ Updates!Takes)
  /\ \A u \in 1..2 : WF_updates(part = "updates" /\ Updates!Handles(u))
  /\ WF_messages(part = "outbox" /\ Outbox!LoopSteps) /\ WF_messages(part = "outbox" /\ Outbox!RecoverySteps)
  /\ WF_messages(part = "outbox" /\ Outbox!SenderSteps)
  /\ \A c \in {"remove", "other"} :
       WF_cvars(part = "config" /\ Thread(c)) /\ WF_cvars(part = "config" /\ Caller(c))
  /\ \A p \in {"desk", "cli"} : WF_cvars(part = "config" /\ Publishes(p))
  /\ WF_stream(part = "stream" /\ Stream!Replay) /\ WF_stream(part = "stream" /\ Stream!Pump)
  /\ WF_stream(part = "stream" /\ Stream!Publish) /\ WF_stream(part = "stream" /\ Stream!Close)
  /\ WF_chat(part = "turns" /\ Turns!Owner) /\ WF_chat(part = "approvals" /\ Approvals!Owner)
  /\ \A n \in 1..2 : /\ WF_chat(part = "turns" /\ n \in DOMAIN process /\ Turns!TaskStarts(n))
                     /\ WF_chat(part = "turns" /\ n \in DOMAIN process /\ Turns!TaskOver(n))
  /\ \A a \in {"a1", "a2"} :
       /\ WF_chat(part = "approvals" /\ Approvals!Deadline(a))
       /\ WF_chat(part = "approvals" /\ Approvals!ExpireTimer(a))
       /\ WF_chat(part = "approvals" /\ Approvals!Tell(a))

(* An executor, a task and an operation go on, and every await of theirs   *)
(* has an end: a launch, a probe, a login and an installation are given up *)
(* at a time limit, a supervisor ends its group, the server ends what it   *)
(* has begun and a request in flight arrives or is lost; a backend that is *)
(* down is started again.  The gateway of the bypass is usable again and   *)
(* again, and so is the route command.                                     *)
WorkFairness ==
  /\ WF_executor(part = "executor" /\ Executor!Executor) /\ WF_executor(part = "executor" /\ Executor!Reconcile)
  /\ WF_executor(part = "executor" /\ Executor!Progress) /\ WF_executor(part = "executor" /\ Executor!Transport)
  /\ WF_sessions(part = "sessions" /\ Sessions!Start) /\ WF_sessions(part = "sessions" /\ Sessions!Stopped)
  /\ \A c \in {"c1", "c2"} : WF_sessions(part = "sessions" /\ Sessions!CallerStep(c))
  /\ \A s \in {"s1", "s2"} :
       WF_sessions(part = "sessions" /\ Sessions!TaskStep(s)) /\ WF_sessions(part = "sessions" /\ Sessions!Reap(s))
  /\ WF_lvars(part = "services" /\ ShutdownEnds) /\ WF_lvars(part = "services" /\ Own("code"))
  /\ WF_lvars(part = "services" /\ Supervised("code"))
  /\ WF_mcp(part = "lark" /\ Lark!Operation) /\ WF_mcp(part = "lark" /\ Lark!Killed)
  /\ \A j \in 1..2 : /\ WF_install(part = "install" /\ Install!JobStep(j))
                     /\ WF_install(part = "install" /\ Install!NpmKilled(j))
                     /\ WF_install(part = "install" /\ Install!Interrupt(j, "timeout"))
  /\ WF_bypass(part = "bypass" /\ Bypass!Daemon) /\ WF_bypass(part = "bypass" /\ Bypass!Installer)
  /\ SF_bypass(part = "bypass" /\ Bypass!BeginSweep /\ gateway' = snapshot.gateway)
  /\ SF_bypass(part = "bypass" /\ Bypass!Add /\ Bypass!RouteAdd(1))
  /\ SF_bypass(part = "bypass" /\ Bypass!Delete /\ Bypass!RouteDelete(1))

Spec == Init /\ [][Next]_vars /\ MessageFairness /\ WorkFairness

-----------------------------------------------------------------------------
(* What is received is answered: an update that the poller has not seen    *)
(* comes to an end, a change of a run is put into the outbox and a message *)
(* in it is settled, a confirmed change of the configuration is announced, *)
(* a subscription is acknowledged, a prompt is run and a request of the    *)
(* CLI is answered, whatever fails, dies or fills up meanwhile.            *)
Expecting(i) ==
  \/ part = "updates" /\ i <= 2 /\ Updates!Waits(i)
  \/ part = "outbox" /\ (IF i <= 2 THEN Outbox!Owed(<<"n", "m">>[i]) ELSE Outbox!Offered(<<"n", "m">>[i - 2]))
  \/ part = "config" /\ (IF i <= 2 THEN Posted(<<"remove", "other">>[i])
                                   ELSE Waits(<<"remove", "other">>[i - 2]))
  \/ part = "stream" /\ ((i = 1 /\ Stream!Subscribing) \/ (i = 2 /\ Stream!Overflowed))
  \/ part = "turns" /\ i <= 2 /\ Turns!Accepted(<<"p1", "p2">>[i])
  \/ part = "approvals" /\ i <= 2 /\ Approvals!Awaiting(<<"a1", "a2">>[i])
Met(i) ==
  /\ part = "updates" /\ i <= 2 => Updates!Answered(i)
  /\ part = "outbox" => IF i <= 2 THEN Outbox!Notified(<<"n", "m">>[i]) ELSE Outbox!Settled(<<"n", "m">>[i - 2])
  /\ part = "config" => IF i <= 2 THEN Announced(<<"remove", "other">>[i])
                                  ELSE Answered(<<"remove", "other">>[i - 2])
  /\ part = "stream" => IF i = 1 THEN Stream!Acknowledged ELSE ~Stream!Overflowed
  /\ part = "turns" /\ i <= 2 => Turns!RunToItsEnd(<<"p1", "p2">>[i])
  /\ part = "approvals" /\ i <= 2 => Approvals!Answered(<<"a1", "a2">>[i])
MessagesArrive == \A i \in 1..4 : Expecting(i) ~> Met(i)

(* What is begun ends: an execution comes to an outcome and an unknown one *)
(* that can be proved is decided, no process outlives the backend and a    *)
(* session told to close ends, a stop ends, an exit is noticed and a group *)
(* that the shutdown gave up ends too, an operation of the MCP server and  *)
(* an installation end and release their claim; and the bypass repairs its *)
(* routes once nobody disturbs it.                                         *)
Begun(i) ==
  \/ part = "executor" /\ ((i = 1 /\ out = "running") \/ (i = 2 /\ Executor!Provable))
  \/ part = "sessions" /\ (IF i <= 2 THEN Sessions!Orphan(<<"s1", "s2">>[i]) ELSE Sessions!Told(<<"s1", "s2">>[i - 2]))
  \/ part = "services" /\ ((i = 1 /\ Stops("code")) \/ (i = 2 /\ Exited("code")) \/ (i = 3 /\ Outlives("code")))
  \/ part = "lark" /\ i = 1 /\ larkOp # "none"
  \/ part = "install" /\ i <= 2 /\ Install!Runs(i)
Concluded(i) ==
  /\ part = "executor" => IF i = 1 THEN out # "running" ELSE out # "unknown"
  /\ part = "sessions" => IF i <= 2 THEN proc[<<"s1", "s2">>[i]] = "gone" ELSE Sessions!Ended(<<"s1", "s2">>[i - 2])
  /\ part = "services" => CASE i = 1 -> ~Stops("code") [] i = 2 -> state["code"] \notin Serving
                             [] OTHER -> ~Outlives("code")
  /\ part = "lark" => larkOp = "none"
  /\ part = "install" /\ i <= 2 => Install!Cleared(i)
WorkEnds == (\A i \in 1..4 : Begun(i) ~> Concluded(i)) /\ <>[](part = "bypass" => Bypass!Repaired)
=============================================================================

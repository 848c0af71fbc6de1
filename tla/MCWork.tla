------------------------------- MODULE MCWork -------------------------------
(***************************************************************************)
(* What the backend does for a user, for TLC: the executor of a release,   *)
(* its Git step, AI sessions and the streams of events, each by itself:    *)
(* they share no variable.  `part' names the one that moves in a           *)
(* behaviour; the others stay in their initial state.                      *)
(***************************************************************************)
EXTENDS AdoExecutor

VARIABLES
  part,
  planOp, planBuilds, planReleases, planFlight, planGot, planDrift, planSteps, planEffects, planStop, planOut,
  planX, planY, planFaults,
  repo, heads, tracking, remote, at, merging, dirty, f, pushes, edits, gitFaults,
  inbox, pending, turn, marked, stale, phase, prompt, ends, approvals, rules, timers, graces, rows, overdue,
  answer, cli, process, attempt, decider, delivered, interrupts,
  backend, lock, caller, aux, row, record, active, task, order, proc, pid, struck, crashes,
  journal, due, sub, incoming, wire, link, client, base, sent, bound

plans == <<planOp, planBuilds, planReleases, planFlight, planGot, planDrift, planSteps, planEffects, planStop,
           planOut, planX, planY, planFaults>>
git == <<repo, heads, tracking, remote, at, merging, dirty, f, pushes, edits, gitFaults>>
chat == <<inbox, pending, turn, marked, stale, phase, prompt, ends, approvals, rules, timers, graces, rows,
          overdue, answer, cli, process, attempt, decider, delivered, interrupts>>
sessions == <<backend, lock, caller, aux, row, record, active, task, order, proc, pid, struck, crashes>>
stream == <<journal, due, sub, incoming, wire, link, client, base, sent, bound>>
vars == <<part, evars, plans, git, chat, sessions, stream>>

-----------------------------------------------------------------------------
(* A run of one target with two stages; plans of two targets, and of one   *)
(* target on a server that other people use                                *)
AllOperations == {"sync_build_release", "deploy_only", "rollback"}
TwoStages == <<"e1", "e2">>
OneStage == <<"e1">>
Skipped == {"x"}
Targets == INSTANCE AdoExecutor WITH
  Operations <- AllOperations, N <- 2, Stages <- OneStage, Unselected <- Skipped, Outsiders <- FALSE,
  MaxBuilds <- 2, MaxAttempts <- 2, Faults <- 3,
  op <- planOp, builds <- planBuilds, releases <- planReleases, flight <- planFlight, got <- planGot,
  drift <- planDrift, steps <- planSteps, effects <- planEffects, stop <- planStop, out <- planOut, x <- planX,
  y <- planY, faults <- planFaults
Shared == INSTANCE AdoExecutor WITH
  Operations <- AllOperations, N <- 1, Stages <- OneStage, Unselected <- Skipped, Outsiders <- TRUE,
  MaxBuilds <- 1, MaxAttempts <- 1, Faults <- 1,
  op <- planOp, builds <- planBuilds, releases <- planReleases, flight <- planFlight, got <- planGot,
  drift <- planDrift, steps <- planSteps, effects <- planEffects, stop <- planStop, out <- planOut, x <- planX,
  y <- planY, faults <- planFaults

(* Two worktrees of one repository: a plan that updates a branch, merges   *)
(* it into the build and pushes the build; one flow that pushes both       *)
FlowBranches == {"main", "rel"}
Updated == <<"main">>
Merged == <<<<"main", "rel">>>>
PushesBuild == <<"rel">>
PushesBoth == <<"main", "rel">>
TwoFlows == {"p1", "p2"}
KeysOfTwo == [p1 |-> <<"common", "root1">>, p2 |-> <<"common", "root2">>]
OneFlow == {"p1"}
KeysOfOne == [p1 |-> <<"common", "root1">>]
Worktrees == INSTANCE GitFlow WITH
  Flows <- TwoFlows, Keys <- KeysOfTwo, Branches <- FlowBranches, Updates <- Updated, Merges <- Merged,
  Pushes <- PushesBuild, Build <- "rel", Edits <- 1, Faults <- 1, lock <- repo, effects <- pushes, faults <- gitFaults
Publishing == INSTANCE GitFlow WITH
  Flows <- OneFlow, Keys <- KeysOfOne, Branches <- FlowBranches, Updates <- Updated, Merges <- Merged,
  Pushes <- PushesBoth, Build <- "rel", Edits <- 2, Faults <- 2, lock <- repo, effects <- pushes, faults <- gitFaults

(* A process for each turn; a resident CLI, with two approvals that share  *)
(* a rule and one for a compound command; the same, closed or exiting      *)
RuleOf(a) == IF a = "a3" THEN "compound" ELSE "Bash git"
None == {}
OnePrompt == {"p1"}
ThreePrompts == {"p1", "p2", "p3"}
TwoAsks == {"a1", "a2"}
ThreeAsks == {"a1", "a2", "a3"}
OneDecider == {"a1"}
TwoDeciders == {"a1", "a3"}
Turns == INSTANCE AiChat WITH
  Cli <- "agy", Prompts <- ThreePrompts, Asks <- None, KeyOf <- RuleOf, Deciders <- None, QueueLimit <- 2,
  ApprovalLimit <- 1, MaxInterrupts <- 1, MayClose <- TRUE, MayExit <- FALSE
Approvals == INSTANCE AiChat WITH
  Cli <- "claude", Prompts <- OnePrompt, Asks <- ThreeAsks, KeyOf <- RuleOf, Deciders <- TwoDeciders,
  QueueLimit <- 1, ApprovalLimit <- 2, MaxInterrupts <- 0, MayClose <- FALSE, MayExit <- FALSE
Endings == INSTANCE AiChat WITH
  Cli <- "claude", Prompts <- OnePrompt, Asks <- TwoAsks, KeyOf <- RuleOf, Deciders <- OneDecider,
  QueueLimit <- 1, ApprovalLimit <- 1, MaxInterrupts <- 1, MayClose <- TRUE, MayExit <- TRUE

(* Two callers with one request id and a third, a check and an upgrade;    *)
(* callers that may give up                                                *)
RequestOf(c) == IF c = "c3" THEN "s2" ELSE "s1"
OneCli(s) == "claude"
ThreeCallers == {"c1", "c2", "c3"}
TwoCallers == {"c1", "c3"}
TwoSessions == {"s1", "s2"}
CheckAndUpgrade == {"k1", "u1"}
OneUpgrade == {"u1"}
Sessions == INSTANCE AiSessions WITH
  Callers <- ThreeCallers, Sid <- TwoSessions, RequestOf <- RequestOf, CliOf <- OneCli, Aux <- CheckAndUpgrade,
  AuxCli <- OneCli, Upgrades <- OneUpgrade, KindLimit <- 2, CliLimit <- 1, MayCancel <- FALSE, MaxCrashes <- 1
GivenUp == INSTANCE AiSessions WITH
  Callers <- TwoCallers, Sid <- TwoSessions, RequestOf <- RequestOf, CliOf <- OneCli, Aux <- None,
  AuxCli <- OneCli, Upgrades <- None, KindLimit <- 2, CliLimit <- 1, MayCancel <- TRUE, MaxCrashes <- 1

(* A run, whose journal keeps everything, a bus and an AI session          *)
Runs == INSTANCE EventStream WITH
  Topic <- "run", Watermark <- "topic", QueueSize <- 2, Kept <- 5, Page <- 2, Commits <- 4, Others <- 1,
  Frames <- 2, Cancels <- 0
Bus == INSTANCE EventStream WITH
  Topic <- "bus", Watermark <- "topic", QueueSize <- 2, Kept <- 2, Page <- 2, Commits <- 4, Others <- 1,
  Frames <- 2, Cancels <- 0
Ai == INSTANCE EventStream WITH
  Topic <- "ai", Watermark <- "topic", QueueSize <- 2, Kept <- 2, Page <- 2, Commits <- 3, Others <- 1,
  Frames <- 2, Cancels <- 1

ASSUME InstancesAssumption ==
  /\ PlanAssumption /\ Targets!PlanAssumption /\ Shared!PlanAssumption
  /\ Worktrees!PlanAssumption /\ Publishing!PlanAssumption
  /\ Turns!ChatAssumption /\ Approvals!ChatAssumption /\ Endings!ChatAssumption
  /\ Sessions!SessionsAssumption /\ GivenUp!SessionsAssumption
  /\ Runs!StreamAssumption /\ Bus!StreamAssumption /\ Ai!StreamAssumption

-----------------------------------------------------------------------------
Init ==
  /\ part \in {"run", "targets", "shared", "worktrees", "publishing", "turns", "approvals", "endings",
               "sessions", "given up", "runs", "bus", "ai"}
  /\ ExecutorInit /\ IF part = "shared" THEN Shared!ExecutorInit ELSE Targets!ExecutorInit
  /\ part # "run" => op = "rollback"
  /\ part \notin {"targets", "shared"} => planOp = "rollback"
  /\ IF part = "publishing" THEN Publishing!Init ELSE Worktrees!Init
  /\ part \notin {"worktrees", "publishing"} => at = "main"
  /\ CASE part = "approvals" -> Approvals!ChatInit [] part = "endings" -> Endings!ChatInit [] OTHER -> Turns!ChatInit
  /\ IF part = "given up" THEN GivenUp!Init ELSE Sessions!Init
  /\ CASE part = "bus" -> Bus!StreamInit [] part = "ai" -> Ai!StreamInit [] OTHER -> Runs!StreamInit

Executors ==
  \/ /\ part = "run" /\ ExecutorNext
     /\ UNCHANGED <<part, plans, git, chat, sessions, stream>>
  \/ /\ \/ part = "targets" /\ Targets!ExecutorNext
        \/ part = "shared" /\ Shared!ExecutorNext
     /\ UNCHANGED <<part, evars, git, chat, sessions, stream>>

GitFlows ==
  /\ \/ part = "worktrees" /\ Worktrees!Next
     \/ part = "publishing" /\ Publishing!Next
  /\ UNCHANGED <<part, evars, plans, chat, sessions, stream>>

Chats ==
  /\ \/ part = "turns" /\ Turns!ChatNext
     \/ part = "approvals" /\ Approvals!ChatNext
     \/ part = "endings" /\ Endings!ChatNext
  /\ UNCHANGED <<part, evars, plans, git, sessions, stream>>

AllSessions ==
  /\ \/ part = "sessions" /\ Sessions!Next
     \/ part = "given up" /\ GivenUp!Next
  /\ UNCHANGED <<part, evars, plans, git, chat, stream>>

Streams ==
  /\ \/ part = "runs" /\ Runs!StreamNext
     \/ part = "bus" /\ Bus!StreamNext
     \/ part = "ai" /\ Ai!StreamNext
  /\ UNCHANGED <<part, evars, plans, git, chat, sessions>>

(* Nobody has to commit, to subscribe or to connect again                  *)
Still == part \in {"runs", "bus", "ai"} /\ UNCHANGED vars

Next == Executors \/ GitFlows \/ Chats \/ AllSessions \/ Streams \/ Still
Spec == Init /\ [][Next]_vars

-----------------------------------------------------------------------------
(* Other plans of a release (AdoTaskExecutor.execute, reconcile), of two   *)
(* targets and among other people, have no request carried out twice and   *)
(* deploy only what was built from the planned commit; and their Git step  *)
(* (GitAdapter.locked, execute): flows of one repository take turns, what  *)
(* is recorded for pushed is on origin, an end that is reported is known,  *)
(* and no merge is left half-done without being told.                      *)
PlansSafe ==
  /\ part = "targets" => Targets!ExecutorSafe
  /\ part = "shared" => Shared!ExecutorSafe
  /\ part = "worktrees" => Worktrees!GitSafe
  /\ part = "publishing" => Publishing!GitSafe
(* AI sessions (AISessionService, AIOwner): a turn has one end and an      *)
(* approval one answer, that of its row; rules allow only what the user    *)
(* allowed; sessions keep their limits, every live one has a task and no   *)
(* process of another program is killed after a restart.                   *)
AiSafe ==
  /\ part = "turns" => Turns!ChatSafe
  /\ part = "approvals" => Approvals!ChatSafe
  /\ part = "endings" => Endings!ChatSafe
  /\ part = "sessions" => Sessions!SessionsSafe
  /\ part = "given up" => GivenUp!SessionsSafe
(* The event socket (api/ws.py, EventHub): events are sent in order and    *)
(* once, a client has no hole below what he has seen, and the change from  *)
(* the replay to the live events loses none that is committed meanwhile.   *)
StreamSafe ==
  /\ part = "runs" => Runs!StreamSafe
  /\ part = "bus" => Bus!StreamSafe
  /\ part = "ai" => Ai!StreamSafe

(* What no step does: lose a commit of a branch or of origin, change the   *)
(* end of a session, or cut off a client by the replay it asked for.       *)
WorkSteps ==
  [][/\ part = "worktrees" => Worktrees!NothingLost
     /\ part = "publishing" => Publishing!NothingLost
     /\ part = "sessions" => Sessions!EndsOnce
     /\ part = "given up" => GivenUp!EndsOnce
     /\ part = "runs" => Runs!ReplayNeverOverflows
     /\ part = "ai" => Ai!ReplayNeverOverflows]_vars
=============================================================================

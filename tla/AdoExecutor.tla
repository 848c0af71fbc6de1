----------------------------- MODULE AdoExecutor -----------------------------
(***************************************************************************)
(* One run of the remote executor, adapters/ado_tasks.py, against the      *)
(* server it writes to: its plan, the write of each build, release and     *)
(* deployment (a journalled intent, one request, a journalled answer), the *)
(* waits, the cancellation, and the read-only reconciliation after a crash *)
(* or a lost answer.                                                       *)
(*                                                                         *)
(* A request that is not answered may have reached the server, may reach   *)
(* it later or never.  The server, its other users and the executor take   *)
(* steps in any order.                                                     *)
(***************************************************************************)
EXTENDS Integers, Sequences, FiniteSets, FiniteSetsExt

CONSTANTS
  Operations,  \* operations a run may have: sync_build_release, deploy_only, rollback
  N,           \* number of targets of the task
  Stages,      \* the selected environments of every target, in order
  Unselected,  \* the environments that are not selected
  Outsiders,   \* other people use the server too
  MaxBuilds,   \* bound: builds on the server
  MaxAttempts, \* bound: deployments of one environment
  Faults       \* bound: failed requests and crashes

Selected == {Stages[i] : i \in DOMAIN Stages}
Envs     == Selected \cup Unselected

PlanAssumption ==
  /\ Operations \subseteq {"sync_build_release", "deploy_only", "rollback"}
  /\ N \in Nat \ {0} /\ Outsiders \in BOOLEAN
  /\ Stages \in Seq(Selected) /\ Stages # <<>> /\ Unselected \cap Selected = {}
  /\ \A i, j \in DOMAIN Stages : Stages[i] = Stages[j] => i = j
  /\ MaxBuilds \in Nat /\ MaxAttempts \in Nat /\ Faults \in Nat

VARIABLES
  op,        \* the operation
  builds,    \* the builds of the server: [target, fits, result, by]
  releases,  \* its releases: [target, build, by, envs]
  flight,    \* effects whose request was not answered and may still arrive
  got,       \* the effects whose request the server has carried out, in order
  drift,     \* the branch, a release definition or the history is not as planned
  steps,     \* the journal: [kind, target, status, build, release]
  effects,   \* the journal: [step, kind, state, remote, env, base]
  stop,      \* "no", "asked" (journalled), "heard" (the signal is set)
  out,       \* "running", or how the run ended
  x,         \* the executor: [pc, k, build, release, left, base, owned, stopping]
  y,         \* the reconciliation: [k, uncertain, failed, observed, cancelled, other, done]
  faults

server == <<builds, releases, flight, got, drift>>
local  == <<steps, effects, stop, out, x, y, faults>>
evars  == <<op, builds, releases, flight, got, drift, steps, effects, stop, out, x, y, faults>>

Results == {"succeeded", "failed", "canceled"}
RELEASE_TERMINAL == {"succeeded", "rejected"}
NoRead == [k |-> 0, uncertain |-> FALSE, failed |-> FALSE, observed |-> FALSE,
           cancelled |-> FALSE, other |-> FALSE, done |-> {}]
Idling == [pc |-> "done", k |-> 1, build |-> 0, release |-> 0, left |-> <<>>,
           base |-> [e \in Envs |-> 0], owned |-> FALSE, stopping |-> FALSE]

-----------------------------------------------------------------------------
(* What the executor concludes from the answers of the server.             *)

(* An environment: how many deployments it had, the state of the last, and *)
(* whether its approvals, gates and phases agree with it; trigger is       *)
(* "manual" when only a person starts it.                                  *)
Fresh(trigger) == [status |-> "notStarted", attempt |-> 0, agreed |-> FALSE,
                   trigger |-> trigger, run |-> 0]

manual_environment(e) ==
  e.status = "notStarted" /\ e.attempt = 0 /\ e.trigger = "manual"

deployment_result(e) ==
  IF e.status \notin RELEASE_TERMINAL THEN "none"
  ELSE IF e.status # "succeeded" THEN "failed"
  ELSE IF e.agreed THEN "succeeded" ELSE "none"

Completed(b)   == b.result # "none"
Newer(r, base) == \A e \in Selected : releases[r].envs[e].attempt > base[e]
ResultsOf(r)   == {deployment_result(releases[r].envs[e]) : e \in Selected}

(* The steps that a plan freezes: a build and a release for every target,  *)
(* or the release, or the rollback alone.                                  *)
PlanOf(o) ==
  LET Row(kind, t) == [kind |-> kind, target |-> t, status |-> "pending",
                       build |-> 0, release |-> 0]
  IN IF o = "sync_build_release"
       THEN [i \in 1 .. 2 * N |-> Row(IF i % 2 = 1 THEN "build" ELSE "release", (i + 1) \div 2)]
       ELSE [i \in 1 .. N |-> Row(IF o = "rollback" THEN "rollback" ELSE "release", i)]

(* What the plan found: the succeeded build that deploy_only publishes, the*)
(* release that rollback deploys again.                                    *)
Found(o) ==
  [t \in 1 .. IF o = "sync_build_release" THEN 0 ELSE N |->
     [target |-> t, fits |-> TRUE, result |-> "succeeded", by |-> 0]]

History(o) ==
  [t \in 1 .. IF o = "rollback" THEN N ELSE 0 |->
     [target |-> t, build |-> t, by |-> 0,
      envs |-> [e \in Envs |-> [Fresh("manual") EXCEPT !.status = "succeeded",
                                                       !.attempt = 1, !.agreed = TRUE]]]]

ExecutorInit ==
  /\ op \in Operations
  /\ builds = Found(op) /\ releases = History(op)
  /\ flight = {} /\ got = <<>> /\ drift = FALSE
  /\ steps = PlanOf(op) /\ effects = <<>>
  /\ stop = "no" /\ out = "running"
  /\ x = [Idling EXCEPT !.pc = "target"] /\ y = NoRead
  /\ faults = Faults

-----------------------------------------------------------------------------
(* The server and its other users.                                         *)

Start(r, e, i) ==
  LET v == releases[r].envs[e] IN
  releases' = [releases EXCEPT ![r].envs[e] =
    [v EXCEPT !.status = "inProgress", !.agreed = FALSE, !.attempt = v.attempt + 1, !.run = i]]

(* The server takes the request of effect i.  A new release has only       *)
(* manual environments, unless the server ignores what it was asked.       *)
Perform(i) ==
  LET f == effects[i] IN
  /\ got' = Append(got, i)
  /\ \/ /\ f.kind = "build_create"
        /\ builds' = Append(builds, [target |-> steps[f.step].target, fits |-> TRUE,
                                     result |-> "none", by |-> i])
        /\ UNCHANGED releases
     \/ /\ f.kind = "build_cancel"
        /\ UNCHANGED <<builds, releases>>
     \/ /\ f.kind = "release_create"
        /\ \E trigger \in {"manual", "automatic"} :
             releases' = Append(releases,
               [target |-> steps[f.step].target, build |-> f.base, by |-> i,
                envs |-> [e \in Envs |-> Fresh(IF e \in Unselected THEN trigger ELSE "manual")]])
        /\ UNCHANGED builds
     \/ /\ f.kind = "env_deploy"
        /\ releases[f.remote].envs[f.env].status # "inProgress"
        /\ Start(f.remote, f.env, i)
        /\ UNCHANGED builds

BuildEnds(b) ==
  /\ ~Completed(builds[b])
  /\ \E result \in Results : builds' = [builds EXCEPT ![b].result = result]
  /\ UNCHANGED <<op, releases, flight, got, drift, local>>

DeploymentEnds(r, e) ==
  /\ releases[r].envs[e].status = "inProgress"
  /\ \E status \in RELEASE_TERMINAL : releases' = [releases EXCEPT ![r].envs[e].status = status]
  /\ UNCHANGED <<op, builds, flight, got, drift, local>>

(* The approvals and gates after a deployment are given, or refuse it.     *)
Agrees(r, e) ==
  /\ releases[r].envs[e].status = "succeeded" /\ ~releases[r].envs[e].agreed
  /\ \/ releases' = [releases EXCEPT ![r].envs[e].agreed = TRUE]
     \/ releases' = [releases EXCEPT ![r].envs[e].status = "rejected"]
  /\ UNCHANGED <<op, builds, flight, got, drift, local>>

(* An environment that is not manual is started by the server.             *)
AutoDeploys(r, e) ==
  /\ releases[r].envs[e].trigger = "automatic" /\ releases[r].envs[e].attempt = 0
  /\ Start(r, e, 0)
  /\ UNCHANGED <<op, builds, flight, got, drift, local>>

Arrives(i) ==
  /\ i \in flight
  /\ flight' = flight \ {i}
  /\ Perform(i)
  /\ UNCHANGED <<op, drift, local>>

Vanishes(i) ==
  /\ i \in flight
  /\ flight' = flight \ {i}
  /\ UNCHANGED <<op, builds, releases, got, drift, local>>

OtherBuild(t, fits) ==
  /\ Outsiders /\ Len(builds) < MaxBuilds
  /\ builds' = Append(builds, [target |-> t, fits |-> fits, result |-> "none", by |-> 0])
  /\ UNCHANGED <<op, releases, flight, got, drift, local>>

OtherDeployment(r, e) ==
  /\ Outsiders
  /\ releases[r].envs[e].status # "inProgress" /\ releases[r].envs[e].attempt < MaxAttempts
  /\ Start(r, e, 0)
  /\ UNCHANGED <<op, builds, flight, got, drift, local>>

Drifts ==
  /\ Outsiders /\ ~drift
  /\ drift' = TRUE
  /\ UNCHANGED <<op, builds, releases, flight, got, local>>

-----------------------------------------------------------------------------
(* The executor.  k is the step it is in.                                  *)

Running   == out = "running" /\ x.pc # "done"
At(pc)    == Running /\ x.pc = pc
Target    == steps[x.k].target
Heard     == stop = "heard"
Go(pc)    == x' = [x EXCEPT !.pc = pc]
Quiet     == UNCHANGED <<op, server, stop, y, faults>>

(* The run ends in this step; its last step is recorded first.             *)
Ends(result)           == out' = result /\ x' = Idling
EndsAfter(result, st)  == Ends(result) /\ steps' = [steps EXCEPT ![x.k].status = st]
NextStep(pc)           ==
  /\ steps' = [steps EXCEPT ![x.k].status = "succeeded"]
  /\ x' = [x EXCEPT !.pc = pc, !.k = @ + 1]
  /\ UNCHANGED out

(* A remote operation of this run, or one it has observed.                 *)
Remote == effects # <<>> \/ \E j \in DOMAIN steps : steps[j].build # 0 \/ steps[j].release # 0

(* An exception out of execute: nothing remote can be excluded.            *)
FailureOutcome(stopped) == IF Remote THEN "unknown" ELSE IF stopped THEN "cancelled" ELSE "failed"
Raises == Ends(FailureOutcome(FALSE)) /\ UNCHANGED <<steps, effects>>

(* context.intent: refused once the run is to stop, but for the            *)
(* cancellation of a build that this run created in this step.             *)
Owns(j, b) == \E i \in DOMAIN effects : /\ effects[i].kind = "build_create"
                                       /\ effects[i].step = j /\ effects[i].state = "confirmed"
IntentOK(kind) == IF kind = "build_cancel" THEN stop # "no" /\ Owns(x.k, x.build) ELSE stop = "no"

Intent(kind, remote, env, base) ==
  /\ IntentOK(kind)
  /\ effects' = Append(effects, [step |-> x.k, kind |-> kind, state |-> "intent",
                                 remote |-> remote, env |-> env, base |-> base])
  /\ Go("send")

(* The answer names what was created.                                      *)
Answered(i) ==
  x' = [x EXCEPT !.pc = "receipt",
                 !.build   = IF effects[i].kind = "build_create" THEN Len(builds) + 1 ELSE @,
                 !.release = IF effects[i].kind = "release_create" THEN Len(releases) + 1 ELSE @]

(* Mutant: a request without an answer is sent again.                      *)
SendAgain ==
  /\ At("send")
  /\ \/ /\ Perform(Len(effects))
        /\ Answered(Len(effects))
        /\ UNCHANGED <<out, flight, faults>>
     \/ /\ faults > 0 /\ faults' = faults - 1
        /\ flight' = flight \cup {Len(effects)}
        /\ UNCHANGED <<builds, releases, got, out, x>>
  /\ UNCHANGED <<op, drift, steps, effects, stop, y>>

(* write: the request goes out once, and its answer is journalled.  No     *)
(* answer means an exception.                                              *)
Send ==
  /\ At("send")
  /\ \/ /\ Perform(Len(effects))
        /\ Answered(Len(effects))
        /\ UNCHANGED <<out, flight, faults>>
     \/ /\ faults > 0 /\ faults' = faults - 1
        /\ \/ flight' = flight \cup {Len(effects)}
           \/ UNCHANGED flight
        /\ Ends("unknown")
        /\ UNCHANGED <<builds, releases, got>>
  /\ UNCHANGED <<op, drift, steps, effects, stop, y>>

(* A server that refuses, as for a deployment of an environment that is    *)
(* being deployed, answers with an error.                                  *)
Refused ==
  /\ At("send")
  /\ effects[Len(effects)].kind = "env_deploy"
  /\ releases[effects[Len(effects)].remote].envs[effects[Len(effects)].env].status = "inProgress"
  /\ Ends("unknown")
  /\ UNCHANGED <<op, server, steps, effects, stop, y, faults>>

Confirm(i, remote) == effects' = [effects EXCEPT ![i].state = "confirmed", ![i].remote = remote]

Receipt ==
  LET i == Len(effects) IN
  /\ At("receipt")
  /\ \/ /\ effects[i].kind = "build_create"
        /\ Confirm(i, x.build) /\ Go("created")
     \/ /\ effects[i].kind = "build_cancel"
        /\ Confirm(i, x.build)
        /\ x' = [x EXCEPT !.pc = "wait", !.stopping = TRUE]
     \/ /\ effects[i].kind = "release_create"
        /\ Confirm(i, x.release) /\ Go("verify")
     \/ /\ effects[i].kind = "env_deploy"
        /\ Confirm(i, x.release)
        /\ x' = [x EXCEPT !.pc = "deploy", !.left = Tail(@)]
  /\ UNCHANGED <<steps, out>> /\ Quiet

(* execute, at the head of a target: the cancellation, then what has to be *)
(* as it was planned before anything is done.                              *)
Begin ==
  /\ At("target")
  /\ \/ /\ x.k > Len(steps)
        /\ Ends("succeeded")
     \/ /\ x.k <= Len(steps) /\ Heard
        /\ Ends(IF Remote THEN "unknown" ELSE "cancelled")
     \/ /\ x.k <= Len(steps) /\ ~Heard
        /\ op = "sync_build_release"
        /\ IF drift THEN Ends("failed") ELSE Go("acquire") /\ UNCHANGED out
     \/ /\ x.k <= Len(steps) /\ ~Heard
        /\ op = "deploy_only"
        /\ x' = [x EXCEPT !.pc = "bind", !.build = Target]
        /\ UNCHANGED out
     \/ /\ x.k <= Len(steps) /\ ~Heard
        /\ op = "rollback"
        /\ IF drift THEN Ends("failed")
           ELSE x' = [x EXCEPT !.pc = "verify", !.build = Target, !.release = Target]
                /\ UNCHANGED out
  /\ UNCHANGED <<steps, effects>> /\ Quiet

(* acquire_build: the newest unfinished build of the planned commit that   *)
(* can be read is reused, and is not ours; otherwise one is created.       *)
Candidates ==
  {b \in DOMAIN builds : builds[b].target = Target /\ builds[b].fits /\ ~Completed(builds[b])}

Reuses(b) ==
  /\ x' = [x EXCEPT !.pc = "wait", !.build = b, !.owned = FALSE, !.stopping = FALSE]
  /\ steps' = [steps EXCEPT ![x.k].build = b]

Acquire ==
  /\ At("acquire")
  /\ \E skipped \in SUBSET Candidates :
       /\ faults' = faults - Cardinality(skipped) /\ faults' \in Nat
       /\ \/ /\ skipped # Candidates
             /\ Reuses(Max(Candidates \ skipped))
             /\ UNCHANGED effects
          \/ /\ skipped = Candidates
             /\ Intent("build_create", 0, "-", 0)
             /\ UNCHANGED steps
  /\ UNCHANGED <<op, server, stop, y, out>>

Created ==
  /\ At("created")
  /\ steps' = [steps EXCEPT ![x.k].build = x.build]
  /\ x' = [x EXCEPT !.pc = "wait", !.owned = TRUE, !.stopping = FALSE]
  /\ UNCHANGED <<effects, out>> /\ Quiet

(* wait_build: a completed build decides; a cancellation is sent once, for *)
(* a build of this run only, and its end awaited.                          *)
Usable(b) == b.result = "succeeded"

WaitBuild ==
  LET b == builds[x.build] IN
  /\ At("wait")
  /\ \/ /\ Completed(b) /\ Heard /\ b.result = "canceled"
        /\ EndsAfter("cancelled", "failed")
        /\ UNCHANGED effects
     \/ /\ Usable(b)
        /\ NextStep("bind")
        /\ UNCHANGED effects
     \/ /\ Completed(b) /\ ~Usable(b) /\ ~(Heard /\ b.result = "canceled")
        /\ EndsAfter("failed", "failed")
        /\ UNCHANGED effects
     \/ /\ ~Completed(b) /\ Heard /\ ~x.owned
        /\ EndsAfter("unknown", "unknown")
        /\ UNCHANGED effects
     \/ /\ ~Completed(b) /\ Heard /\ x.owned /\ ~x.stopping
        /\ Intent("build_cancel", x.build, "-", 0)
        /\ UNCHANGED <<steps, out>>
  /\ Quiet

(* 1800 seconds for a build, 60 for its cancellation, 3600 for a           *)
(* deployment: the run is stopped, and what it waited for still runs.      *)
TimesOut ==
  /\ \/ At("wait") /\ ~Completed(builds[x.build])
     \/ At("poll")
  /\ EndsAfter("unknown", "unknown")
  /\ stop' = "heard"
  /\ UNCHANGED <<op, server, effects, y, faults>>

(* deploy: the release definition is still the planned one, or nothing is  *)
(* created.                                                                *)
Bind ==
  /\ At("bind")
  /\ \/ drift /\ Raises
     \/ /\ ~drift
        /\ Intent("release_create", 0, "-", x.build)
        /\ UNCHANGED <<steps, out>>
  /\ Quiet

(* The release as the server has it: of the planned build, nothing of it   *)
(* started (a rollback: nothing started since the plan).                   *)
Deployable(r) ==
  /\ releases[r].build = x.build
  /\ IF op = "rollback" THEN \A e \in Selected : releases[r].envs[e].attempt = 1
                        ELSE \A e \in Envs : manual_environment(releases[r].envs[e])

Verify ==
  /\ At("verify")
  /\ \/ ~Deployable(x.release) /\ Raises
     \/ /\ Deployable(x.release)
        /\ steps' = [steps EXCEPT ![x.k].release = x.release]
        /\ x' = [x EXCEPT !.pc = "deploy", !.left = Stages,
                          !.base = [e \in Envs |-> releases[x.release].envs[e].attempt]]
        /\ UNCHANGED <<effects, out>>
  /\ Quiet

Deploy ==
  /\ At("deploy")
  /\ \/ /\ x.left = <<>>
        /\ Go("poll")
        /\ UNCHANGED <<steps, effects, out>>
     \/ /\ x.left # <<>> /\ Heard
        /\ EndsAfter("unknown", "unknown")
        /\ UNCHANGED effects
     \/ /\ x.left # <<>> /\ ~Heard
        /\ Intent("env_deploy", x.release, Head(x.left), x.base[Head(x.left)])
        /\ UNCHANGED <<steps, out>>
  /\ Quiet

(* The poll: an environment beside the selected ones that has started ends *)
(* the wait; every selected one needs a deployment newer than the baseline *)
(* and a result.                                                           *)
Settled(r) == Newer(r, x.base) /\ "none" \notin ResultsOf(r)
Stray(r)   == op # "rollback" /\ \E e \in Unselected : ~manual_environment(releases[r].envs[e])

Poll ==
  LET r == x.release IN
  /\ At("poll")
  /\ \/ /\ Stray(r)
        /\ EndsAfter("unknown", "unknown")
     \/ /\ ~Stray(r) /\ Settled(r) /\ ResultsOf(r) = {"succeeded"}
        /\ NextStep("target")
     \/ /\ ~Stray(r) /\ Settled(r) /\ ResultsOf(r) # {"succeeded"}
        /\ EndsAfter("failed", "failed")
     \/ /\ ~Stray(r) /\ ~Settled(r) /\ Heard
        /\ EndsAfter("unknown", "unknown")
  /\ UNCHANGED effects /\ Quiet

(* The build of a release is journalled before the intent of the release:  *)
(* what raises after that was observed.                                    *)
RaisesAfterBind == At("bind") /\ ~drift /\ Ends("unknown") /\ UNCHANGED <<steps, effects>>

(* An intent that the journal refuses because the run is to stop.          *)
IntentRefused ==
  /\ \/ At("acquire") /\ Candidates = {} /\ Raises
     \/ At("deploy") /\ x.left # <<>> /\ ~Heard /\ Raises
     \/ RaisesAfterBind
  /\ stop # "no" /\ Quiet

(* A read or a journal call fails.                                         *)
Fails ==
  /\ Running /\ faults > 0 /\ faults' = faults - 1
  /\ Raises \/ RaisesAfterBind
  /\ UNCHANGED <<op, server, stop, y>>

(* The process dies: the restart finds the run and makes it unknown.       *)
Crash ==
  /\ Running /\ faults > 0 /\ faults' = faults - 1
  /\ Ends("unknown")
  /\ UNCHANGED <<op, server, steps, effects, stop, y>>

(* RunService.cancel: journalled first, then the signal.                   *)
Cancel ==
  /\ Running
  /\ \/ stop = "no" /\ stop' = "asked"
     \/ stop = "asked" /\ stop' = "heard"
  /\ UNCHANGED <<op, server, steps, effects, out, x, y, faults>>

-----------------------------------------------------------------------------
(* reconcile: reads, receipts of what the server shows, and a conclusion.  *)
(* It never writes to the server.  One step of the journal at a time.      *)

Reading    == out = "unknown" /\ y.k \in DOMAIN steps
EffectsOf(kind) == {i \in DOMAIN effects : effects[i].step = y.k /\ effects[i].kind = kind}
ConfirmAll(S, id) ==
  effects' = [i \in DOMAIN effects |->
                IF i \in S /\ effects[i].state # "confirmed"
                  THEN [effects[i] EXCEPT !.state = "confirmed", !.remote = id] ELSE effects[i]]

BeginReading ==
  /\ out = "unknown" /\ y.k = 0
  /\ y' = [NoRead EXCEPT !.k = 1]
  /\ UNCHANGED <<op, server, steps, effects, stop, out, x, faults>>

(* A build that was asked for without an answer is never attributed: there *)
(* is no mark to know it by.                                               *)
ReadBuild ==
  LET creates == EffectsOf("build_create")
      known   == {i \in creates : effects[i].remote # 0}
      ident   == IF known = {} THEN steps[y.k].build ELSE effects[Max(known)].remote
      ended   == ident # 0 /\ Completed(builds[ident])
      bad     == ended /\ builds[ident].result # "succeeded"
  IN
  /\ Reading /\ steps[y.k].kind = "build"
  /\ ConfirmAll(IF ended THEN EffectsOf("build_cancel") ELSE {}, ident)
  /\ y' = [k         |-> y.k + 1,
           uncertain |-> y.uncertain \/ creates # known \/ (ident # 0 /\ ~ended),
           failed    |-> y.failed \/ bad,
           observed  |-> y.observed \/ ident # 0,
           cancelled |-> y.cancelled \/ (bad /\ builds[ident].result = "canceled"),
           other     |-> y.other \/ (bad /\ builds[ident].result # "canceled"),
           done      |-> IF ended THEN y.done \cup {y.k} ELSE y.done]
  /\ UNCHANGED <<op, server, steps, stop, out, x, faults>>

(* The release is known from the journal, or by the mark in its            *)
(* description.                                                            *)
Marked(creates) == {r \in DOMAIN releases : releases[r].by \in creates}
ReleaseOf(creates) ==
  LET known == {effects[i].remote : i \in creates} \ {0} IN
  IF steps[y.k].release # 0 THEN steps[y.k].release
  ELSE IF known # {} THEN Max(known)
  ELSE IF Marked(creates) # {} THEN Max(Marked(creates)) ELSE 0

(* A deployment is this run's when the environment has had one since the   *)
(* baseline.                                                               *)
Since(i, r) == releases[r].envs[effects[i].env].attempt > effects[i].base

ReadRelease ==
  LET creates == EffectsOf("release_create")
      D       == EffectsOf("env_deploy")
      r       == ReleaseOf(creates)
      newer   == {i \in D : Since(i, r)}
      open    == {i \in newer : deployment_result(releases[r].envs[effects[i].env]) = "none"}
      bad     == {i \in newer : deployment_result(releases[r].envs[effects[i].env]) = "failed"} # {}
      busy    == \E e \in Unselected : releases[r].envs[e].status = "inProgress"
  IN
  /\ Reading /\ steps[y.k].kind # "build"
  /\ \/ /\ r = 0
        /\ y' = [y EXCEPT !.k = @ + 1, !.uncertain = @ \/ creates # {} \/ D # {}]
        /\ UNCHANGED effects
     \/ /\ r # 0
        /\ ConfirmAll(creates \cup newer, r)
        /\ y' = [y EXCEPT !.k = @ + 1, !.observed = TRUE,
                          !.uncertain = @ \/ newer # D \/ open # {} \/ busy,
                          !.failed = @ \/ bad \/ Stray(r),
                          !.other  = @ \/ bad \/ Stray(r),
                          !.done   = IF Cardinality(D) = Len(Stages) /\ newer = D /\ open = {}
                                       THEN @ \cup {y.k} ELSE @]
  /\ UNCHANGED <<op, server, steps, stop, out, x, faults>>

Finished == \A j \in DOMAIN steps : steps[j].status = "succeeded" \/ j \in y.done

(* The conclusion: nothing is concluded while anything is uncertain.       *)
Conclude ==
  /\ out = "unknown" /\ y.k = Len(steps) + 1
  /\ \/ y.uncertain /\ UNCHANGED <<out, steps>>
     \/ /\ ~y.uncertain /\ y.failed
        /\ out' = IF y.cancelled /\ ~y.other /\ stop # "no" THEN "cancelled" ELSE "failed"
        /\ UNCHANGED steps
     \/ /\ ~y.uncertain /\ ~y.failed /\ Finished
        /\ steps' = [j \in DOMAIN steps |-> [steps[j] EXCEPT !.status = "succeeded"]]
        /\ out' = "succeeded"
     \/ /\ ~y.uncertain /\ ~y.failed /\ ~Finished
        /\ out' = "failed"
        /\ UNCHANGED steps
  /\ y' = NoRead
  /\ UNCHANGED <<op, server, effects, stop, x, faults>>

ReadFails ==
  /\ y.k > 0 /\ faults > 0
  /\ faults' = faults - 1 /\ y' = NoRead
  /\ UNCHANGED <<op, server, steps, effects, stop, out, x>>

Over == out \notin {"running", "unknown"} /\ UNCHANGED evars

Executor  == \/ Begin \/ Acquire \/ Send \/ Refused \/ Receipt \/ Created \/ WaitBuild
             \/ Bind \/ Verify \/ Deploy \/ Poll \/ IntentRefused
Reconcile == BeginReading \/ ReadBuild \/ ReadRelease \/ Conclude
Progress  == \/ \E b \in DOMAIN builds : BuildEnds(b)
             \/ \E r \in DOMAIN releases, e \in Envs : DeploymentEnds(r, e) \/ Agrees(r, e)
Others    == \/ \E t \in 1 .. N, fits \in BOOLEAN : OtherBuild(t, fits)
             \/ \E r \in DOMAIN releases, e \in Envs : OtherDeployment(r, e) \/ AutoDeploys(r, e)
             \/ Drifts
Transport == \E i \in flight : Arrives(i) \/ Vanishes(i)
Faulty    == TimesOut \/ Fails \/ Crash \/ ReadFails

ExecutorNext == Executor \/ Reconcile \/ Progress \/ Others \/ Transport \/ Faulty \/ Cancel \/ Over

ExecutorSpec == ExecutorInit /\ [][ExecutorNext]_evars

-----------------------------------------------------------------------------
RowsOK ==
  /\ \A j \in DOMAIN steps : /\ steps[j].status \in {"pending", "succeeded", "failed", "unknown"}
                             /\ steps[j].build \in 0 .. Len(builds)
                             /\ steps[j].release \in 0 .. Len(releases)
  /\ \A i \in DOMAIN effects : /\ effects[i].step \in DOMAIN steps
                               /\ effects[i].state \in {"intent", "confirmed"}

(* The rows of the journal point at what exists, the executor is at a step *)
(* of the plan, requests in flight are of journalled effects.              *)
ExecutorTypeOK ==
  /\ op \in Operations /\ drift \in BOOLEAN /\ stop \in {"no", "asked", "heard"}
  /\ out \in {"running", "succeeded", "failed", "cancelled", "unknown"}
  /\ flight \subseteq DOMAIN effects /\ \A n \in DOMAIN got : got[n] \in DOMAIN effects
  /\ RowsOK
  /\ x.k \in 1 .. Len(steps) + 1 /\ y.k \in 0 .. Len(steps) + 1
  /\ faults \in 0 .. Faults

Decided == {"succeeded", "failed", "cancelled"}

(* No write reaches the server twice: not when its answer is lost, not     *)
(* after a crash, not through the reconciliation (write).                  *)
SingleDelivery ==
  \A m, n \in DOMAIN got :
    LET f == effects[got[m]]  g == effects[got[n]] IN
    <<f.step, f.kind, f.env>> = <<g.step, g.kind, g.env>> => m = n

(* What this run deploys was built from the planned commit and succeeded,  *)
(* and belongs to the target; and unless it is a rollback the release      *)
(* cannot start an environment nobody selected (wait_build, deploy).       *)
DeployedIsBuilt ==
  \A n \in DOMAIN got :
    LET f == effects[got[n]]  r == releases[f.remote]  b == builds[r.build] IN
    f.kind = "env_deploy" =>
      /\ b.result = "succeeded" /\ b.fits
      /\ b.target = steps[f.step].target /\ r.target = b.target
      /\ op # "rollback" => \A e \in Unselected : r.envs[e].trigger = "manual"

(* A run is decided only when nothing it asked for is still going on or    *)
(* still to come: until then it keeps its reservation (reconcile).         *)
DecidedIsQuiet ==
  out \in Decided =>
    /\ \A i \in flight : effects[i].kind = "build_cancel"
    /\ \A b \in DOMAIN builds : builds[b].by # 0 => builds[b].result # "none"
    /\ \A r \in DOMAIN releases, e \in Envs :
         releases[r].envs[e].run # 0 => releases[r].envs[e].status \in RELEASE_TERMINAL

(* A run that succeeded has deployed every selected environment of every   *)
(* target, approvals and gates included (execute, reconcile).              *)
SucceededIsDeployed ==
  out = "succeeded" =>
    \A t \in 1 .. N : \E r \in DOMAIN releases :
      /\ releases[r].target = t
      /\ \A e \in Selected : LET v == releases[r].envs[e] IN
           v.run # 0 /\ v.status = "succeeded" /\ v.agreed

(* A deployment that the journal holds for confirmed has reached the       *)
(* server: what cannot be proved stays unknown (reconcile).                *)
ConfirmedWasDelivered ==
  \A i \in DOMAIN effects :
    effects[i].kind = "env_deploy" /\ effects[i].state = "confirmed" =>
      \E n \in DOMAIN got : got[n] = i

(* A run whose requests are all carried out, and whose builds all have     *)
(* their number in the journal, does not stay unknown (reconcile).         *)
Provable ==
  /\ out = "unknown" /\ flight = {}
  /\ \A i \in DOMAIN effects :
       /\ \E n \in DOMAIN got : got[n] = i
       /\ effects[i].kind = "build_create" => effects[i].remote # 0

(* The executor of a release (AdoTaskExecutor.execute, write, reconcile):  *)
(* no request reaches the server twice, and what is deployed was built     *)
(* from the planned commit.  Where nobody else deploys, a run is decided   *)
(* only when nothing it asked for is still to come, a success is one of    *)
(* every target, and what the journal holds for delivered was.             *)
ExecutorSafe ==
  /\ ExecutorTypeOK /\ SingleDelivery /\ DeployedIsBuilt
  /\ ~Outsiders => DecidedIsQuiet /\ SucceededIsDeployed /\ ConfirmedWasDelivered
=============================================================================

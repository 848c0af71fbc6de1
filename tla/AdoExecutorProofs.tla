------------------------- MODULE AdoExecutorProofs -------------------------
(***************************************************************************)
(* The remote executor is safe for any operations, targets, environments,  *)
(* failed requests and crashes.                                            *)
(*                                                                         *)
(* ExecutorInv holds on a server that others use too: the journal has at   *)
(* most one effect of a kind for a step and an environment, the server has *)
(* carried out each at most once, and the executor, which is in one step   *)
(* of the plan, has checked the build and the release that it works with.  *)
(* AloneInv holds where nobody else uses the server: it relates what the   *)
(* server has to the effects that the journal knows of, so that the        *)
(* reconciliation can tell from it what became of the run.                 *)
(***************************************************************************)
EXTENDS AdoExecutor, FiniteSetTheorems, WellFoundedInduction, TLAPS

BuildRecord == [target: 1..N, fits: BOOLEAN, result: Results \cup {"none"}, by: Nat]
EnvRecord ==
  [status: {"notStarted", "inProgress", "succeeded", "rejected"}, attempt: Nat, agreed: BOOLEAN,
   trigger: {"manual", "automatic"}, run: Nat]
ReleaseRecord == [target: 1..N, build: Nat, by: Nat, envs: [Envs -> EnvRecord]]
StepRecord ==
  [kind: {"build", "release", "rollback"}, target: 1..N,
   status: {"pending", "succeeded", "failed", "unknown"}, build: Nat, release: Nat]
EffectRecord ==
  [step: Nat, kind: {"build_create", "build_cancel", "release_create", "env_deploy"},
   state: {"intent", "confirmed"}, remote: Nat, env: Envs \cup {"-"}, base: Nat]
Pcs == {"target", "acquire", "send", "receipt", "created", "wait", "bind", "verify", "deploy", "poll", "done"}
ExecutorRecord ==
  [pc: Pcs, k: Nat, build: Nat, release: Nat, left: Seq(Selected), base: [Envs -> Nat],
   owned: BOOLEAN, stopping: BOOLEAN]
ReadRecord ==
  [k: Nat, uncertain: BOOLEAN, failed: BOOLEAN, observed: BOOLEAN, cancelled: BOOLEAN, other: BOOLEAN,
   done: SUBSET Nat]

Types ==
  /\ y.done \subseteq DOMAIN steps
  /\ builds \in Seq(BuildRecord) /\ releases \in Seq(ReleaseRecord)
  /\ steps \in Seq(StepRecord) /\ effects \in Seq(EffectRecord) /\ got \in Seq(Nat)
  /\ x \in ExecutorRecord /\ y \in ReadRecord

(* The journal has the steps of the plan, and the server what it found.    *)
Planned ==
  /\ Len(steps) = Len(PlanOf(op))
  /\ \A j \in DOMAIN steps : steps[j].kind = PlanOf(op)[j].kind /\ steps[j].target = PlanOf(op)[j].target
Given ==
  /\ op = "deploy_only" => \A t \in 1..N : /\ t \in DOMAIN builds /\ builds[t].target = t
                                           /\ builds[t].fits /\ builds[t].result = "succeeded"
  /\ op = "rollback" => \A t \in 1..N : /\ t \in DOMAIN builds /\ builds[t].target = t
                                           /\ builds[t].fits /\ builds[t].result = "succeeded"
  /\ op = "rollback" => \A t \in 1..N : /\ t \in DOMAIN releases /\ releases[t].target = t

(* An effect is journalled once, its request arrives once, and one that    *)
(* may still arrive has not.                                               *)
Last == Len(effects)
Kind(i) == effects[i].kind
Reached(i) == \E n \in DOMAIN got : got[n] = i
Once ==
  /\ \A i, j \in DOMAIN effects :
       effects[i].step = effects[j].step /\ Kind(i) = Kind(j) /\ effects[i].env = effects[j].env => i = j
  /\ \A m, n \in DOMAIN got : got[m] = got[n] => m = n
  /\ \A i \in flight : ~Reached(i)

(* A build of the planned commit for a step, and a release of such a build;*)
(* an effect is of the kind of its step, a deployment of its release.      *)
Fine(b, j) ==
  /\ b \in DOMAIN builds /\ builds[b].fits /\ builds[b].target = steps[j].target
Placed ==
  \A i \in DOMAIN effects :
    /\ effects[i].step \in DOMAIN steps
    /\ Kind(i) \in {"build_create", "build_cancel"} <=> steps[effects[i].step].kind = "build"
    /\ Kind(i) # "env_deploy" => effects[i].env = "-"
Sound(r, j) ==
  /\ r \in DOMAIN releases /\ releases[r].target = steps[j].target
  /\ Fine(releases[r].build, j) /\ builds[releases[r].build].result = "succeeded"
  /\ op # "rollback" => \A e \in Unselected : releases[r].envs[e].trigger = "manual"
DeploySound ==
  \A i \in DOMAIN effects : Kind(i) = "env_deploy" =>
    /\ effects[i].env \in Selected
    /\ steps[effects[i].step].release = effects[i].remote
    /\ Sound(effects[i].remote, effects[i].step)

(* Where the executor is in its step: with its build, with its release, or *)
(* with the deployments of the release.                                    *)
Doing(kind) == x.pc \in {"send", "receipt"} /\ Kind(Last) = kind
Building  == x.pc \in {"acquire", "created", "wait"} \/ Doing("build_create") \/ Doing("build_cancel")
Releasing == x.pc \in {"bind", "verify"} \/ Doing("release_create")
Deploying == x.pc \in {"deploy", "poll"} \/ Doing("env_deploy")

(* The executor is in one step, later ones have no effect yet; every       *)
(* request but the one that it is about to send was answered; what it holds*)
(* of the step was checked, and what it has yet to do was not done.        *)
InStep ==
  /\ x.k \in 1..Len(steps) + 1
  /\ x.pc # "target" => x.k \in DOMAIN steps /\ (steps[x.k].kind = "build" <=> Building)
  /\ x.pc = "target" /\ x.k \in DOMAIN steps => (steps[x.k].kind = "build" <=> op = "sync_build_release")
  /\ \A i \in DOMAIN effects : effects[i].step <= x.k
  /\ x.pc \in {"target", "acquire", "bind"} => \A i \in DOMAIN effects : effects[i].step < x.k
Answering ==
  /\ flight = {}
  /\ x.pc \in {"send", "receipt"} => Last \in DOMAIN effects /\ effects[Last].step = x.k
  /\ \A i \in DOMAIN effects : IF x.pc = "send" /\ i = Last THEN ~Reached(i) ELSE Reached(i)
Builds ==
  /\ x.pc \in {"created", "wait"} \/ Doing("build_cancel") \/ (x.pc = "receipt" /\ Doing("build_create")) =>
       Fine(x.build, x.k)
  /\ Releasing \/ Deploying => Fine(x.build, x.k) /\ builds[x.build].result = "succeeded"
  /\ x.pc = "created" \/ (x.pc = "wait" /\ ~x.stopping) \/ Doing("build_create") =>
       \A i \in DOMAIN effects : ~(effects[i].step = x.k /\ Kind(i) = "build_cancel")
Releases ==
  /\ x.pc = "verify" \/ Deploying \/ (x.pc = "receipt" /\ Doing("release_create")) =>
       x.release \in DOMAIN releases /\ releases[x.release].target = steps[x.k].target
  /\ x.pc = "verify" \/ Doing("release_create") =>
       \A i \in DOMAIN effects : ~(effects[i].step = x.k /\ Kind(i) = "env_deploy")
Deploys ==
  Deploying =>
    /\ steps[x.k].release = x.release
    /\ Sound(x.release, x.k)
    /\ \A i, j \in DOMAIN x.left : x.left[i] = x.left[j] => i = j
    /\ Doing("env_deploy") => x.left # <<>> /\ effects[Last].env = Head(x.left) /\ effects[Last].remote = x.release
    /\ \A i \in DOMAIN effects : effects[i].step = x.k /\ Kind(i) = "env_deploy" =>
         (Doing("env_deploy") /\ i = Last) \/ \A n \in DOMAIN x.left : x.left[n] # effects[i].env

Acts == InStep /\ Answering /\ Builds /\ Releases /\ Deploys
ExecutorInv ==
  /\ ExecutorTypeOK /\ Types /\ Planned /\ Given /\ Once /\ Placed /\ DeploySound
  /\ out = "running" <=> x.pc # "done"
  /\ out = "running" => Acts

-----------------------------------------------------------------------------
(* A step is deployed when every selected environment of its release was   *)
(* started by this run and has succeeded.                                  *)
Deployed(j) ==
  LET r == steps[j].release IN
  /\ r \in DOMAIN releases /\ releases[r].target = steps[j].target
  /\ \A e \in Selected : LET v == releases[r].envs[e] IN v.run # 0 /\ v.status = "succeeded" /\ v.agreed

(* What is under way on the server, this run has asked for.                *)
Ours ==
  /\ ~drift
  /\ \A b \in DOMAIN builds :
       /\ builds[b].by = 0 => Completed(builds[b])
       /\ builds[b].by # 0 =>
            /\ builds[b].by \in DOMAIN effects /\ Kind(builds[b].by) = "build_create"
            /\ Reached(builds[b].by) /\ effects[builds[b].by].remote \in {0, b}
  /\ \A r \in DOMAIN releases :
       /\ releases[r].by # 0 => Reached(releases[r].by)
       /\ \A e \in Selected : releases[r].envs[e].trigger = "manual"
       /\ \A e \in Envs : LET i == releases[r].envs[e].run IN
            i # 0 => /\ i \in DOMAIN effects /\ Kind(i) = "env_deploy" /\ Reached(i)
                     /\ effects[i].remote = r /\ effects[i].env = e

(* An effect with an answer was carried out; a deployment was carried out  *)
(* exactly if the environment is of it, and otherwise it is as it was when *)
(* the deployment was journalled.                                          *)
Known ==
  \A i \in DOMAIN effects :
    /\ Kind(i) = "build_create" /\ effects[i].remote # 0 => Reached(i) /\ effects[i].remote \in DOMAIN builds
    /\ Kind(i) = "release_create" /\ (effects[i].remote # 0 \/ steps[effects[i].step].release # 0) => Reached(i)
    /\ Kind(i) = "env_deploy" =>
         LET v == releases[effects[i].remote].envs[effects[i].env] IN
         IF Reached(i) THEN v.run = i ELSE v.attempt <= effects[i].base

(* Only what the executor works with may be under way, the environments    *)
(* that it has left are as it found them, and the steps behind it are done.*)
OnlyHere ==
  /\ \A b \in DOMAIN builds : Completed(builds[b])
        \/ (b = x.build /\ Building /\ x.pc # "acquire" /\ ~(x.pc = "send" /\ Doing("build_create")))
  /\ \A b \in DOMAIN builds : x.pc = "receipt" /\ Doing("build_create") /\ builds[b].by = Last => b = x.build
  /\ \A r \in DOMAIN releases, e \in Envs : releases[r].envs[e].run # 0 =>
        releases[r].envs[e].status \in RELEASE_TERMINAL \/ (r = x.release /\ Deploying)
  /\ Deploying => \A e \in Selected :
       LET v == releases[x.release].envs[e] IN
       IF (\E n \in DOMAIN x.left : x.left[n] = e) /\ ~(x.pc = "receipt" /\ e = Head(x.left))
         THEN v.attempt = x.base[e] ELSE v.run # 0
  /\ \A j \in DOMAIN steps : j < x.k => steps[j].status = "succeeded"
  /\ \A j \in DOMAIN steps :
       j > x.k \/ (j = x.k /\ (x.pc = "target" \/ Releasing)) => steps[j].release = 0
  /\ y = NoRead

(* As long as the reconciliation has found nothing uncertain, the effects  *)
(* of the steps that it has read came to an end, and those that it found   *)
(* done are deployed, if none has failed.                                  *)
Read ==
  /\ ~y.uncertain => \A i \in DOMAIN effects : effects[i].step < y.k =>
       /\ Kind(i) = "build_create" => effects[i].remote # 0 /\ Completed(builds[effects[i].remote])
       /\ Kind(i) = "release_create" => Reached(i)
       /\ Kind(i) = "env_deploy" =>
            Reached(i) /\ deployment_result(releases[effects[i].remote].envs[effects[i].env]) # "none"
  /\ ~y.uncertain /\ ~y.failed => \A j \in y.done : steps[j].kind # "build" => Deployed(j)
Succeeds ==
  /\ \A j \in DOMAIN steps : steps[j].kind # "build" /\ steps[j].status = "succeeded" => Deployed(j)
  /\ out = "succeeded" => \A j \in DOMAIN steps : steps[j].status = "succeeded"
AloneInv ==
  /\ Ours /\ Known /\ Succeeds
  /\ out = "running" => OnlyHere
  /\ out = "unknown" => Read
  /\ DecidedIsQuiet /\ ConfirmedWasDelivered
Inv == ExecutorInv /\ (~Outsiders => AloneInv)

-----------------------------------------------------------------------------
(* Sequences and sets                                                      *)
LEMMA Appended ==
  ASSUME NEW S, NEW s \in Seq(S), NEW e \in S
  PROVE  /\ Append(s, e) \in Seq(S) /\ Len(Append(s, e)) = Len(s) + 1
         /\ DOMAIN Append(s, e) = DOMAIN s \cup {Len(s) + 1} /\ Len(s) + 1 \notin DOMAIN s
         /\ Append(s, e)[Len(s) + 1] = e /\ \A i \in DOMAIN s : Append(s, e)[i] = s[i]
         /\ Len(s) \in Nat
OBVIOUS

LEMMA Replaced ==
  ASSUME NEW S, NEW s \in Seq(S), NEW i \in DOMAIN s, NEW e \in S
  PROVE  /\ [s EXCEPT ![i] = e] \in Seq(S) /\ Len([s EXCEPT ![i] = e]) = Len(s)
         /\ DOMAIN [s EXCEPT ![i] = e] = DOMAIN s
         /\ [s EXCEPT ![i] = e][i] = e /\ \A j \in DOMAIN s : j # i => [s EXCEPT ![i] = e][j] = s[j]
OBVIOUS

LEMMA Indexed ==
  ASSUME NEW S, NEW s \in Seq(S)
  PROVE  Len(s) \in Nat /\ DOMAIN s = 1..Len(s) /\ \A i \in DOMAIN s : s[i] \in S
OBVIOUS

LEMMA MaxIs ==
  ASSUME NEW S \in SUBSET Int, IsFiniteSet(S), S # {}
  PROVE  Max(S) \in S
<1> DEFINE Above(m) == {s \in S : m < s}
           T == {Above(m) : m \in S}
<1>2. \A m \in S : Above(m) \in FiniteSubsetsOf(S)
  BY FS_Subset DEF FiniteSubsetsOf
<1>3. T \subseteq FiniteSubsetsOf(S) /\ T # {}
  BY <1>2
<1>4. PICK U \in T : \A V \in T : ~(<<V, U>> \in StrictSubsetOrdering(S))
  BY <1>3, WFMin, FS_StrictSubsetOrderingWellFounded
<1>5. PICK m \in S : U = Above(m)
  OBVIOUS
<1>6. ASSUME NEW s \in S, m < s PROVE FALSE
  <2>1. Above(s) \subseteq Above(m)
    <3>1. \A t \in S : s < t => m < t
      BY <1>6
    <3> QED
      BY <3>1
  <2>2. s \in Above(m) /\ s \notin Above(s)
    BY <1>6
  <2>3. Above(s) \in T
    OBVIOUS
  <2>4. Above(s) \in SUBSET S /\ Above(m) \in SUBSET S
    OBVIOUS
  <2> HIDE DEF Above, T
  <2>5. <<Above(s), Above(m)>> \in StrictSubsetOrdering(S)
    BY <2>1, <2>2, <2>4 DEF StrictSubsetOrdering
  <2> QED
    BY <1>4, <1>5, <2>3, <2>5
<1>7. \A s \in S : m >= s
  BY <1>6
<1> QED
  BY <1>7 DEF Max

LEMMA MaxIndex ==
  ASSUME NEW n \in Nat, NEW S \in SUBSET (1..n), S # {}
  PROVE  Max(S) \in S
<1>1. IsFiniteSet(1..n)
  BY FS_Interval
<1>2. IsFiniteSet(S)
  BY <1>1, FS_Subset
<1> QED
  BY <1>2, MaxIs

(* The steps of a plan: the release of a target follows its build, and     *)
(* every target has one step that is not a build                           *)
LEMMA PlanIs ==
  ASSUME PlanAssumption, op \in Operations, steps \in Seq(StepRecord), Planned
  PROVE  /\ 1 \in DOMAIN steps
         /\ op = "sync_build_release" => steps[1].kind = "build"
         /\ op = "sync_build_release" => \A j \in DOMAIN steps :
              IF steps[j].kind = "build"
                THEN j + 1 \in DOMAIN steps /\ steps[j + 1].kind # "build" /\ steps[j + 1].target = steps[j].target
                ELSE j + 1 \in DOMAIN steps => steps[j + 1].kind = "build"
         /\ op # "sync_build_release" => DOMAIN steps = 1..N /\ \A j \in DOMAIN steps : steps[j].kind # "build" /\ steps[j].target = j
         /\ \A i, j \in DOMAIN steps :
              steps[i].kind # "build" /\ steps[j].kind # "build" /\ steps[i].target = steps[j].target => i = j
         /\ \A t \in 1..N : \E j \in DOMAIN steps : steps[j].kind # "build" /\ steps[j].target = t
<1>1. N \in Nat \ {0} /\ DOMAIN steps = 1..Len(steps) /\ Len(steps) \in Nat
  BY Indexed DEF PlanAssumption
<1>2. CASE op = "sync_build_release"
  <2>1. /\ Len(steps) = 2 * N
        /\ \A j \in 1..2 * N : /\ steps[j].kind = IF j % 2 = 1 THEN "build" ELSE "release"
                               /\ steps[j].target = (j + 1) \div 2
    <3>1. PlanOf(op) = [i \in 1..2 * N |-> [kind |-> IF i % 2 = 1 THEN "build" ELSE "release",
                          target |-> (i + 1) \div 2, status |-> "pending", build |-> 0, release |-> 0]]
      BY <1>2 DEF PlanOf
    <3>2. Len(PlanOf(op)) = 2 * N
      BY <1>1, <3>1
    <3>3. Len(steps) = 2 * N
      BY <3>2 DEF Planned
    <3>4. ASSUME NEW j \in 1..2 * N
          PROVE  /\ PlanOf(op)[j].kind = IF j % 2 = 1 THEN "build" ELSE "release"
                 /\ PlanOf(op)[j].target = (j + 1) \div 2
      BY <3>1
    <3> QED
      BY <1>1, <3>3, <3>4 DEF Planned
  <2>2. \A j \in 1..2 * N : j % 2 = 1 => j + 1 <= 2 * N /\ (j + 1) % 2 # 1 /\ (j + 2) \div 2 = (j + 1) \div 2
    BY <1>1
  <2>3. \A j \in 1..2 * N : j % 2 # 1 => (j + 1) % 2 = 1
    BY <1>1
  <2>4. \A i, j \in 1..2 * N : i % 2 # 1 /\ j % 2 # 1 /\ (i + 1) \div 2 = (j + 1) \div 2 => i = j
    BY <1>1
  <2>5. \A t \in 1..N : 2 * t \in 1..2 * N /\ (2 * t) % 2 # 1 /\ (2 * t + 1) \div 2 = t
    BY <1>1
  <2>6. 1 % 2 = 1 /\ 1 \in 1..2 * N /\ "build" # "release"
    BY <1>1
  <2>7. ASSUME NEW j \in DOMAIN steps
        PROVE IF steps[j].kind = "build"
                THEN j + 1 \in DOMAIN steps /\ steps[j + 1].kind # "build" /\ steps[j + 1].target = steps[j].target
                ELSE j + 1 \in DOMAIN steps => steps[j + 1].kind = "build"
    <3>1. j \in 1..2 * N /\ (j + 1 \in DOMAIN steps <=> j + 1 <= 2 * N) /\ (j + 1) + 1 = j + 2
      BY <1>1, <2>1
    <3>2. CASE j % 2 = 1
      BY <2>1, <2>2, <1>1, <3>1, <3>2
    <3>3. CASE j % 2 # 1
      BY <2>1, <2>3, <1>1, <3>1, <3>3
    <3> QED
      BY <3>2, <3>3
  <2>8. \A i, j \in DOMAIN steps :
          steps[i].kind # "build" /\ steps[j].kind # "build" /\ steps[i].target = steps[j].target => i = j
    <3>1. ASSUME NEW i \in 1..2 * N, steps[i].kind # "build" PROVE i % 2 # 1
      BY <2>1, <3>1
    <3>2. ASSUME NEW i \in DOMAIN steps, NEW j \in DOMAIN steps,
                 steps[i].kind # "build" /\ steps[j].kind # "build" /\ steps[i].target = steps[j].target
          PROVE  i = j
      <4>1. i \in 1..2 * N /\ j \in 1..2 * N
        BY <1>1, <2>1
      <4>2. i % 2 # 1 /\ j % 2 # 1 /\ (i + 1) \div 2 = (j + 1) \div 2
        BY <2>1, <3>1, <3>2, <4>1
      <4> QED
        BY <2>4, <4>1, <4>2
    <3> QED
      BY <3>2
  <2>9. \A t \in 1..N : \E j \in DOMAIN steps : steps[j].kind # "build" /\ steps[j].target = t
    BY <1>1, <2>1, <2>5
  <2> QED
    BY <1>1, <1>2, <2>1, <2>6, <2>7, <2>8, <2>9
<1>3. CASE op # "sync_build_release"
  <2>1. PlanOf(op) = [i \in 1..N |-> [kind |-> IF op = "rollback" THEN "rollback" ELSE "release",
                        target |-> i, status |-> "pending", build |-> 0, release |-> 0]]
    BY <1>3 DEF PlanOf
  <2>2. Len(PlanOf(op)) = N
    BY <1>1, <2>1
  <2>3. DOMAIN steps = 1..N
    BY <1>1, <2>2 DEF Planned
  <2>4. ASSUME NEW j \in 1..N PROVE steps[j].kind # "build" /\ steps[j].target = j
    <3>1. PlanOf(op)[j].kind # "build" /\ PlanOf(op)[j].target = j
      BY <2>1
    <3> QED
      BY <2>3, <3>1 DEF Planned
  <2>5. 1 \in 1..N
    BY <1>1
  <2> QED
    BY <1>3, <2>3, <2>4, <2>5
<1> QED
  BY <1>2, <1>3

-----------------------------------------------------------------------------
(* What no step of the server undoes, and what no step does to the plan    *)
Grown ==
  /\ DOMAIN builds \subseteq DOMAIN builds' /\ DOMAIN releases \subseteq DOMAIN releases'
  /\ \A b \in DOMAIN builds :
       /\ builds'[b].target = builds[b].target /\ builds'[b].fits = builds[b].fits
       /\ builds'[b].by = builds[b].by
       /\ Completed(builds[b]) => builds'[b].result = builds[b].result
  /\ \A r \in DOMAIN releases :
       /\ releases'[r].target = releases[r].target /\ releases'[r].build = releases[r].build
       /\ releases'[r].by = releases[r].by
       /\ \A e \in Envs : releases'[r].envs[e].trigger = releases[r].envs[e].trigger
SamePlan ==
  /\ op' = op /\ Len(steps') = Len(steps) /\ DOMAIN steps' = DOMAIN steps
  /\ \A j \in DOMAIN steps : steps'[j].kind = steps[j].kind /\ steps'[j].target = steps[j].target
SameEffects ==
  /\ Len(effects') = Len(effects) /\ DOMAIN effects' = DOMAIN effects
  /\ \A i \in DOMAIN effects :
       /\ effects'[i].step = effects[i].step /\ effects'[i].kind = effects[i].kind
       /\ effects'[i].env = effects[i].env /\ effects'[i].base = effects[i].base
       /\ Kind(i) = "env_deploy" => effects'[i].remote = effects[i].remote

LEMMA SoundKept ==
  ASSUME Types, Grown, SamePlan, NEW j \in DOMAIN steps
  PROVE  /\ \A b : Fine(b, j) => b \in DOMAIN builds' /\ builds'[b].fits /\ builds'[b].target = steps'[j].target
         /\ \A b : Fine(b, j) /\ builds[b].result = "succeeded" => builds'[b].result = "succeeded"
         /\ \A r : Sound(r, j) =>
              /\ r \in DOMAIN releases' /\ releases'[r].target = steps'[j].target
              /\ releases'[r].build = releases[r].build
              /\ op' # "rollback" => \A e \in Unselected : releases'[r].envs[e].trigger = "manual"
              /\ Fine(releases[r].build, j) /\ builds[releases[r].build].result = "succeeded"
<1>1. \A b : Fine(b, j) => b \in DOMAIN builds' /\ builds'[b].fits /\ builds'[b].target = steps'[j].target
  BY DEF Grown, SamePlan, Fine
<1>2. \A b : Fine(b, j) /\ builds[b].result = "succeeded" => builds'[b].result = "succeeded"
  BY DEF Grown, Fine, Completed
<1>3. ASSUME NEW r, Sound(r, j)
      PROVE  /\ r \in DOMAIN releases' /\ releases'[r].target = steps'[j].target
             /\ releases'[r].build = releases[r].build
             /\ op' # "rollback" => \A e \in Unselected : releases'[r].envs[e].trigger = "manual"
             /\ Fine(releases[r].build, j) /\ builds[releases[r].build].result = "succeeded"
  BY <1>3 DEF Grown, SamePlan, Sound, Envs
<1> QED
  BY <1>1, <1>2, <1>3

LEMMA SoundStays ==
  ASSUME Types, Grown, SamePlan, NEW j \in DOMAIN steps, NEW r, Sound(r, j)
  PROVE  Sound(r, j)'
<1>1. /\ r \in DOMAIN releases' /\ releases'[r].target = steps'[j].target
      /\ releases'[r].build = releases[r].build
      /\ op' # "rollback" => \A e \in Unselected : releases'[r].envs[e].trigger = "manual"
      /\ Fine(releases[r].build, j) /\ builds[releases[r].build].result = "succeeded"
  BY SoundKept
<1> PICK b : b = releases[r].build
  OBVIOUS
<1>2. /\ b \in DOMAIN builds' /\ builds'[b].fits /\ builds'[b].target = steps'[j].target
      /\ builds'[b].result = "succeeded"
  BY <1>1, SoundKept
<1> QED
  BY <1>1, <1>2 DEF Sound, Fine

LEMMA GivenKept ==
  ASSUME Types, Given, Grown, op' = op
  PROVE  Given'
BY DEF Given, Grown, Completed

LEMMA PlannedKept ==
  ASSUME Planned, SamePlan
  PROVE  Planned'
BY DEF Planned, SamePlan

(* One environment of a release changes, but for who starts it             *)
LEMMA EnvSet ==
  ASSUME releases \in Seq(ReleaseRecord), NEW r \in DOMAIN releases, NEW e \in Envs, NEW v \in EnvRecord,
         v.trigger = releases[r].envs[e].trigger,
         releases' = [releases EXCEPT ![r].envs[e] = v]
  PROVE  /\ releases' \in Seq(ReleaseRecord)
         /\ DOMAIN releases' = DOMAIN releases /\ Len(releases') = Len(releases)
         /\ \A q \in DOMAIN releases :
              /\ releases'[q].target = releases[q].target /\ releases'[q].build = releases[q].build
              /\ releases'[q].by = releases[q].by
              /\ \A d \in Envs : releases'[q].envs[d] = IF q = r /\ d = e THEN v ELSE releases[q].envs[d]
         /\ \A q \in DOMAIN releases, d \in Envs : releases'[q].envs[d].trigger = releases[q].envs[d].trigger
<1>0. releases[r] \in ReleaseRecord
  BY Indexed
<1>1. releases[r] \in ReleaseRecord /\ releases[r].envs \in [Envs -> EnvRecord]
  BY <1>0 DEF ReleaseRecord
<1> PICK n : n = [releases[r].envs EXCEPT ![e] = v]
  OBVIOUS
<1>2. n \in [Envs -> EnvRecord] /\ n[e] = v /\ \A d \in Envs : d # e => n[d] = releases[r].envs[d]
  BY <1>1
<1> PICK w : w = [releases[r] EXCEPT !.envs = n]
  OBVIOUS
<1>3. w \in ReleaseRecord /\ w.envs = n /\ w.target = releases[r].target /\ w.build = releases[r].build
      /\ w.by = releases[r].by
  BY <1>1, <1>2 DEF ReleaseRecord
<1>4. releases' = [releases EXCEPT ![r] = w]
  OBVIOUS
<1>5. /\ releases' \in Seq(ReleaseRecord) /\ Len(releases') = Len(releases)
      /\ DOMAIN releases' = DOMAIN releases
      /\ releases'[r] = w /\ \A q \in DOMAIN releases : q # r => releases'[q] = releases[q]
  BY <1>3, <1>4, Replaced
<1> QED
  BY <1>2, <1>3, <1>5

LEMMA StartIs ==
  ASSUME releases \in Seq(ReleaseRecord), NEW r \in DOMAIN releases, NEW e \in Envs, NEW i \in Nat, Start(r, e, i)
  PROVE  \E v \in EnvRecord :
           /\ v.status = "inProgress" /\ ~v.agreed /\ v.attempt = releases[r].envs[e].attempt + 1
           /\ v.run = i /\ v.trigger = releases[r].envs[e].trigger
           /\ releases' = [releases EXCEPT ![r].envs[e] = v]
<1>0. releases[r] \in ReleaseRecord
  BY Indexed
<1>1. releases[r].envs \in [Envs -> EnvRecord] /\ releases[r].envs[e] \in EnvRecord
  BY <1>0 DEF ReleaseRecord
<1> PICK u \in EnvRecord : u = releases[r].envs[e]
  BY <1>1
<1> PICK a \in Nat : a = u.attempt + 1
  BY DEF EnvRecord
<1> PICK v : v = [u EXCEPT !.status = "inProgress", !.agreed = FALSE, !.attempt = a, !.run = i]
  OBVIOUS
<1>2. /\ v.status = "inProgress" /\ ~v.agreed /\ v.attempt = a
      /\ v.run = i /\ v.trigger = u.trigger
  BY DEF EnvRecord
<1>4. v \in EnvRecord
  BY DEF EnvRecord
<1>3. releases' = [releases EXCEPT ![r].envs[e] = v]
  <2>1. releases' = [releases EXCEPT ![r].envs[e] =
                       [u EXCEPT !.status = "inProgress", !.agreed = FALSE, !.attempt = u.attempt + 1, !.run = i]]
    BY DEF Start
  <2> QED
    BY <2>1
<1> QED
  BY <1>2, <1>3, <1>4

-----------------------------------------------------------------------------
(* The steps of the server keep the invariant                              *)
LEMMA Longer ==
  ASSUME Types, Types', Grown
  PROVE  Len(builds) <= Len(builds') /\ Len(releases) <= Len(releases')
         /\ Len(builds) \in Nat /\ Len(builds') \in Nat /\ Len(releases) \in Nat /\ Len(releases') \in Nat
<1>1. ASSUME NEW m \in Nat, NEW n \in Nat, 1..m \subseteq 1..n PROVE m <= n
  <2>1. m > 0 => m \in 1..m
    OBVIOUS
  <2> QED
    BY <1>1, <2>1
<1>2. /\ Len(builds) \in Nat /\ DOMAIN builds = 1..Len(builds)
      /\ Len(builds') \in Nat /\ DOMAIN builds' = 1..Len(builds')
      /\ Len(releases) \in Nat /\ DOMAIN releases = 1..Len(releases)
      /\ Len(releases') \in Nat /\ DOMAIN releases' = 1..Len(releases')
  BY Indexed DEF Types
<1> QED
  BY <1>1, <1>2 DEF Grown

LEMMA RowsKept ==
  ASSUME Types, Types', Grown, SamePlan, RowsOK,
         \A j \in DOMAIN steps : /\ steps'[j].build \in {steps[j].build} \cup DOMAIN builds'
                                 /\ steps'[j].release \in {steps[j].release} \cup DOMAIN releases',
         \A i \in DOMAIN effects' : effects'[i].step \in DOMAIN steps
  PROVE  RowsOK'
<1>1. /\ Len(builds) <= Len(builds') /\ Len(releases) <= Len(releases')
      /\ Len(builds) \in Nat /\ Len(builds') \in Nat /\ Len(releases) \in Nat /\ Len(releases') \in Nat
      /\ DOMAIN builds' = 1..Len(builds') /\ DOMAIN releases' = 1..Len(releases')
  BY Longer, Indexed DEF Types
<1>2. ASSUME NEW j \in DOMAIN steps'
      PROVE  /\ steps'[j].status \in {"pending", "succeeded", "failed", "unknown"}
             /\ steps'[j].build \in 0..Len(builds') /\ steps'[j].release \in 0..Len(releases')
  <2>1. j \in DOMAIN steps /\ steps[j].build \in 0..Len(builds) /\ steps[j].release \in 0..Len(releases)
    BY DEF RowsOK, SamePlan
  <2>2. steps'[j] \in StepRecord
    BY Indexed DEF Types
  <2>3. steps'[j].build \in 0..Len(builds') /\ steps'[j].release \in 0..Len(releases')
    BY <1>1, <2>1
  <2> QED
    BY <2>2, <2>3 DEF StepRecord
<1>3. ASSUME NEW i \in DOMAIN effects' PROVE effects'[i].step \in DOMAIN steps' /\ effects'[i].state \in {"intent", "confirmed"}
  <2>1. effects'[i] \in EffectRecord
    BY Indexed DEF Types
  <2> QED
    BY <2>1 DEF EffectRecord, SamePlan
<1> QED
  BY <1>2, <1>3 DEF RowsOK

LEMMA SoundKeeps ==
  ASSUME Types, Grown, SamePlan, DeploySound, Placed, SameEffects,
         \A i \in DOMAIN effects : Kind(i) = "env_deploy" =>
           steps'[effects[i].step].release = steps[effects[i].step].release
  PROVE  DeploySound' /\ Placed'
<1>1. Placed'
  BY DEF Placed, SamePlan, SameEffects, Kind
<1>2. ASSUME NEW i \in DOMAIN effects', Kind(i)' = "env_deploy"
      PROVE  /\ effects'[i].env \in Selected
             /\ steps'[effects'[i].step].release = effects'[i].remote
             /\ Sound(effects[i].remote, effects[i].step)'
  <2>1. i \in DOMAIN effects /\ Kind(i) = "env_deploy"
    BY <1>2 DEF SameEffects, Kind
  <2>2. effects'[i].env = effects[i].env /\ effects'[i].step = effects[i].step /\ effects'[i].remote = effects[i].remote
    BY <2>1 DEF SameEffects
  <2>3. effects[i].step \in DOMAIN steps /\ effects[i].env \in Selected
        /\ steps[effects[i].step].release = effects[i].remote /\ Sound(effects[i].remote, effects[i].step)
    BY <2>1 DEF Placed, DeploySound
  <2>4. PICK r, j : r = effects[i].remote /\ j = effects[i].step
    OBVIOUS
  <2>5. Sound(r, j)' /\ r = effects'[i].remote /\ j = effects'[i].step
    BY <2>2, <2>3, <2>4, SoundStays
  <2>6. Sound(effects[i].remote, effects[i].step)'
    BY <2>5
  <2> QED
    BY <2>1, <2>2, <2>3, <2>6
<1> QED
  BY <1>1, <1>2 DEF DeploySound

LEMMA ServerKeeps ==
  ASSUME PlanAssumption, ExecutorInv, Types', Grown, drift' \in BOOLEAN, UNCHANGED <<op, flight, got, local>>
  PROVE  ExecutorInv'
<1>0. /\ op' = op /\ flight' = flight /\ got' = got /\ steps' = steps /\ effects' = effects /\ stop' = stop
      /\ out' = out /\ x' = x /\ y' = y /\ faults' = faults
  BY DEF local
<1>1. SamePlan
  BY <1>0 DEF SamePlan
<1>2. Types /\ RowsOK /\ Planned /\ Given /\ Once /\ Placed /\ DeploySound
  BY DEF ExecutorInv, ExecutorTypeOK
<1>3. RowsOK'
  BY <1>0, <1>1, <1>2, RowsKept DEF Placed
<1>4. ExecutorTypeOK'
  BY <1>0, <1>3 DEF ExecutorInv, ExecutorTypeOK
<1>5. Planned' /\ Given' /\ DeploySound' /\ Placed'
  BY <1>0, <1>1, <1>2, PlannedKept, GivenKept, SoundKeeps DEF SameEffects
<1>6. Once'
  BY <1>0, <1>2 DEF Once, Kind, Reached
<1>7. ASSUME out = "running" PROVE Acts'
  <2>0. InStep /\ Answering /\ Builds /\ Releases /\ Deploys
    BY <1>7 DEF ExecutorInv, Acts
  <2>1. InStep' /\ Answering'
    BY <1>0, <2>0 DEF InStep, Answering, Building, Doing, Kind, Last, Reached
  <2>2. x.pc # "target" => x.k \in DOMAIN steps
    BY <2>0 DEF InStep
  <2>3. /\ x.k \in DOMAIN steps /\ Fine(x.build, x.k) => Fine(x.build, x.k)'
        /\ x.k \in DOMAIN steps /\ Fine(x.build, x.k) /\ builds[x.build].result = "succeeded" =>
             builds'[x.build].result = "succeeded"
    BY <1>0, <1>1, <1>2, SoundKept DEF Fine
  <2>4. Builds'
    BY <1>0, <2>0, <2>2, <2>3 DEF Builds, Doing, Releasing, Deploying, Kind, Last
  <2>5. Releases'
    BY <1>0, <1>1, <2>0, <2>2 DEF Releases, Doing, Deploying, Kind, Last, Grown, SamePlan
  <2>6. ASSUME Deploying PROVE Sound(x.release, x.k)'
    <3>1. x.k \in DOMAIN steps /\ Sound(x.release, x.k)
      BY <2>0, <2>2, <2>6 DEF Deploys, Deploying, Doing
    <3>2. PICK r, j : r = x.release /\ j = x.k
      OBVIOUS
    <3>3. Sound(r, j)'
      BY <1>1, <1>2, <3>1, <3>2, SoundStays
    <3> QED
      BY <1>0, <3>2, <3>3
  <2>7. Deploys'
    <3>1. Deploying' <=> Deploying
      BY <1>0 DEF Deploying, Doing, Kind, Last
    <3> QED
      BY <1>0, <2>0, <2>6, <3>1 DEF Deploys, Doing, Kind, Last
  <2> QED
    BY <2>1, <2>4, <2>5, <2>7 DEF Acts
<1> QED
  BY <1>0, <1>4, <1>5, <1>6, <1>7 DEF ExecutorInv

LEMMA OneBuild ==
  ASSUME Types, NEW b \in DOMAIN builds, ~Completed(builds[b]), BuildEnds(b)
  PROVE  /\ builds' \in Seq(BuildRecord) /\ DOMAIN builds' = DOMAIN builds /\ Completed(builds'[b])
         /\ \A c \in DOMAIN builds : c # b => builds'[c] = builds[c]
         /\ builds'[b].target = builds[b].target /\ builds'[b].fits = builds[b].fits /\ builds'[b].by = builds[b].by
         /\ Grown
<1> PICK result \in Results : builds' = [builds EXCEPT ![b].result = result]
  BY DEF BuildEnds
<1>1. builds \in Seq(BuildRecord) /\ builds[b] \in BuildRecord
  BY Indexed DEF Types
<1> PICK v : v = [builds[b] EXCEPT !.result = result]
  OBVIOUS
<1>2. v \in BuildRecord /\ v.target = builds[b].target /\ v.fits = builds[b].fits /\ v.by = builds[b].by
      /\ v.result = result
  BY <1>1 DEF BuildRecord
<1>3. builds' = [builds EXCEPT ![b] = v]
  OBVIOUS
<1>4. /\ builds' \in Seq(BuildRecord) /\ DOMAIN builds' = DOMAIN builds
      /\ builds'[b] = v /\ \A c \in DOMAIN builds : c # b => builds'[c] = builds[c]
  BY <1>1, <1>2, <1>3, Replaced
<1>5. result # "none"
  BY DEF Results
<1>6. Grown
  <2>1. releases' = releases
    BY DEF BuildEnds
  <2> QED
    BY <1>2, <1>4, <2>1 DEF Grown, Completed
<1> QED
  BY <1>2, <1>4, <1>5, <1>6 DEF Completed

LEMMA EnvGrows ==
  ASSUME Types, NEW r \in DOMAIN releases, NEW e \in Envs, NEW v \in EnvRecord,
         v.trigger = releases[r].envs[e].trigger, releases' = [releases EXCEPT ![r].envs[e] = v], builds' = builds
  PROVE  Grown /\ releases' \in Seq(ReleaseRecord)
<1>1. /\ releases' \in Seq(ReleaseRecord)
      /\ DOMAIN releases' = DOMAIN releases
      /\ \A q \in DOMAIN releases :
           /\ releases'[q].target = releases[q].target /\ releases'[q].build = releases[q].build
           /\ releases'[q].by = releases[q].by
      /\ \A q \in DOMAIN releases, d \in Envs : releases'[q].envs[d].trigger = releases[q].envs[d].trigger
  BY EnvSet DEF Types
<1> QED
  BY <1>1 DEF Grown

(* A deployment that goes on: what becomes of the environment              *)
LEMMA EnvIs ==
  ASSUME Types, NEW r \in DOMAIN releases, NEW e \in Envs, DeploymentEnds(r, e) \/ Agrees(r, e)
  PROVE  \E v \in EnvRecord :
           /\ releases' = [releases EXCEPT ![r].envs[e] = v]
           /\ v.run = releases[r].envs[e].run /\ v.trigger = releases[r].envs[e].trigger
           /\ v.attempt = releases[r].envs[e].attempt /\ v.status \in RELEASE_TERMINAL
<1>0. releases[r] \in ReleaseRecord
  BY Indexed DEF Types
<1>1. releases[r].envs \in [Envs -> EnvRecord] /\ releases[r].envs[e] \in EnvRecord
  BY <1>0 DEF ReleaseRecord
<1> PICK u \in EnvRecord : u = releases[r].envs[e]
  BY <1>1
<1>2. CASE \E status \in RELEASE_TERMINAL : releases' = [releases EXCEPT ![r].envs[e].status = status]
  <2> PICK status \in RELEASE_TERMINAL : releases' = [releases EXCEPT ![r].envs[e].status = status]
    BY <1>2
  <2> PICK v : v = [u EXCEPT !.status = status]
    OBVIOUS
  <2>1. v \in EnvRecord /\ v.run = u.run /\ v.trigger = u.trigger /\ v.attempt = u.attempt /\ v.status = status
    BY DEF EnvRecord, RELEASE_TERMINAL
  <2>2. releases' = [releases EXCEPT ![r].envs[e] = v]
    OBVIOUS
  <2> QED
    BY <2>1, <2>2
<1>3. CASE releases' = [releases EXCEPT ![r].envs[e].agreed = TRUE] /\ u.status = "succeeded"
  <2> PICK v : v = [u EXCEPT !.agreed = TRUE]
    OBVIOUS
  <2>1. v \in EnvRecord /\ v.run = u.run /\ v.trigger = u.trigger /\ v.attempt = u.attempt /\ v.status = u.status
    BY DEF EnvRecord
  <2>2. releases' = [releases EXCEPT ![r].envs[e] = v]
    BY <1>3
  <2> QED
    BY <1>3, <2>1, <2>2 DEF RELEASE_TERMINAL
<1>4. CASE releases' = [releases EXCEPT ![r].envs[e].status = "rejected"]
  BY <1>2, <1>4 DEF RELEASE_TERMINAL
<1> QED
  BY <1>2, <1>3, <1>4 DEF DeploymentEnds, Agrees

LEMMA BuildEndsKeeps ==
  ASSUME PlanAssumption, ExecutorInv, NEW b \in DOMAIN builds, BuildEnds(b)
  PROVE  ExecutorInv'
<1>1. /\ ~Completed(builds[b])
      /\ UNCHANGED <<op, releases, flight, got, drift, steps, effects, stop, out, x, y, faults>>
  BY DEF BuildEnds, local
<1>2. Grown /\ builds' \in Seq(BuildRecord)
  BY <1>1, OneBuild DEF ExecutorInv
<1>3. Types' /\ drift' \in BOOLEAN
  BY <1>1, <1>2 DEF ExecutorInv, Types, ExecutorTypeOK
<1> QED
  BY <1>1, <1>2, <1>3, ServerKeeps DEF local

LEMMA ReleasesChange ==
  ASSUME PlanAssumption, ExecutorInv, Grown, releases' \in Seq(ReleaseRecord),
         UNCHANGED <<op, builds, flight, got, drift, local>>
  PROVE  ExecutorInv'
<1>1. Types' /\ drift' \in BOOLEAN
  BY DEF ExecutorInv, Types, ExecutorTypeOK, local
<1> QED
  BY <1>1, ServerKeeps

LEMMA DeploymentKeeps ==
  ASSUME PlanAssumption, ExecutorInv, NEW r \in DOMAIN releases, NEW e \in Envs,
         DeploymentEnds(r, e) \/ Agrees(r, e)
  PROVE  ExecutorInv'
<1>1. UNCHANGED <<op, builds, flight, got, drift, local>>
  BY DEF DeploymentEnds, Agrees, local
<1>2. Types
  BY DEF ExecutorInv
<1>3. PICK v \in EnvRecord :
           /\ releases' = [releases EXCEPT ![r].envs[e] = v]
           /\ v.trigger = releases[r].envs[e].trigger
  BY <1>2, EnvIs
<1>4. Grown /\ releases' \in Seq(ReleaseRecord)
  BY <1>1, <1>2, <1>3, EnvGrows
<1> QED
  BY <1>1, <1>4, ReleasesChange

LEMMA StartedKeeps ==
  ASSUME PlanAssumption, ExecutorInv, NEW r \in DOMAIN releases, NEW e \in Envs,
         AutoDeploys(r, e) \/ OtherDeployment(r, e)
  PROVE  ExecutorInv'
<1>1. Start(r, e, 0) /\ UNCHANGED <<op, builds, flight, got, drift, local>>
  BY DEF AutoDeploys, OtherDeployment, local
<1>2. Types
  BY DEF ExecutorInv
<1>3. PICK v \in EnvRecord :
           /\ releases' = [releases EXCEPT ![r].envs[e] = v]
           /\ v.trigger = releases[r].envs[e].trigger
  <2>1. releases \in Seq(ReleaseRecord)
    BY <1>2 DEF Types
  <2>2. PICK i \in Nat : Start(r, e, i)
    BY <1>1
  <2>3. \E v \in EnvRecord :
           /\ v.status = "inProgress" /\ ~v.agreed /\ v.attempt = releases[r].envs[e].attempt + 1
           /\ v.run = i /\ v.trigger = releases[r].envs[e].trigger
           /\ releases' = [releases EXCEPT ![r].envs[e] = v]
    BY <2>1, <2>2, StartIs
  <2> QED
    BY <2>3
<1>4. Grown /\ releases' \in Seq(ReleaseRecord)
  BY <1>1, <1>2, <1>3, EnvGrows
<1> QED
  BY <1>1, <1>4, ReleasesChange

LEMMA BuildAdded ==
  ASSUME Types, NEW v \in BuildRecord, builds' = Append(builds, v), releases' = releases
  PROVE  Grown /\ builds' \in Seq(BuildRecord)
<1>1. /\ builds' \in Seq(BuildRecord) /\ DOMAIN builds \subseteq DOMAIN builds'
      /\ \A i \in DOMAIN builds : builds'[i] = builds[i]
  BY Appended DEF Types
<1> QED
  BY <1>1 DEF Grown

LEMMA OthersKeep ==
  ASSUME PlanAssumption, ExecutorInv,
         Drifts \/ \E t \in 1..N, fits \in BOOLEAN : OtherBuild(t, fits)
  PROVE  ExecutorInv'
<1>1. CASE Drifts
  <2>1. UNCHANGED <<op, builds, releases, flight, got, steps, effects, stop, out, x, y, faults>> /\ drift' \in BOOLEAN
    BY <1>1 DEF Drifts, local
  <2>2. Types' /\ Grown
    BY <2>1 DEF ExecutorInv, Types, Grown
  <2> QED
    BY <2>1, <2>2, ServerKeeps DEF local
<1>2. CASE \E t \in 1..N, fits \in BOOLEAN : OtherBuild(t, fits)
  <2> PICK t \in 1..N, fits \in BOOLEAN : OtherBuild(t, fits)
    BY <1>2
  <2>1. UNCHANGED <<op, releases, flight, got, drift, steps, effects, stop, out, x, y, faults>>
    BY DEF OtherBuild, local
  <2>2. PICK v \in BuildRecord : builds' = Append(builds, v)
    BY DEF OtherBuild, BuildRecord
  <2>3. Grown /\ builds' \in Seq(BuildRecord)
    BY <2>1, <2>2, BuildAdded DEF ExecutorInv
  <2>4. Types' /\ drift' \in BOOLEAN
    BY <2>1, <2>3 DEF ExecutorInv, Types, ExecutorTypeOK
  <2> QED
    BY <2>1, <2>3, <2>4, ServerKeeps DEF local
<1> QED
  BY <1>1, <1>2

-----------------------------------------------------------------------------
(* A request is carried out                                                *)
LEMMA Performed ==
  ASSUME Types, Placed, DeploySound, NEW i \in DOMAIN effects, Perform(i)
  PROVE  /\ Grown /\ builds' \in Seq(BuildRecord) /\ releases' \in Seq(ReleaseRecord)
         /\ got' \in Seq(Nat) /\ DOMAIN got' = DOMAIN got \cup {Len(got) + 1} /\ Len(got) + 1 \notin DOMAIN got
         /\ got'[Len(got) + 1] = i /\ \A n \in DOMAIN got : got'[n] = got[n]
         /\ Kind(i) = "build_create" =>
              /\ builds' = Append(builds, [target |-> steps[effects[i].step].target, fits |-> TRUE,
                                           result |-> "none", by |-> i])
              /\ Len(builds) + 1 \in DOMAIN builds' /\ builds'[Len(builds) + 1].fits
              /\ builds'[Len(builds) + 1].target = steps[effects[i].step].target
         /\ Kind(i) = "release_create" =>
              /\ Len(releases) + 1 \in DOMAIN releases'
              /\ releases'[Len(releases) + 1].target = steps[effects[i].step].target
<1>0. got \in Seq(Nat) /\ i \in Nat /\ builds \in Seq(BuildRecord) /\ releases \in Seq(ReleaseRecord)
      /\ effects[i] \in EffectRecord /\ steps[effects[i].step] \in StepRecord
  BY Indexed DEF Types, Placed
<1>1. /\ got' \in Seq(Nat) /\ DOMAIN got' = DOMAIN got \cup {Len(got) + 1} /\ Len(got) + 1 \notin DOMAIN got
      /\ got'[Len(got) + 1] = i /\ \A n \in DOMAIN got : got'[n] = got[n]
  <2>1. got' = Append(got, i)
    BY DEF Perform
  <2> QED
    BY <1>0, <2>1, Appended
<1>2. CASE Kind(i) = "build_create"
  <2>1. builds' = Append(builds, [target |-> steps[effects[i].step].target, fits |-> TRUE,
                                  result |-> "none", by |-> i]) /\ releases' = releases
    BY <1>2 DEF Perform, Kind
  <2> PICK v : v = [target |-> steps[effects[i].step].target, fits |-> TRUE, result |-> "none", by |-> i]
    OBVIOUS
  <2>2. v \in BuildRecord /\ v.fits /\ v.target = steps[effects[i].step].target
    BY <1>0 DEF BuildRecord, StepRecord
  <2>3. builds' = Append(builds, v)
    BY <2>1
  <2>4. Grown /\ builds' \in Seq(BuildRecord)
    BY <2>1, <2>2, <2>3, BuildAdded
  <2>5. Len(builds) + 1 \in DOMAIN builds' /\ builds'[Len(builds) + 1] = v
    BY <1>0, <2>2, <2>3, Appended
  <2> QED
    BY <1>0, <1>1, <1>2, <2>1, <2>2, <2>4, <2>5
<1>3. CASE Kind(i) = "build_cancel"
  <2>1. builds' = builds /\ releases' = releases
    BY <1>3 DEF Perform, Kind
  <2>2. Grown
    BY <2>1 DEF Grown
  <2> QED
    BY <1>0, <1>1, <1>3, <2>1, <2>2
<1>4. CASE Kind(i) = "release_create"
  <2>1. builds' = builds
    BY <1>4 DEF Perform, Kind
  <2>2. PICK trigger \in {"manual", "automatic"} :
          releases' = Append(releases,
               [target |-> steps[effects[i].step].target, build |-> effects[i].base, by |-> i,
                envs |-> [e \in Envs |-> Fresh(IF e \in Unselected THEN trigger ELSE "manual")]])
    BY <1>4 DEF Perform, Kind
  <2> PICK en : en = [e \in Envs |-> Fresh(IF e \in Unselected THEN trigger ELSE "manual")]
    OBVIOUS
  <2>3. \A t \in {"manual", "automatic"} : Fresh(t) \in EnvRecord
    BY DEF Fresh, EnvRecord
  <2>4. en \in [Envs -> EnvRecord]
    BY <2>3
  <2> PICK v : v = [target |-> steps[effects[i].step].target, build |-> effects[i].base, by |-> i, envs |-> en]
    OBVIOUS
  <2>5. v \in ReleaseRecord /\ v.target = steps[effects[i].step].target
    BY <1>0, <2>4 DEF ReleaseRecord, StepRecord, EffectRecord
  <2>6. releases' = Append(releases, v)
    BY <2>2
  <2>7. /\ releases' \in Seq(ReleaseRecord) /\ DOMAIN releases \subseteq DOMAIN releases'
        /\ Len(releases) + 1 \in DOMAIN releases' /\ releases'[Len(releases) + 1] = v
        /\ \A r \in DOMAIN releases : releases'[r] = releases[r]
    BY <1>0, <2>5, <2>6, Appended
  <2>8. Grown
    BY <2>1, <2>7 DEF Grown
  <2> QED
    BY <1>0, <1>1, <1>4, <2>1, <2>5, <2>7, <2>8
<1>5. CASE Kind(i) = "env_deploy"
  <2>1. builds' = builds /\ Start(effects[i].remote, effects[i].env, i)
    BY <1>5 DEF Perform, Kind
  <2>2. effects[i].remote \in DOMAIN releases /\ effects[i].env \in Envs
    BY <1>5 DEF DeploySound, Sound, Envs
  <2>7. PICK r \in DOMAIN releases, e \in Envs : r = effects[i].remote /\ e = effects[i].env
    BY <2>2
  <2>6. PICK n \in Nat : n = i
    BY <1>0
  <2>5. releases \in Seq(ReleaseRecord) /\ Start(r, e, n)
    BY <1>0, <2>1, <2>6, <2>7
  <2>3. PICK v \in EnvRecord :
           /\ v.status = "inProgress" /\ ~v.agreed /\ v.attempt = releases[r].envs[e].attempt + 1
           /\ v.run = n /\ v.trigger = releases[r].envs[e].trigger
           /\ releases' = [releases EXCEPT ![r].envs[e] = v]
    BY <2>5, StartIs
  <2>4. Grown /\ releases' \in Seq(ReleaseRecord)
    BY <2>1, <2>2, <2>3, EnvGrows
  <2> QED
    BY <1>0, <1>1, <1>5, <2>1, <2>4
<1>6. Kind(i) \in {"build_create", "build_cancel", "release_create", "env_deploy"}
  BY <1>0 DEF EffectRecord, Kind
<1> QED
  BY <1>2, <1>3, <1>4, <1>5, <1>6

LEMMA ReachedIs ==
  ASSUME NEW i, DOMAIN got' = DOMAIN got \cup {Len(got) + 1}, Len(got) + 1 \notin DOMAIN got,
         got'[Len(got) + 1] = i, \A n \in DOMAIN got : got'[n] = got[n], effects' = effects
  PROVE  /\ \A j : Reached(j)' <=> (Reached(j) \/ j = i)
         /\ Once /\ ~Reached(i) => \A m, n \in DOMAIN got' : got'[m] = got'[n] => m = n
BY DEF Reached, Once

LEMMA OnceKept ==
  ASSUME Once, effects' = effects, got' = got, \A i \in flight' : ~Reached(i)
  PROVE  Once'
BY DEF Once, Reached, Kind

LEMMA ArrivesKeeps ==
  ASSUME PlanAssumption, ExecutorInv, NEW i \in flight, Arrives(i)
  PROVE  ExecutorInv'
<1>0. /\ UNCHANGED <<op, drift, steps, effects, stop, out, x, y, faults>>
      /\ flight' = flight \ {i} /\ Perform(i)
  BY DEF Arrives, local
<1>1. Types /\ RowsOK /\ Planned /\ Given /\ Once /\ Placed /\ DeploySound /\ i \in DOMAIN effects
      /\ flight \subseteq DOMAIN effects
  BY DEF ExecutorInv, ExecutorTypeOK
<1>2. SamePlan
  BY <1>0 DEF SamePlan
<1>3. /\ Grown /\ builds' \in Seq(BuildRecord) /\ releases' \in Seq(ReleaseRecord)
      /\ got' \in Seq(Nat) /\ DOMAIN got' = DOMAIN got \cup {Len(got) + 1} /\ Len(got) + 1 \notin DOMAIN got
      /\ got'[Len(got) + 1] = i /\ \A n \in DOMAIN got : got'[n] = got[n]
  BY <1>0, <1>1, Performed
<1>4. Types'
  BY <1>0, <1>1, <1>3 DEF Types
<1>5. RowsOK'
  BY <1>0, <1>1, <1>2, <1>3, <1>4, RowsKept DEF Placed
<1>6. ExecutorTypeOK'
  BY <1>0, <1>3, <1>5 DEF ExecutorInv, ExecutorTypeOK
<1>7. Planned' /\ Given' /\ DeploySound' /\ Placed'
  BY <1>0, <1>1, <1>2, <1>3, PlannedKept, GivenKept, SoundKeeps DEF SameEffects
<1>8. Once'
  <2>1. /\ \A j : Reached(j)' <=> (Reached(j) \/ j = i)
        /\ ~Reached(i) => \A m, n \in DOMAIN got' : got'[m] = got'[n] => m = n
    BY <1>0, <1>1, <1>3, ReachedIs
  <2>2. ~Reached(i) /\ \A j \in flight : ~Reached(j)
    BY <1>1 DEF Once
  <2>3. \A j \in flight' : ~Reached(j)'
    BY <1>0, <2>1, <2>2
  <2> QED
    BY <1>0, <1>1, <2>1, <2>2, <2>3 DEF Once, Kind
<1>9. out # "running"
  BY DEF ExecutorInv, Acts, Answering
<1> QED
  BY <1>0, <1>4, <1>6, <1>7, <1>8, <1>9 DEF ExecutorInv

LEMMA VanishesKeeps ==
  ASSUME PlanAssumption, ExecutorInv, NEW i \in flight, Vanishes(i)
  PROVE  ExecutorInv'
<1>0. /\ UNCHANGED <<op, builds, releases, got, drift, steps, effects, stop, out, x, y, faults>>
      /\ flight' = flight \ {i}
  BY DEF Vanishes, local
<1>1. Types /\ RowsOK /\ Planned /\ Given /\ Once /\ Placed /\ DeploySound
  BY DEF ExecutorInv, ExecutorTypeOK
<1>2. Grown /\ SamePlan /\ Types'
  BY <1>0, <1>1 DEF Grown, SamePlan, Types
<1>3. Planned' /\ Given' /\ DeploySound' /\ Placed'
  BY <1>0, <1>1, <1>2, PlannedKept, GivenKept, SoundKeeps DEF SameEffects
<1>4. RowsOK'
  BY <1>0, <1>1, <1>2, RowsKept DEF Placed
<1>5. ExecutorTypeOK'
  BY <1>0, <1>4 DEF ExecutorInv, ExecutorTypeOK
<1>6. Once'
  BY <1>0, <1>1, OnceKept DEF Once
<1>7. out # "running"
  BY DEF ExecutorInv, Acts, Answering
<1> QED
  BY <1>0, <1>2, <1>3, <1>5, <1>6, <1>7 DEF ExecutorInv

-----------------------------------------------------------------------------
(* The run ends                                                            *)
LEMMA StatusSet ==
  ASSUME Types, op' = op, NEW k \in DOMAIN steps, NEW st \in {"pending", "succeeded", "failed", "unknown"},
         steps' = [steps EXCEPT ![k].status = st]
  PROVE  /\ SamePlan /\ steps' \in Seq(StepRecord) /\ steps'[k].status = st
         /\ \A j \in DOMAIN steps : j # k => steps'[j] = steps[j]
         /\ \A j \in DOMAIN steps : steps'[j].build = steps[j].build /\ steps'[j].release = steps[j].release
<1>1. steps[k] \in StepRecord /\ steps \in Seq(StepRecord)
  BY Indexed DEF Types
<1> PICK v : v = [steps[k] EXCEPT !.status = st]
  OBVIOUS
<1>2. v \in StepRecord /\ v.status = st /\ v.kind = steps[k].kind /\ v.target = steps[k].target
      /\ v.build = steps[k].build /\ v.release = steps[k].release
  BY <1>1 DEF StepRecord
<1>3. steps' = [steps EXCEPT ![k] = v]
  OBVIOUS
<1>4. /\ steps' \in Seq(StepRecord) /\ Len(steps') = Len(steps) /\ DOMAIN steps' = DOMAIN steps
      /\ steps'[k] = v /\ \A j \in DOMAIN steps : j # k => steps'[j] = steps[j]
  BY <1>1, <1>2, <1>3, Replaced
<1> QED
  BY <1>2, <1>4 DEF SamePlan

LEMMA IdlingIs ==
  Idling \in ExecutorRecord /\ Idling.pc = "done" /\ Idling.k = 1
BY DEF Idling, ExecutorRecord, Pcs

LEMMA EndKeeps ==
  ASSUME PlanAssumption, ExecutorInv,
         out' \in {"succeeded", "failed", "cancelled", "unknown"}, x' = Idling,
         steps' \in Seq(StepRecord), SamePlan,
         \A j \in DOMAIN steps : steps'[j].build = steps[j].build /\ steps'[j].release = steps[j].release,
         UNCHANGED <<builds, releases, got, drift, effects, y>>,
         flight' \subseteq DOMAIN effects, \A i \in flight' : ~Reached(i),
         stop' \in {"no", "asked", "heard"}, faults' \in 0..Faults
  PROVE  ExecutorInv'
<1>1. Types /\ RowsOK /\ Planned /\ Given /\ Once /\ Placed /\ DeploySound
  BY DEF ExecutorInv, ExecutorTypeOK
<1>2. Grown /\ Types'
  BY <1>1, IdlingIs DEF Grown, SamePlan, Types
<1>3. op' = op
  BY DEF SamePlan
<1>4. Planned' /\ Given' /\ DeploySound' /\ Placed'
  BY <1>1, <1>2, <1>3, PlannedKept, GivenKept, SoundKeeps DEF SameEffects, Placed
<1>5. RowsOK'
  BY <1>1, <1>2, RowsKept DEF Placed
<1>6. ExecutorTypeOK'
  <2>1. Len(steps) \in Nat /\ Len(steps') = Len(steps)
    BY <1>1, Indexed DEF SamePlan, Types
  <2> QED
    BY <1>3, <1>5, <2>1, IdlingIs DEF ExecutorInv, ExecutorTypeOK
<1>7. Once'
  BY <1>1, OnceKept
<1> QED
  BY <1>2, <1>4, <1>6, <1>7, IdlingIs DEF ExecutorInv

-----------------------------------------------------------------------------
(* What the executor does without the server                               *)
LEMMA MoveKeeps ==
  ASSUME PlanAssumption, ExecutorInv,
         UNCHANGED <<builds, releases, flight, got, drift>>, SamePlan, SameEffects,
         x' \in ExecutorRecord, y' \in ReadRecord, y'.done \subseteq DOMAIN steps,
         steps' \in Seq(StepRecord), effects' \in Seq(EffectRecord),
         stop' \in {"no", "asked", "heard"}, faults' \in 0..Faults,
         out' \in {"running", "succeeded", "failed", "cancelled", "unknown"},
         x'.k \in 1..Len(steps) + 1, y'.k \in 0..Len(steps) + 1,
         \A j \in DOMAIN steps : /\ steps'[j].build \in {steps[j].build} \cup DOMAIN builds
                                 /\ steps'[j].release \in {steps[j].release} \cup DOMAIN releases,
         \A i \in DOMAIN effects : Kind(i) = "env_deploy" =>
           steps'[effects[i].step].release = steps[effects[i].step].release,
         out' = "running" <=> x'.pc # "done", out' = "running" => Acts'
  PROVE  ExecutorInv'
<1>1. Types /\ RowsOK /\ Planned /\ Given /\ Once /\ Placed /\ DeploySound /\ op \in Operations
      /\ flight \subseteq DOMAIN effects /\ (\A n \in DOMAIN got : got[n] \in DOMAIN effects) /\ drift \in BOOLEAN
  BY DEF ExecutorInv, ExecutorTypeOK
<1>2. Grown /\ Types'
  BY <1>1 DEF Grown, Types, SamePlan
<1>3. Planned' /\ Given' /\ DeploySound' /\ Placed'
  <2>1. op' = op
    BY DEF SamePlan
  <2> QED
    BY <1>1, <1>2, <2>1, PlannedKept, GivenKept, SoundKeeps
<1>4. RowsOK'
  <2>1. \A i \in DOMAIN effects' : effects'[i].step \in DOMAIN steps
    BY <1>1 DEF SameEffects, Placed
  <2> QED
    BY <1>1, <1>2, <2>1, RowsKept
<1>5. ExecutorTypeOK'
  <2>1. op' = op /\ DOMAIN effects' = DOMAIN effects /\ flight' = flight /\ got' = got /\ drift' = drift
        /\ Len(steps') = Len(steps)
    BY DEF SamePlan, SameEffects
  <2> QED
    BY <1>1, <1>4, <2>1 DEF ExecutorTypeOK
<1>6. Once'
  BY <1>1 DEF Once, SameEffects, Kind, Reached
<1> QED
  BY <1>2, <1>3, <1>5, <1>6 DEF ExecutorInv

Ending ==
  /\ out = "running" /\ out' \in {"succeeded", "failed", "cancelled", "unknown"} /\ x' = Idling
  /\ \/ steps' = steps
     \/ \E st \in {"failed", "unknown"} :
          x.pc # "target" /\ steps' = [steps EXCEPT ![x.k].status = st]
  /\ UNCHANGED <<op, builds, releases, got, drift, effects, y>>
  /\ flight' = flight \/ (x.pc = "send" /\ out' = "unknown" /\ flight' = flight \cup {Last})
  /\ stop' \in {"no", "asked", "heard"} /\ faults' \in 0..Faults

LEMMA EndingKeeps ==
  ASSUME PlanAssumption, ExecutorInv, Ending
  PROVE  ExecutorInv'
<1>1. Types /\ Acts
  BY DEF ExecutorInv, Ending
<1>2. /\ SamePlan /\ steps' \in Seq(StepRecord)
      /\ \A j \in DOMAIN steps : steps'[j].build = steps[j].build /\ steps'[j].release = steps[j].release
  <2>1. CASE steps' = steps
    BY <1>1, <2>1 DEF SamePlan, Types, Ending
  <2>2. CASE \E st \in {"failed", "unknown"} :
               x.pc # "target" /\ steps' = [steps EXCEPT ![x.k].status = st]
    <3>1. PICK st \in {"pending", "succeeded", "failed", "unknown"} :
               x.pc # "target" /\ steps' = [steps EXCEPT ![x.k].status = st]
      BY <2>2
    <3>2. PICK k : k = x.k
      OBVIOUS
    <3>3. k \in DOMAIN steps /\ steps' = [steps EXCEPT ![k].status = st] /\ op' = op
      BY <1>1, <3>1, <3>2 DEF Acts, InStep, Ending
    <3> QED
      BY <1>1, <3>3, StatusSet
  <2> QED
    BY <2>1, <2>2 DEF Ending
<1>3. flight' \subseteq DOMAIN effects /\ \A i \in flight' : ~Reached(i)
  <2>1. flight = {}
    BY <1>1 DEF Acts, Answering
  <2>2. x.pc = "send" => Last \in DOMAIN effects /\ ~Reached(Last)
    BY <1>1 DEF Acts, Answering
  <2> QED
    BY <2>1, <2>2 DEF Ending
<1>4. /\ out' \in {"succeeded", "failed", "cancelled", "unknown"} /\ x' = Idling
      /\ UNCHANGED <<builds, releases, got, drift, effects, y>>
      /\ stop' \in {"no", "asked", "heard"} /\ faults' \in 0..Faults
  BY DEF Ending
<1> QED
  BY <1>2, <1>3, <1>4, EndKeeps

(* Every way a run ends                                                    *)
LEMMA Faultless ==
  ASSUME PlanAssumption, ExecutorInv
  PROVE  /\ faults \in 0..Faults /\ (faults > 0 => faults - 1 \in 0..Faults)
         /\ stop \in {"no", "asked", "heard"}
<1>1. Faults \in Nat /\ faults \in 0..Faults /\ stop \in {"no", "asked", "heard"}
  BY DEF PlanAssumption, ExecutorInv, ExecutorTypeOK
<1> QED
  BY <1>1

LEMMA EndsAre ==
  ASSUME PlanAssumption, ExecutorInv, Running,
         \/ Refused \/ TimesOut \/ IntentRefused \/ Fails \/ Crash
         \/ (Send \/ Begin \/ WaitBuild \/ Bind \/ Verify \/ Deploy \/ Poll) /\ out' # "running"
  PROVE  Ending
<1>0. /\ faults \in 0..Faults /\ (faults > 0 => faults - 1 \in 0..Faults)
      /\ stop \in {"no", "asked", "heard"} /\ out = "running"
  BY Faultless DEF Running
<1>1. CASE Refused
  BY <1>0, <1>1 DEF Refused, Ends, Ending, server
<1>2. CASE TimesOut
  BY <1>0, <1>2 DEF TimesOut, EndsAfter, Ends, Ending, server, At
<1>3. CASE IntentRefused
  BY <1>0, <1>3 DEF IntentRefused, RaisesAfterBind, Raises, FailureOutcome, Ends, Ending, server, Quiet
<1>4. CASE Fails
  BY <1>0, <1>4 DEF Fails, RaisesAfterBind, Raises, FailureOutcome, Ends, Ending, server
<1>5. CASE Crash
  BY <1>0, <1>5 DEF Crash, Ends, Ending, server
<1>6. CASE Send /\ out' # "running"
  BY <1>0, <1>6 DEF Send, At, Ends, Ending, Last
<1>7. CASE Begin /\ out' # "running"
  BY <1>0, <1>7 DEF Begin, Ends, Ending, server, Quiet
<1>8. CASE WaitBuild /\ out' # "running"
  BY <1>0, <1>8 DEF WaitBuild, At, EndsAfter, Ends, NextStep, Ending, server, Quiet
<1>9. CASE Bind /\ out' # "running"
  BY <1>0, <1>9 DEF Bind, Raises, FailureOutcome, Ends, Ending, server, Quiet
<1>10. CASE Verify /\ out' # "running"
  BY <1>0, <1>10 DEF Verify, Raises, FailureOutcome, Ends, Ending, server, Quiet
<1>11. CASE Deploy /\ out' # "running"
  BY <1>0, <1>11 DEF Deploy, At, EndsAfter, Ends, Ending, server, Quiet
<1>12. CASE Poll /\ out' # "running"
  BY <1>0, <1>12 DEF Poll, At, EndsAfter, Ends, NextStep, Ending, server, Quiet
<1> QED
  BY <1>1, <1>2, <1>3, <1>4, <1>5, <1>6, <1>7, <1>8, <1>9, <1>10, <1>11, <1>12

-----------------------------------------------------------------------------
(* The run goes on                                                         *)
(* A step of the run that leaves the server and its own end alone, and may *)
(* use up faults.                                                          *)
Steady == UNCHANGED <<op, server, stop, y>> /\ faults' \in 0..Faults

LEMMA RunKeeps ==
  ASSUME PlanAssumption, ExecutorInv, Running, out' = out, Quiet \/ Steady, SamePlan, SameEffects,
         x' \in ExecutorRecord, x'.pc # "done", x'.k \in 1..Len(steps) + 1,
         steps' \in Seq(StepRecord), effects' \in Seq(EffectRecord),
         \A j \in DOMAIN steps : /\ steps'[j].build \in {steps[j].build} \cup DOMAIN builds
                                 /\ steps'[j].release \in {steps[j].release} \cup DOMAIN releases,
         \A i \in DOMAIN effects : Kind(i) = "env_deploy" =>
           steps'[effects[i].step].release = steps[effects[i].step].release,
         Acts'
  PROVE  ExecutorInv'
<1>1. /\ UNCHANGED <<builds, releases, flight, got, drift>> /\ out = "running" /\ y' = y
      /\ stop' = stop /\ faults' \in {faults} \cup 0..Faults
  BY DEF Quiet, Steady, server, Running
<1>2. Types /\ y.k \in 0..Len(steps) + 1
  BY DEF ExecutorInv, ExecutorTypeOK
<1>3. y' \in ReadRecord /\ y'.done \subseteq DOMAIN steps /\ stop' \in {"no", "asked", "heard"} /\ faults' \in 0..Faults
      /\ y'.k \in 0..Len(steps) + 1
  BY <1>1, <1>2, Faultless DEF Types
<1> QED
  BY <1>1, <1>3, MoveKeeps

LEMMA Still ==
  ASSUME Types, op' = op, steps' = steps, effects' = effects
  PROVE  /\ SamePlan /\ SameEffects /\ steps' \in Seq(StepRecord) /\ effects' \in Seq(EffectRecord)
         /\ \A j \in DOMAIN steps : /\ steps'[j].build \in {steps[j].build} \cup DOMAIN builds
                                    /\ steps'[j].release \in {steps[j].release} \cup DOMAIN releases
         /\ \A i \in DOMAIN effects : steps'[effects[i].step].release = steps[effects[i].step].release
BY DEF Types, SamePlan, SameEffects

(* Who is asked and answered stays as it was                               *)
LEMMA StepIs ==
  ASSUME ExecutorInv, Running
  PROVE  /\ Types /\ InStep /\ Answering /\ Builds /\ Releases /\ Deploys /\ Placed /\ Given /\ Once /\ DeploySound
         /\ x \in ExecutorRecord /\ x.k \in 1..Len(steps) + 1 /\ op \in Operations
         /\ Len(steps) \in Nat /\ DOMAIN steps = 1..Len(steps)
         /\ (x.pc # "target" => x.k \in DOMAIN steps)
<1>1. /\ Types /\ InStep /\ Answering /\ Builds /\ Releases /\ Deploys /\ Placed /\ Given /\ Once /\ DeploySound
      /\ op \in Operations
  BY DEF ExecutorInv, ExecutorTypeOK, Running, Acts
<1> QED
  BY <1>1, Indexed DEF Types, InStep

LEMMA EffectIs ==
  ASSUME Types, NEW i \in DOMAIN effects
  PROVE  effects[i] \in EffectRecord /\ effects[i].step \in Nat /\ effects[i].remote \in Nat /\ effects[i].base \in Nat
<1>1. effects[i] \in EffectRecord
  BY Indexed DEF Types
<1> QED
  BY <1>1 DEF EffectRecord

LEMMA BeginKeeps ==
  ASSUME PlanAssumption, ExecutorInv, Running, Begin, out' = "running"
  PROVE  ExecutorInv'
<1>1. /\ Types /\ InStep /\ Answering /\ Placed /\ Given
      /\ x \in ExecutorRecord /\ x.k \in 1..Len(steps) + 1 /\ op \in Operations
      /\ Len(steps) \in Nat /\ DOMAIN steps = 1..Len(steps)
  BY StepIs
<1>2. /\ steps' = steps /\ effects' = effects /\ Quiet /\ out' = out /\ x.pc = "target"
      /\ UNCHANGED <<op, builds, releases, flight, got, drift>>
  BY DEF Begin, Quiet, server, Running, At
<1>3. /\ x.k <= Len(steps)
      /\ \/ op = "sync_build_release" /\ x' = [x EXCEPT !.pc = "acquire"]
         \/ op = "deploy_only" /\ x' = [x EXCEPT !.pc = "bind", !.build = Target]
         \/ op = "rollback" /\ x' = [x EXCEPT !.pc = "verify", !.build = Target, !.release = Target]
  BY DEF Begin, Ends, Go
<1>4. /\ x.k \in DOMAIN steps /\ steps[x.k] \in StepRecord
      /\ (steps[x.k].kind = "build" <=> op = "sync_build_release")
      /\ \A i \in DOMAIN effects : effects[i].step < x.k
  BY <1>1, <1>2, <1>3, Indexed DEF InStep, Types
<1>5. Target \in 1..N /\ Target \in Nat
  BY <1>4 DEF Target, StepRecord, PlanAssumption
<1>6. /\ x' \in ExecutorRecord /\ x'.k = x.k
      /\ x'.pc = IF op = "sync_build_release" THEN "acquire" ELSE IF op = "deploy_only" THEN "bind" ELSE "verify"
      /\ op # "sync_build_release" => x'.build = Target
      /\ op = "rollback" => x'.release = Target
  <2>1. CASE op = "sync_build_release" /\ x' = [x EXCEPT !.pc = "acquire"]
    BY <1>1, <2>1 DEF ExecutorRecord, Pcs
  <2>2. CASE op = "deploy_only" /\ x' = [x EXCEPT !.pc = "bind", !.build = Target]
    BY <1>1, <1>5, <2>2 DEF ExecutorRecord, Pcs
  <2>3. CASE op = "rollback" /\ x' = [x EXCEPT !.pc = "verify", !.build = Target, !.release = Target]
    BY <1>1, <1>5, <2>3 DEF ExecutorRecord, Pcs
  <2> QED
    BY <1>3, <2>1, <2>2, <2>3
<1>7. InStep'
  BY <1>1, <1>2, <1>4, <1>6 DEF InStep, Building, Doing
<1>8. Answering'
  BY <1>1, <1>2, <1>6 DEF Answering, Reached
<1>9. op \in {"sync_build_release", "deploy_only", "rollback"}
  BY <1>1 DEF PlanAssumption
<1>10. Builds'
  <2>1. op # "sync_build_release" => /\ Target \in DOMAIN builds /\ builds[Target].fits /\ builds[Target].target = Target
                                     /\ builds[Target].result = "succeeded"
    BY <1>1, <1>5, <1>9 DEF Given
  <2> QED
    BY <1>2, <1>6, <2>1 DEF Builds, Doing, Releasing, Deploying, Fine, Target
<1>11. Releases'
  <2>1. op = "rollback" => Target \in DOMAIN releases /\ releases[Target].target = Target
    BY <1>1, <1>5 DEF Given
  <2>2. \A i \in DOMAIN effects : effects[i].step # x.k
    <3>1. x.k \in Nat /\ \A i \in DOMAIN effects : effects[i].step \in Nat
      BY <1>1, <1>4, EffectIs
    <3> QED
      BY <1>4, <3>1
  <2>3. op \notin {"sync_build_release", "deploy_only"} => op = "rollback"
    BY <1>9
  <2> QED
    BY <1>2, <1>6, <2>1, <2>2, <2>3 DEF Releases, Doing, Deploying, Target, Kind
<1>12. Deploys'
  BY <1>6 DEF Deploys, Deploying, Doing
<1>13. x'.pc # "done"
  BY <1>6
<1> QED
  BY <1>1, <1>2, <1>6, <1>7, <1>8, <1>10, <1>11, <1>12, <1>13, Still, RunKeeps DEF Acts

LEMMA BuildSet ==
  ASSUME Types, op' = op, NEW k \in DOMAIN steps, NEW b \in Nat, steps' = [steps EXCEPT ![k].build = b]
  PROVE  /\ SamePlan /\ steps' \in Seq(StepRecord) /\ steps'[k].build = b
         /\ \A j \in DOMAIN steps : /\ steps'[j].status = steps[j].status /\ steps'[j].release = steps[j].release
                                    /\ j # k => steps'[j].build = steps[j].build
<1>1. steps[k] \in StepRecord /\ steps \in Seq(StepRecord)
  BY Indexed DEF Types
<1> PICK v : v = [steps[k] EXCEPT !.build = b]
  OBVIOUS
<1>2. v \in StepRecord /\ v.status = steps[k].status /\ v.kind = steps[k].kind /\ v.target = steps[k].target
      /\ v.build = b /\ v.release = steps[k].release
  BY <1>1 DEF StepRecord
<1>3. steps' = [steps EXCEPT ![k] = v]
  OBVIOUS
<1>4. /\ steps' \in Seq(StepRecord) /\ Len(steps') = Len(steps) /\ DOMAIN steps' = DOMAIN steps
      /\ steps'[k] = v /\ \A j \in DOMAIN steps : j # k => steps'[j] = steps[j]
  BY <1>1, <1>2, <1>3, Replaced
<1> QED
  BY <1>2, <1>4 DEF SamePlan

LEMMA ReleaseSet ==
  ASSUME Types, op' = op, NEW k \in DOMAIN steps, NEW b \in Nat, steps' = [steps EXCEPT ![k].release = b]
  PROVE  /\ SamePlan /\ steps' \in Seq(StepRecord) /\ steps'[k].release = b
         /\ \A j \in DOMAIN steps : /\ steps'[j].status = steps[j].status /\ steps'[j].build = steps[j].build
                                    /\ j # k => steps'[j].release = steps[j].release
<1>1. steps[k] \in StepRecord /\ steps \in Seq(StepRecord)
  BY Indexed DEF Types
<1> PICK v : v = [steps[k] EXCEPT !.release = b]
  OBVIOUS
<1>2. v \in StepRecord /\ v.status = steps[k].status /\ v.kind = steps[k].kind /\ v.target = steps[k].target
      /\ v.release = b /\ v.build = steps[k].build
  BY <1>1 DEF StepRecord
<1>3. steps' = [steps EXCEPT ![k] = v]
  OBVIOUS
<1>4. /\ steps' \in Seq(StepRecord) /\ Len(steps') = Len(steps) /\ DOMAIN steps' = DOMAIN steps
      /\ steps'[k] = v /\ \A j \in DOMAIN steps : j # k => steps'[j] = steps[j]
  BY <1>1, <1>2, <1>3, Replaced
<1> QED
  BY <1>2, <1>4 DEF SamePlan

LEMMA CandidateIs ==
  ASSUME Types, NEW found \in SUBSET Candidates, found # {}
  PROVE  Max(found) \in Candidates /\ Max(found) \in Nat
<1>1. Len(builds) \in Nat /\ Candidates \in SUBSET (1..Len(builds))
  BY Indexed DEF Types, Candidates
<1> PICK n \in Nat : n = Len(builds) /\ found \in SUBSET (1..n)
  BY <1>1
<1>2. Max(found) \in found
  BY MaxIndex
<1>3. Max(found) \in DOMAIN builds
  BY <1>2 DEF Candidates
<1>4. \A b \in DOMAIN builds : b \in Nat
  BY Indexed DEF Types
<1> QED
  BY <1>2, <1>3, <1>4

(* Candidates that cannot be read are skipped, each for a fault.           *)
LEMMA Skips ==
  ASSUME PlanAssumption, ExecutorInv, NEW skipped \in SUBSET Candidates,
         faults' = faults - Cardinality(skipped), faults' \in Nat
  PROVE  faults' \in 0..Faults
<1>1. Types /\ faults \in 0..Faults /\ Faults \in Nat
  BY DEF PlanAssumption, ExecutorInv, ExecutorTypeOK
<1>2. Len(builds) \in Nat /\ skipped \in SUBSET (1..Len(builds))
  BY <1>1, Indexed DEF Types, Candidates
<1>3. IsFiniteSet(skipped)
  <2>1. IsFiniteSet(1..Len(builds))
    BY <1>2, FS_Interval
  <2> QED
    BY ONLY <1>2, <2>1, FS_Subset
<1>4. Cardinality(skipped) \in Nat
  BY <1>3, FS_CardinalityType
<1> QED
  BY <1>1, <1>4

LEMMA ReusesKeeps ==
  ASSUME PlanAssumption, ExecutorInv, Running, At("acquire"), NEW found \in SUBSET Candidates, found # {},
         Reuses(Max(found)), UNCHANGED <<effects, out>>, Steady
  PROVE  ExecutorInv'
<1>1. /\ Types /\ InStep /\ Answering /\ Placed /\ Given
      /\ x \in ExecutorRecord /\ x.k \in 1..Len(steps) + 1 /\ op \in Operations
      /\ Len(steps) \in Nat /\ DOMAIN steps = 1..Len(steps)
      /\ (x.pc # "target" => x.k \in DOMAIN steps)
  BY StepIs
<1>2. PICK b : b = Max(found)
  OBVIOUS
<1>3. /\ effects' = effects /\ Steady /\ out' = out /\ x.pc = "acquire"
      /\ UNCHANGED <<op, builds, releases, flight, got, drift>>
      /\ x' = [x EXCEPT !.pc = "wait", !.build = b, !.owned = FALSE, !.stopping = FALSE]
      /\ steps' = [steps EXCEPT ![x.k].build = b]
  BY <1>2 DEF Reuses, Steady, server, At
<1>4. b \in DOMAIN builds /\ builds[b].fits /\ builds[b].target = steps[x.k].target /\ b \in Nat
  BY <1>1, <1>2, CandidateIs DEF Candidates, Target
<1>5. PICK k : k = x.k
  OBVIOUS
<1>6. /\ SamePlan /\ steps' \in Seq(StepRecord) /\ steps'[k].build = b
      /\ \A j \in DOMAIN steps : /\ steps'[j].status = steps[j].status /\ steps'[j].release = steps[j].release
                                 /\ j # k => steps'[j].build = steps[j].build
  <2>1. k \in DOMAIN steps /\ steps' = [steps EXCEPT ![k].build = b] /\ op' = op
    BY <1>1, <1>3, <1>5
  <2> QED
    BY <1>1, <1>4, <2>1, BuildSet
<1>7. x' \in ExecutorRecord /\ x'.k = x.k /\ x'.pc = "wait" /\ x'.build = b /\ ~x'.stopping
  BY <1>1, <1>3, <1>4 DEF ExecutorRecord, Pcs
<1>8. x.k \in DOMAIN steps /\ steps[x.k].kind = "build" /\ \A i \in DOMAIN effects : effects[i].step < x.k
  BY <1>1, <1>3 DEF InStep, Building
<1>9. InStep'
  BY <1>1, <1>3, <1>6, <1>7, <1>8 DEF InStep, Building, SamePlan
<1>10. Answering'
  <2>1. x'.pc = "wait" /\ UNCHANGED <<effects, flight, got>>
    BY <1>3, <1>7
  <2>2. flight = {} /\ \A i \in DOMAIN effects : Reached(i)
    BY <1>1, <1>3 DEF Answering
  <2> QED
    BY <2>1, <2>2 DEF Answering, Reached
<1>11. Builds'
  <2>1. \A i \in DOMAIN effects : effects[i].step # x.k
    <3>1. x.k \in Nat /\ \A i \in DOMAIN effects : effects[i].step \in Nat
      BY <1>1, <1>8, EffectIs
    <3> QED
      BY <1>8, <3>1
  <2>2. /\ x'.build = b /\ x'.k = x.k /\ x'.pc = "wait" /\ builds' = builds /\ effects' = effects
        /\ steps'[x.k].target = steps[x.k].target
    BY <1>3, <1>6, <1>7, <1>8 DEF SamePlan
  <2>3. Fine(x.build, x.k)'
    BY <1>4, <2>2 DEF Fine
  <2> QED
    BY <2>1, <2>2, <2>3 DEF Builds, Doing, Releasing, Deploying
<1>12. Releases' /\ Deploys'
  BY <1>7 DEF Deploys, Releases, Deploying, Doing
<1>13. \A j \in DOMAIN steps : /\ steps'[j].build \in {steps[j].build} \cup DOMAIN builds
                               /\ steps'[j].release \in {steps[j].release} \cup DOMAIN releases
  BY <1>4, <1>5, <1>6
<1>14. SameEffects /\ effects' \in Seq(EffectRecord)
  BY <1>1, <1>3 DEF SameEffects, Types
<1>15. \A i \in DOMAIN effects : steps'[effects[i].step].release = steps[effects[i].step].release
  BY <1>1, <1>6 DEF Placed
<1>16. x'.pc # "done"
  BY <1>7
<1> QED
  BY <1>1, <1>3, <1>6, <1>7, <1>9, <1>10, <1>11, <1>12, <1>13, <1>14, <1>15, <1>16, RunKeeps DEF Acts

LEMMA CreatedKeeps ==
  ASSUME PlanAssumption, ExecutorInv, Running, Created
  PROVE  ExecutorInv'
<1>1. /\ Types /\ InStep /\ Answering /\ Placed /\ Builds
      /\ x \in ExecutorRecord /\ x.k \in 1..Len(steps) + 1 /\ op \in Operations
      /\ Len(steps) \in Nat /\ DOMAIN steps = 1..Len(steps)
      /\ (x.pc # "target" => x.k \in DOMAIN steps)
  BY StepIs
<1>3. /\ effects' = effects /\ Quiet /\ out' = out /\ x.pc = "created"
      /\ UNCHANGED <<op, builds, releases, flight, got, drift>>
      /\ x' = [x EXCEPT !.pc = "wait", !.owned = TRUE, !.stopping = FALSE]
      /\ steps' = [steps EXCEPT ![x.k].build = x.build]
  BY DEF Created, Quiet, server, Running, At
<1>4. Fine(x.build, x.k) /\ x.build \in Nat
  BY <1>1, <1>3 DEF Builds, ExecutorRecord
<1>5. PICK k, b : k = x.k /\ b = x.build
  OBVIOUS
<1>6. /\ SamePlan /\ steps' \in Seq(StepRecord) /\ steps'[k].build = b
      /\ \A j \in DOMAIN steps : /\ steps'[j].status = steps[j].status /\ steps'[j].release = steps[j].release
                                 /\ j # k => steps'[j].build = steps[j].build
  <2>1. k \in DOMAIN steps /\ steps' = [steps EXCEPT ![k].build = b] /\ op' = op /\ b \in Nat
    BY <1>1, <1>3, <1>4, <1>5
  <2> QED
    BY <1>1, <2>1, BuildSet
<1>7. x' \in ExecutorRecord /\ x'.k = x.k /\ x'.pc = "wait" /\ x'.build = x.build /\ ~x'.stopping
  BY <1>1, <1>3 DEF ExecutorRecord, Pcs
<1>9. InStep'
  BY <1>1, <1>3, <1>6, <1>7 DEF InStep, Building, SamePlan
<1>10. Answering'
  BY <1>1, <1>3, <1>7 DEF Answering, Reached
<1>11. Builds'
  BY <1>1, <1>3, <1>4, <1>6, <1>7 DEF Builds, Doing, Releasing, Deploying, Fine, SamePlan, Kind
<1>12. Releases' /\ Deploys'
  BY <1>7 DEF Deploys, Releases, Deploying, Doing
<1>13. \A j \in DOMAIN steps : /\ steps'[j].build \in {steps[j].build} \cup DOMAIN builds
                               /\ steps'[j].release \in {steps[j].release} \cup DOMAIN releases
  BY <1>4, <1>5, <1>6 DEF Fine
<1>14. SameEffects /\ effects' \in Seq(EffectRecord)
  BY <1>1, <1>3 DEF SameEffects, Types
<1>15. \A i \in DOMAIN effects : steps'[effects[i].step].release = steps[effects[i].step].release
  BY <1>1, <1>6 DEF Placed
<1>16. x'.pc # "done"
  BY <1>7
<1> QED
  BY <1>1, <1>3, <1>6, <1>7, <1>9, <1>10, <1>11, <1>12, <1>13, <1>14, <1>15, <1>16, RunKeeps DEF Acts

(* A build or a target is done with                                        *)
LEMMA BuiltKeeps ==
  ASSUME PlanAssumption, ExecutorInv, Running, WaitBuild, Usable(builds[x.build]), NextStep("bind")
  PROVE  ExecutorInv'
<1>1. /\ Types /\ InStep /\ Answering /\ Placed /\ Builds
      /\ x \in ExecutorRecord /\ x.k \in 1..Len(steps) + 1 /\ op \in Operations
      /\ Len(steps) \in Nat /\ DOMAIN steps = 1..Len(steps)
      /\ (x.pc # "target" => x.k \in DOMAIN steps)
  BY StepIs
<1>3. /\ effects' = effects /\ Quiet /\ out' = out /\ x.pc = "wait"
      /\ UNCHANGED <<op, builds, releases, flight, got, drift>>
      /\ x' = [x EXCEPT !.pc = "bind", !.k = x.k + 1]
      /\ steps' = [steps EXCEPT ![x.k].status = "succeeded"]
  <2>1. x.pc = "wait" /\ Quiet /\ UNCHANGED <<op, builds, releases, flight, got, drift>> /\ out' = out
        /\ x' = [x EXCEPT !.pc = "bind", !.k = x.k + 1] /\ steps' = [steps EXCEPT ![x.k].status = "succeeded"]
    BY DEF WaitBuild, Quiet, server, Running, At, NextStep
  <2>2. effects' = effects
    BY <2>1 DEF WaitBuild, Running, EndsAfter, Ends, Usable, Completed
  <2> QED
    BY <2>1, <2>2
<1>4. Fine(x.build, x.k) /\ builds[x.build].result = "succeeded" /\ x.k \in DOMAIN steps
  BY <1>1, <1>3 DEF Builds, Usable
<1>5. PICK k : k = x.k
  OBVIOUS
<1>6. /\ SamePlan /\ steps' \in Seq(StepRecord) /\ steps'[k].status = "succeeded"
      /\ \A j \in DOMAIN steps : steps'[j].build = steps[j].build /\ steps'[j].release = steps[j].release
  <2>1. k \in DOMAIN steps /\ steps' = [steps EXCEPT ![k].status = "succeeded"] /\ op' = op
    BY <1>1, <1>3, <1>4, <1>5
  <2> QED
    BY <1>1, <2>1, StatusSet
<1>7. x' \in ExecutorRecord /\ x'.k = x.k + 1 /\ x'.pc = "bind" /\ x'.build = x.build
  <2>1. PICK n \in Nat : n = x.k + 1
    BY <1>1
  <2>2. x' = [x EXCEPT !.pc = "bind", !.k = n]
    BY <1>3, <2>1
  <2>3. x' \in ExecutorRecord /\ x'.k = n /\ x'.pc = "bind" /\ x'.build = x.build
    BY <1>1, <2>2 DEF ExecutorRecord, Pcs
  <2> QED
    BY <2>1, <2>3
<1>8. /\ steps[x.k].kind = "build" /\ op = "sync_build_release"
      /\ x.k + 1 \in DOMAIN steps /\ steps[x.k + 1].kind # "build" /\ steps[x.k + 1].target = steps[x.k].target
      /\ x.k + 1 \in 1..Len(steps)
  <2>1. steps[x.k].kind = "build"
    BY <1>1, <1>3, <1>4 DEF InStep, Building
  <2>2. Planned /\ steps \in Seq(StepRecord)
    BY DEF ExecutorInv, Types
  <2>3. op = "sync_build_release"
    BY <1>1, <1>4, <2>1, <2>2, PlanIs
  <2> QED
    BY <1>1, <1>4, <2>1, <2>2, <2>3, PlanIs
<1>9. InStep'
  <2>1. \A i \in DOMAIN effects : effects[i].step <= x.k /\ effects[i].step \in Nat
    BY <1>1, EffectIs DEF InStep
  <2>2. x.k \in Nat
    BY <1>1
  <2>3. \A i \in DOMAIN effects : effects[i].step <= x.k + 1 /\ effects[i].step < x.k + 1
    BY <2>1, <2>2
  <2>4. x.k + 1 \in 1..Len(steps) + 1
    BY <1>1, <1>8
  <2> QED
    BY <1>3, <1>6, <1>7, <1>8, <2>3, <2>4 DEF InStep, Building, Doing, SamePlan
<1>10. Answering'
  BY <1>1, <1>3, <1>7 DEF Answering, Reached
<1>11. Builds'
  BY <1>1, <1>3, <1>4, <1>6, <1>7, <1>8 DEF Builds, Doing, Releasing, Deploying, Fine, SamePlan, Kind
<1>12. Releases' /\ Deploys'
  BY <1>7 DEF Deploys, Releases, Deploying, Doing
<1>14. SameEffects /\ effects' \in Seq(EffectRecord)
  BY <1>1, <1>3 DEF SameEffects, Types
<1>15. \A i \in DOMAIN effects : steps'[effects[i].step].release = steps[effects[i].step].release
  BY <1>1, <1>6 DEF Placed
<1>16. x'.pc # "done" /\ x'.k \in 1..Len(steps) + 1
  BY <1>1, <1>7, <1>8
<1> QED
  BY <1>1, <1>3, <1>6, <1>7, <1>9, <1>10, <1>11, <1>12, <1>14, <1>15, <1>16, RunKeeps DEF Acts

(* The release is the one that was asked for, and starts nothing by itself *)
LEMMA VerifiedKeeps ==
  ASSUME PlanAssumption, ExecutorInv, Running, Verify, out' = "running"
  PROVE  ExecutorInv'
<1>1. /\ Types /\ InStep /\ Answering /\ Placed /\ Builds /\ Releases
      /\ x \in ExecutorRecord /\ x.k \in 1..Len(steps) + 1 /\ op \in Operations
      /\ Len(steps) \in Nat /\ DOMAIN steps = 1..Len(steps)
      /\ (x.pc # "target" => x.k \in DOMAIN steps)
  BY StepIs
<1>2. PICK f : f = [e \in Envs |-> releases[x.release].envs[e].attempt]
  OBVIOUS
<1>3. /\ effects' = effects /\ Quiet /\ out' = out /\ x.pc = "verify" /\ Deployable(x.release)
      /\ UNCHANGED <<op, builds, releases, flight, got, drift>>
      /\ x' = [x EXCEPT !.pc = "deploy", !.left = Stages, !.base = f]
      /\ steps' = [steps EXCEPT ![x.k].release = x.release]
  BY <1>2 DEF Verify, Raises, FailureOutcome, Ends, Quiet, server, Running, At
<1>4. /\ Fine(x.build, x.k) /\ builds[x.build].result = "succeeded" /\ x.k \in DOMAIN steps
      /\ x.release \in DOMAIN releases /\ x.release \in Nat /\ releases[x.release].target = steps[x.k].target
      /\ \A i \in DOMAIN effects : ~(effects[i].step = x.k /\ Kind(i) = "env_deploy")
  BY <1>1, <1>3 DEF Builds, Releasing, Releases, ExecutorRecord
<1>5. releases[x.release] \in ReleaseRecord
  BY <1>1, <1>4, Indexed DEF Types
<1>6. f \in [Envs -> Nat] /\ Stages \in Seq(Selected)
  <2>1. \A e \in Envs : releases[x.release].envs[e] \in EnvRecord
    BY <1>5 DEF ReleaseRecord
  <2>2. \A e \in Envs : releases[x.release].envs[e].attempt \in Nat
    BY <2>1 DEF EnvRecord
  <2> QED
    BY <1>2, <2>2 DEF PlanAssumption
<1>7. x' \in ExecutorRecord /\ x'.k = x.k /\ x'.pc = "deploy" /\ x'.build = x.build /\ x'.release = x.release
      /\ x'.left = Stages
  BY <1>1, <1>3, <1>6 DEF ExecutorRecord, Pcs
<1>8. PICK k, r : k = x.k /\ r = x.release
  OBVIOUS
<1>9. /\ SamePlan /\ steps' \in Seq(StepRecord) /\ steps'[k].release = r
      /\ \A j \in DOMAIN steps : /\ steps'[j].status = steps[j].status /\ steps'[j].build = steps[j].build
                                 /\ j # k => steps'[j].release = steps[j].release
  <2>1. k \in DOMAIN steps /\ steps' = [steps EXCEPT ![k].release = r] /\ op' = op /\ r \in Nat
    BY <1>1, <1>3, <1>4, <1>8
  <2> QED
    BY <1>1, <2>1, ReleaseSet
<1>10. InStep'
  BY <1>1, <1>3, <1>7, <1>9 DEF InStep, Building, Doing, SamePlan
<1>11. Answering'
  BY <1>1, <1>3, <1>7 DEF Answering, Reached
<1>12. Builds'
  <2>1. Fine(x.build, x.k)'
    <3>1. x'.build = x.build /\ x'.k = x.k /\ builds' = builds /\ steps'[x.k].target = steps[x.k].target
      BY <1>3, <1>4, <1>7, <1>9 DEF SamePlan
    <3>2. Fine(x.build, x.k)
      BY <1>4
    <3> QED
      BY <3>1, <3>2 DEF Fine
  <2> QED
    BY <1>3, <1>4, <1>7, <2>1 DEF Builds, Doing, Releasing, Deploying
<1>13. Releases'
  BY <1>3, <1>4, <1>7, <1>9 DEF Releases, Doing, Deploying, SamePlan
<1>14. Sound(x.release, x.k)
  <2>1. op # "rollback" => \A e \in Unselected : releases[x.release].envs[e].trigger = "manual"
    BY <1>3 DEF Deployable, manual_environment, Envs
  <2>2. releases[x.release].build = x.build
    BY <1>3 DEF Deployable
  <2> QED
    BY <1>4, <2>1, <2>2 DEF Sound
<1>15. Deploys'
  <2>1. Sound(x.release, x.k)'
    <3>1. Grown
      BY <1>3 DEF Grown
    <3>2. k \in DOMAIN steps /\ Sound(r, k)
      BY <1>4, <1>8, <1>14
    <3>3. Sound(r, k)'
      BY <1>1, <1>9, <3>1, <3>2, SoundStays
    <3> QED
      BY <1>7, <1>8, <3>3
  <2>2. \A i, j \in DOMAIN Stages : Stages[i] = Stages[j] => i = j
    BY DEF PlanAssumption
  <2>3. steps'[x'.k].release = x'.release
    BY <1>7, <1>8, <1>9
  <2>4. ~Doing("env_deploy")'
    BY <1>7 DEF Doing
  <2>5. \A i \in DOMAIN effects' : ~(effects'[i].step = x'.k /\ Kind(i)' = "env_deploy")
    BY <1>3, <1>4, <1>7 DEF Kind
  <2> QED
    BY <1>7, <2>1, <2>2, <2>3, <2>4, <2>5 DEF Deploys
<1>16. \A j \in DOMAIN steps : /\ steps'[j].build \in {steps[j].build} \cup DOMAIN builds
                               /\ steps'[j].release \in {steps[j].release} \cup DOMAIN releases
  BY <1>4, <1>8, <1>9
<1>17. SameEffects /\ effects' \in Seq(EffectRecord)
  BY <1>1, <1>3 DEF SameEffects, Types
<1>18. \A i \in DOMAIN effects : Kind(i) = "env_deploy" =>
           steps'[effects[i].step].release = steps[effects[i].step].release
  BY <1>1, <1>4, <1>8, <1>9 DEF Placed
<1>19. x'.pc # "done"
  BY <1>7
<1> QED
  BY <1>1, <1>3, <1>7, <1>9, <1>10, <1>11, <1>12, <1>13, <1>15, <1>16, <1>17, <1>18, <1>19, RunKeeps DEF Acts

LEMMA WaitsKeeps ==
  ASSUME PlanAssumption, ExecutorInv, Running, Deploy, x.left = <<>>
  PROVE  ExecutorInv'
<1>1. /\ Types /\ InStep /\ Answering /\ Placed /\ Builds /\ Releases /\ Deploys
      /\ x \in ExecutorRecord /\ x.k \in 1..Len(steps) + 1 /\ op \in Operations
      /\ Len(steps) \in Nat /\ DOMAIN steps = 1..Len(steps)
      /\ (x.pc # "target" => x.k \in DOMAIN steps)
  BY StepIs
<1>3. /\ effects' = effects /\ steps' = steps /\ Quiet /\ out' = out /\ x.pc = "deploy"
      /\ UNCHANGED <<op, builds, releases, flight, got, drift>>
      /\ x' = [x EXCEPT !.pc = "poll"]
  BY DEF Deploy, Quiet, server, Running, At, Go
<1>4. x' \in ExecutorRecord /\ x'.k = x.k /\ x'.pc = "poll" /\ x'.build = x.build /\ x'.release = x.release
      /\ x'.left = x.left
  BY <1>1, <1>3 DEF ExecutorRecord, Pcs
<1>5. InStep'
  BY <1>1, <1>3, <1>4 DEF InStep, Building, Doing
<1>6. Answering'
  BY <1>1, <1>3, <1>4 DEF Answering, Reached
<1>7. Builds'
  BY <1>1, <1>3, <1>4 DEF Builds, Doing, Releasing, Deploying, Fine
<1>8. Releases'
  BY <1>1, <1>3, <1>4 DEF Releases, Doing, Deploying
<1>9. Deploys'
  BY <1>1, <1>3, <1>4 DEF Deploys, Deploying, Doing, Sound, Fine, Kind, Last
<1>10. x'.pc # "done"
  BY <1>4
<1> QED
  BY <1>1, <1>3, <1>4, <1>5, <1>6, <1>7, <1>8, <1>9, <1>10, Still, RunKeeps DEF Acts

LEMMA TargetKeeps ==
  ASSUME PlanAssumption, ExecutorInv, Running, Poll, out' = "running"
  PROVE  ExecutorInv'
<1>1. /\ Types /\ InStep /\ Answering /\ Placed /\ Builds /\ Releases /\ Deploys
      /\ x \in ExecutorRecord /\ x.k \in 1..Len(steps) + 1 /\ op \in Operations
      /\ Len(steps) \in Nat /\ DOMAIN steps = 1..Len(steps)
      /\ (x.pc # "target" => x.k \in DOMAIN steps)
  BY StepIs
<1>3. /\ effects' = effects /\ Quiet /\ out' = out /\ x.pc = "poll"
      /\ UNCHANGED <<op, builds, releases, flight, got, drift>>
      /\ x' = [x EXCEPT !.pc = "target", !.k = x.k + 1]
      /\ steps' = [steps EXCEPT ![x.k].status = "succeeded"]
  BY DEF Poll, Quiet, server, Running, At, NextStep, EndsAfter, Ends
<1>4. PICK k : k = x.k
  OBVIOUS
<1>5. /\ SamePlan /\ steps' \in Seq(StepRecord) /\ steps'[k].status = "succeeded"
      /\ \A j \in DOMAIN steps : steps'[j].build = steps[j].build /\ steps'[j].release = steps[j].release
  <2>1. k \in DOMAIN steps /\ steps' = [steps EXCEPT ![k].status = "succeeded"] /\ op' = op
    BY <1>1, <1>3, <1>4
  <2> QED
    BY <1>1, <2>1, StatusSet
<1>6. x' \in ExecutorRecord /\ x'.k = x.k + 1 /\ x'.pc = "target"
  <2>1. PICK n \in Nat : n = x.k + 1
    BY <1>1
  <2>2. x' = [x EXCEPT !.pc = "target", !.k = n]
    BY <1>3, <2>1
  <2>3. x' \in ExecutorRecord /\ x'.k = n /\ x'.pc = "target"
    BY <1>1, <2>2 DEF ExecutorRecord, Pcs
  <2> QED
    BY <2>1, <2>3
<1>7. x.k \in DOMAIN steps /\ x.k + 1 \in 1..Len(steps) + 1 /\ steps[x.k].kind # "build"
  <2>1. x.k \in DOMAIN steps /\ steps[x.k].kind # "build"
    BY <1>1, <1>3 DEF InStep, Building, Doing
  <2> QED
    BY <1>1, <2>1
<1>8. x.k + 1 \in DOMAIN steps => (steps[x.k + 1].kind = "build" <=> op = "sync_build_release")
  <2>1. Planned /\ steps \in Seq(StepRecord)
    BY DEF ExecutorInv, Types
  <2>2. CASE op = "sync_build_release"
    BY <1>1, <1>7, <2>1, <2>2, PlanIs
  <2>3. CASE op # "sync_build_release"
    BY <1>1, <1>7, <2>1, <2>3, PlanIs
  <2> QED
    BY <2>2, <2>3
<1>9. InStep'
  <2>1. \A i \in DOMAIN effects : effects[i].step <= x.k /\ effects[i].step \in Nat
    BY <1>1, EffectIs DEF InStep
  <2>2. x.k \in Nat
    BY <1>1
  <2>3. \A i \in DOMAIN effects : effects[i].step <= x.k + 1 /\ effects[i].step < x.k + 1
    BY <2>1, <2>2
  <2> QED
    BY <1>3, <1>5, <1>6, <1>7, <1>8, <2>3 DEF InStep, SamePlan
<1>10. Answering'
  BY <1>1, <1>3, <1>6 DEF Answering, Reached
<1>11. Builds' /\ Releases' /\ Deploys'
  BY <1>6 DEF Builds, Deploys, Releases, Deploying, Releasing, Doing
<1>14. SameEffects /\ effects' \in Seq(EffectRecord)
  BY <1>1, <1>3 DEF SameEffects, Types
<1>15. \A i \in DOMAIN effects : steps'[effects[i].step].release = steps[effects[i].step].release
  BY <1>1, <1>5 DEF Placed
<1>16. x'.pc # "done" /\ x'.k \in 1..Len(steps) + 1
  BY <1>6, <1>7
<1> QED
  BY <1>1, <1>3, <1>5, <1>6, <1>9, <1>10, <1>11, <1>14, <1>15, <1>16, RunKeeps DEF Acts

LEMMA ActsStay ==
  ASSUME Acts, UNCHANGED <<op, builds, releases, flight, got, steps, effects, x>>
  PROVE  Acts'
<1>1. InStep /\ Answering /\ Builds /\ Releases /\ Deploys
  BY DEF Acts
<1>2. InStep' /\ Answering'
  BY <1>1 DEF InStep, Answering, Building, Doing, Kind, Last, Reached
<1>3. Builds'
  BY <1>1 DEF Builds, Doing, Releasing, Deploying, Kind, Last, Fine
<1>4. Releases'
  BY <1>1 DEF Releases, Doing, Deploying, Kind, Last
<1>5. Deploys'
  BY <1>1 DEF Deploys, Deploying, Doing, Kind, Last, Sound, Fine
<1> QED
  BY <1>2, <1>3, <1>4, <1>5 DEF Acts

LEMMA CancelKeeps ==
  ASSUME PlanAssumption, ExecutorInv, Cancel
  PROVE  ExecutorInv'
<1>1. /\ UNCHANGED <<op, builds, releases, flight, got, drift, steps, effects, out, x, y, faults>>
      /\ stop' \in {"no", "asked", "heard"} /\ out = "running"
  BY DEF Cancel, Running, server
<1>2. Types /\ faults \in 0..Faults /\ y.k \in 0..Len(steps) + 1 /\ x.k \in 1..Len(steps) + 1 /\ x.pc # "done"
  BY <1>1 DEF ExecutorInv, ExecutorTypeOK
<1>3. /\ SamePlan /\ SameEffects /\ steps' \in Seq(StepRecord) /\ effects' \in Seq(EffectRecord)
      /\ \A j \in DOMAIN steps : /\ steps'[j].build \in {steps[j].build} \cup DOMAIN builds
                                 /\ steps'[j].release \in {steps[j].release} \cup DOMAIN releases
      /\ \A i \in DOMAIN effects : steps'[effects[i].step].release = steps[effects[i].step].release
  BY <1>1, <1>2, Still
<1>4. Acts'
  BY <1>1, ActsStay DEF ExecutorInv
<1>5. /\ x' \in ExecutorRecord /\ y' \in ReadRecord /\ y'.done \subseteq DOMAIN steps /\ faults' \in 0..Faults
      /\ out' \in {"running", "succeeded", "failed", "cancelled", "unknown"}
      /\ x'.k \in 1..Len(steps) + 1 /\ y'.k \in 0..Len(steps) + 1 /\ (out' = "running" <=> x'.pc # "done")
  BY <1>1, <1>2 DEF Types
<1> QED
  BY <1>1, <1>3, <1>4, <1>5, MoveKeeps

LEMMA ConfirmSet ==
  ASSUME Types, NEW i \in DOMAIN effects, NEW remote \in Nat, Confirm(i, remote),
         Kind(i) = "env_deploy" => effects[i].remote = remote
  PROVE  /\ SameEffects /\ effects' \in Seq(EffectRecord)
         /\ effects'[i].state = "confirmed" /\ effects'[i].remote = remote
         /\ \A j \in DOMAIN effects : j # i => effects'[j] = effects[j]
<1>1. effects[i] \in EffectRecord /\ effects \in Seq(EffectRecord)
  BY Indexed DEF Types
<1> PICK v : v = [effects[i] EXCEPT !.state = "confirmed", !.remote = remote]
  OBVIOUS
<1>2. v \in EffectRecord /\ v.step = effects[i].step /\ v.kind = effects[i].kind /\ v.env = effects[i].env
      /\ v.base = effects[i].base /\ v.state = "confirmed" /\ v.remote = remote
  BY <1>1 DEF EffectRecord
<1>3. effects' = [effects EXCEPT ![i] = v]
  BY <1>1 DEF Confirm, EffectRecord
<1>4. /\ effects' \in Seq(EffectRecord) /\ Len(effects') = Len(effects) /\ DOMAIN effects' = DOMAIN effects
      /\ effects'[i] = v /\ \A j \in DOMAIN effects : j # i => effects'[j] = effects[j]
  BY <1>1, <1>2, <1>3, Replaced
<1> QED
  BY <1>2, <1>4 DEF SameEffects, Kind

LEMMA ReceiptKeeps ==
  ASSUME PlanAssumption, ExecutorInv, Running, Receipt
  PROVE  ExecutorInv'
<1>1. /\ Types /\ InStep /\ Answering /\ Placed /\ Builds /\ Releases /\ Deploys /\ Once
      /\ x \in ExecutorRecord /\ x.k \in 1..Len(steps) + 1 /\ op \in Operations
      /\ Len(steps) \in Nat /\ DOMAIN steps = 1..Len(steps)
      /\ (x.pc # "target" => x.k \in DOMAIN steps)
  BY StepIs
<1>2. PICK i : i = Last
  OBVIOUS
<1>3. /\ steps' = steps /\ Quiet /\ out' = out /\ x.pc = "receipt"
      /\ UNCHANGED <<op, builds, releases, flight, got, drift>>
      /\ \/ Kind(i) = "build_create" /\ Confirm(i, x.build) /\ x' = [x EXCEPT !.pc = "created"]
         \/ Kind(i) = "build_cancel" /\ Confirm(i, x.build) /\ x' = [x EXCEPT !.pc = "wait", !.stopping = TRUE]
         \/ Kind(i) = "release_create" /\ Confirm(i, x.release) /\ x' = [x EXCEPT !.pc = "verify"]
         \/ Kind(i) = "env_deploy" /\ Confirm(i, x.release) /\ x' = [x EXCEPT !.pc = "deploy", !.left = Tail(x.left)]
  BY <1>2 DEF Receipt, Quiet, server, Running, At, Go, Last, Kind
<1>4. i \in DOMAIN effects /\ effects[i].step = x.k /\ x.build \in Nat /\ x.release \in Nat /\ x.k \in DOMAIN steps
      /\ (Doing(Kind(i)) /\ \A kind : Doing(kind) <=> kind = Kind(i))
  BY <1>1, <1>2, <1>3 DEF Answering, ExecutorRecord, Doing
<1>5. CASE Kind(i) = "build_create"
  <2>1. Confirm(i, x.build) /\ x' = [x EXCEPT !.pc = "created"]
    BY <1>3, <1>5
  <2>2. SameEffects /\ effects' \in Seq(EffectRecord)
    BY <1>1, <1>4, <1>5, <2>1, ConfirmSet
  <2>3. x' \in ExecutorRecord /\ x'.k = x.k /\ x'.pc = "created" /\ x'.build = x.build
    BY <1>1, <2>1 DEF ExecutorRecord, Pcs
  <2>4. InStep'
    BY <1>1, <1>3, <1>4, <1>5, <2>2, <2>3 DEF InStep, Building, SameEffects
  <2>5. Answering'
    BY <1>1, <1>3, <2>2, <2>3 DEF Answering, Reached, SameEffects
  <2>6. Builds'
    BY <1>1, <1>3, <1>4, <1>5, <2>2, <2>3 DEF Builds, Releasing, Deploying, Doing, Fine, SameEffects, Kind
  <2>7. Releases' /\ Deploys'
    BY <2>3 DEF Deploys, Releases, Deploying, Doing
  <2>8. x'.pc # "done"
    BY <2>3
  <2> QED
    BY <1>1, <1>3, <2>2, <2>3, <2>4, <2>5, <2>6, <2>7, <2>8, RunKeeps DEF Acts, SamePlan, Types
<1>6. CASE Kind(i) = "build_cancel"
  <2>1. Confirm(i, x.build) /\ x' = [x EXCEPT !.pc = "wait", !.stopping = TRUE]
    BY <1>3, <1>6
  <2>2. SameEffects /\ effects' \in Seq(EffectRecord)
    BY <1>1, <1>4, <1>6, <2>1, ConfirmSet
  <2>3. x' \in ExecutorRecord /\ x'.k = x.k /\ x'.pc = "wait" /\ x'.build = x.build /\ x'.stopping
    BY <1>1, <2>1 DEF ExecutorRecord, Pcs
  <2>4. InStep'
    BY <1>1, <1>3, <1>4, <1>6, <2>2, <2>3 DEF InStep, Building, SameEffects
  <2>5. Answering'
    BY <1>1, <1>3, <2>2, <2>3 DEF Answering, Reached, SameEffects
  <2>6. Builds'
    BY <1>1, <1>3, <1>4, <1>6, <2>2, <2>3 DEF Builds, Releasing, Deploying, Doing, Fine, SameEffects, Kind
  <2>7. Releases' /\ Deploys'
    BY <2>3 DEF Deploys, Releases, Deploying, Doing
  <2>8. x'.pc # "done"
    BY <2>3
  <2> QED
    BY <1>1, <1>3, <2>2, <2>3, <2>4, <2>5, <2>6, <2>7, <2>8, RunKeeps DEF Acts, SamePlan, Types
<1>7. CASE Kind(i) = "release_create"
  <2>1. Confirm(i, x.release) /\ x' = [x EXCEPT !.pc = "verify"]
    BY <1>3, <1>7
  <2>2. SameEffects /\ effects' \in Seq(EffectRecord)
    BY <1>1, <1>4, <1>7, <2>1, ConfirmSet
  <2>3. x' \in ExecutorRecord /\ x'.k = x.k /\ x'.pc = "verify" /\ x'.build = x.build /\ x'.release = x.release
    BY <1>1, <2>1 DEF ExecutorRecord, Pcs
  <2>4. InStep'
    BY <1>1, <1>3, <1>4, <1>7, <2>2, <2>3 DEF InStep, Building, SameEffects, Doing
  <2>5. Answering'
    BY <1>1, <1>3, <2>2, <2>3 DEF Answering, Reached, SameEffects
  <2>6. Builds'
    BY <1>1, <1>3, <1>4, <1>7, <2>2, <2>3 DEF Builds, Releasing, Deploying, Doing, Fine, SameEffects, Kind
  <2>7. Releases'
    BY <1>1, <1>3, <1>4, <1>7, <2>2, <2>3 DEF Releases, Deploying, Doing, SameEffects, Kind
  <2>8. Deploys'
    BY <2>3 DEF Deploys, Deploying, Doing
  <2>9. x'.pc # "done"
    BY <2>3
  <2> QED
    BY <1>1, <1>3, <2>2, <2>3, <2>4, <2>5, <2>6, <2>7, <2>8, <2>9, RunKeeps DEF Acts, SamePlan, Types
<1>8. CASE Kind(i) = "env_deploy"
  <2>0. PICK tail : tail = Tail(x.left)
    OBVIOUS
  <2>1. Confirm(i, x.release) /\ x' = [x EXCEPT !.pc = "deploy", !.left = tail]
    BY <1>3, <1>8, <2>0
  <2>9. /\ Deploying /\ Doing("env_deploy") /\ x.left # <<>> /\ effects[i].env = Head(x.left)
        /\ effects[i].remote = x.release /\ x.left \in Seq(Selected)
    BY <1>1, <1>2, <1>4, <1>8 DEF Deploying, Deploys, ExecutorRecord
  <2>2. SameEffects /\ effects' \in Seq(EffectRecord)
    BY <1>1, <1>4, <1>8, <2>1, <2>9, ConfirmSet
  <2>10. /\ tail \in Seq(Selected) /\ \A n \in DOMAIN tail : n + 1 \in DOMAIN x.left /\ tail[n] = x.left[n + 1]
         /\ 1 \in DOMAIN x.left /\ Head(x.left) = x.left[1] /\ \A n \in DOMAIN tail : n \in Nat /\ n # 0
    BY <2>0, <2>9
  <2>3. x' \in ExecutorRecord /\ x'.k = x.k /\ x'.pc = "deploy" /\ x'.build = x.build /\ x'.release = x.release
        /\ x'.left = tail
    BY <1>1, <2>1, <2>10 DEF ExecutorRecord, Pcs
  <2>4. InStep'
    BY <1>1, <1>3, <1>4, <1>8, <2>2, <2>3 DEF InStep, Building, SameEffects, Doing
  <2>5. Answering'
    BY <1>1, <1>3, <2>2, <2>3 DEF Answering, Reached, SameEffects
  <2>6. Builds'
    BY <1>1, <1>3, <1>4, <1>8, <2>2, <2>3, <2>9 DEF Builds, Releasing, Deploying, Doing, Fine, SameEffects, Kind
  <2>7. Releases'
    BY <1>1, <1>3, <1>4, <1>8, <2>2, <2>3, <2>9 DEF Releases, Deploying, Doing, SameEffects, Kind
  <2>8. Deploys'
    <3>1. Sound(x.release, x.k)'
      BY <1>1, <1>3, <2>3, <2>9 DEF Deploys, Sound, Fine
    <3>2. \A m, n \in DOMAIN tail : tail[m] = tail[n] => m = n
      <4>1. \A m, n \in DOMAIN x.left : x.left[m] = x.left[n] => m = n
        BY <1>1, <2>9 DEF Deploys
      <4>2. \A m, n \in DOMAIN tail : m + 1 = n + 1 => m = n
        BY <2>10
      <4> QED
        BY <2>10, <4>1, <4>2
    <3>3. ~Doing("env_deploy")'
      BY <2>3 DEF Doing
    <3>4. ASSUME NEW j \in DOMAIN effects, effects[j].step = x.k, Kind(j) = "env_deploy"
          PROVE  \A n \in DOMAIN tail : tail[n] # effects[j].env
      <4>1. CASE j = i
        <5>1. \A m, n \in DOMAIN x.left : x.left[m] = x.left[n] => m = n
          BY <1>1, <2>9 DEF Deploys
        <5>2. \A n \in DOMAIN tail : n + 1 # 1
          BY <2>10
        <5> QED
          BY <2>9, <2>10, <4>1, <5>1, <5>2
      <4>2. CASE j # i
        <5>1. \A n \in DOMAIN x.left : x.left[n] # effects[j].env
          BY <1>1, <1>2, <2>9, <3>4, <4>2 DEF Deploys
        <5> QED
          BY <2>10, <5>1
      <4> QED
        BY <4>1, <4>2
    <3>5. steps[x.k].release = x.release
      BY <1>1, <2>9 DEF Deploys
    <3>6. \A j \in DOMAIN effects' : effects'[j].step = x'.k /\ Kind(j)' = "env_deploy" =>
            \A n \in DOMAIN x'.left : x'.left[n] # effects'[j].env
      BY <2>2, <2>3, <3>4 DEF SameEffects, Kind
    <3> QED
      BY <1>3, <2>3, <3>1, <3>2, <3>3, <3>5, <3>6 DEF Deploys
  <2>11. x'.pc # "done"
    BY <2>3
  <2> QED
    BY <1>1, <1>3, <2>2, <2>3, <2>4, <2>5, <2>6, <2>7, <2>8, <2>11, RunKeeps DEF Acts, SamePlan, Types
<1> QED
  BY <1>3, <1>5, <1>6, <1>7, <1>8

(* A write is journalled before it is asked for                            *)
LEMMA IntentKeeps ==
  ASSUME PlanAssumption, ExecutorInv, Running, Quiet \/ Steady, out' = out, steps' = steps,
         NEW f \in EffectRecord, effects' = Append(effects, f), x' = [x EXCEPT !.pc = "send"],
         f.step = x.k, x.k \in DOMAIN steps, x.pc \notin {"send", "receipt"},
         \A i \in DOMAIN effects : effects[i].step = x.k /\ Kind(i) = f.kind => effects[i].env # f.env,
         f.kind \in {"build_create", "build_cancel"} <=> steps[x.k].kind = "build",
         f.kind # "env_deploy" => f.env = "-",
         f.kind = "env_deploy" =>
           Deploying /\ f.remote = x.release /\ x.left # <<>> /\ f.env = Head(x.left),
         f.kind = "build_cancel" => Fine(x.build, x.k),
         f.kind \in {"release_create", "env_deploy"} => Fine(x.build, x.k) /\ builds[x.build].result = "succeeded",
         f.kind = "build_create" => \A i \in DOMAIN effects : ~(effects[i].step = x.k /\ Kind(i) = "build_cancel"),
         f.kind = "release_create" => \A i \in DOMAIN effects : ~(effects[i].step = x.k /\ Kind(i) = "env_deploy")
  PROVE  ExecutorInv'
<1>1. /\ Types /\ InStep /\ Answering /\ Placed /\ Builds /\ Releases /\ Deploys /\ Once /\ DeploySound /\ Given
      /\ x \in ExecutorRecord /\ x.k \in 1..Len(steps) + 1 /\ op \in Operations
      /\ Len(steps) \in Nat /\ DOMAIN steps = 1..Len(steps)
  BY StepIs
<1>2. /\ UNCHANGED <<op, builds, releases, flight, got, drift, stop, y>> /\ out = "running" /\ x.pc # "done"
      /\ faults' \in {faults} \cup 0..Faults
  BY DEF Quiet, Steady, server, Running
<1>3. x' \in ExecutorRecord /\ x'.k = x.k /\ x'.pc = "send" /\ x'.build = x.build /\ x'.release = x.release
      /\ x'.left = x.left
  BY <1>1 DEF ExecutorRecord, Pcs
<1>4. /\ effects' \in Seq(EffectRecord) /\ Len(effects') = Last + 1 /\ Last' = Last + 1
      /\ DOMAIN effects' = DOMAIN effects \cup {Last + 1} /\ Last + 1 \notin DOMAIN effects
      /\ effects'[Last + 1] = f /\ \A i \in DOMAIN effects : effects'[i] = effects[i]
  BY <1>1, Appended DEF Types, Last
<1>5. /\ \A i \in DOMAIN effects : Kind(i)' = Kind(i)
      /\ Kind(Last)' = f.kind /\ \A kind : Doing(kind)' <=> kind = f.kind
  BY <1>3, <1>4 DEF Kind, Doing
<1>6. Grown /\ SamePlan /\ Types'
  BY <1>1, <1>2, <1>3, <1>4 DEF Grown, SamePlan, Types
<1>7. RowsOK'
  <2>1. \A i \in DOMAIN effects' : effects'[i].step \in DOMAIN steps
    BY <1>1, <1>4 DEF Placed
  <2>2. RowsOK
    BY DEF ExecutorInv, ExecutorTypeOK
  <2> QED
    BY <1>1, <1>6, <2>1, <2>2, RowsKept
<1>8. ExecutorTypeOK'
  <2>1. ExecutorTypeOK
    BY DEF ExecutorInv
  <2> QED
    BY <1>2, <1>3, <1>4, <1>7, <2>1 DEF ExecutorTypeOK
<1>9. Planned' /\ Given'
  <2>1. Planned /\ op' = op
    BY <1>2 DEF ExecutorInv
  <2> QED
    BY <1>1, <1>6, <2>1, PlannedKept, GivenKept
<1>10. Once'
  <2>1. ASSUME NEW i \in DOMAIN effects', NEW j \in DOMAIN effects',
               effects'[i].step = effects'[j].step /\ Kind(i)' = Kind(j)' /\ effects'[i].env = effects'[j].env
        PROVE i = j
    <3>1. CASE i \in DOMAIN effects /\ j \in DOMAIN effects
      BY <1>1, <1>4, <1>5, <2>1, <3>1 DEF Once
    <3>2. CASE i = Last + 1 /\ j \in DOMAIN effects
      BY <1>4, <1>5, <2>1, <3>2 DEF Kind
    <3>3. CASE i \in DOMAIN effects /\ j = Last + 1
      BY <1>4, <1>5, <2>1, <3>3 DEF Kind
    <3> QED
      BY <1>4, <3>1, <3>2, <3>3
  <2>2. (\A m, n \in DOMAIN got : got[m] = got[n] => m = n) /\ flight' = {}
    BY <1>1, <1>2 DEF Once, Answering
  <2> QED
    BY <1>2, <2>1, <2>2 DEF Once
<1>11. f.kind = "env_deploy" => Sound(x.release, x.k) /\ steps[x.k].release = x.release /\ f.env \in Selected
  <2>1. ASSUME x.left # <<>> PROVE Head(x.left) \in Selected
    BY <1>1, <2>1 DEF ExecutorRecord
  <2> QED
    BY <1>1, <2>1 DEF Deploys
<1>12. Placed' /\ DeploySound'
  <2>1. Placed'
    BY <1>1, <1>2, <1>4, <1>5 DEF Placed, Kind
  <2>2. ASSUME NEW i \in DOMAIN effects', Kind(i)' = "env_deploy"
        PROVE  /\ effects'[i].env \in Selected /\ steps'[effects'[i].step].release = effects'[i].remote
               /\ Sound(effects[i].remote, effects[i].step)'
    <3>1. CASE i \in DOMAIN effects
      <4>1. effects[i].env \in Selected /\ steps[effects[i].step].release = effects[i].remote
            /\ Sound(effects[i].remote, effects[i].step) /\ effects'[i] = effects[i]
        BY <1>1, <1>4, <1>5, <2>2, <3>1 DEF DeploySound
      <4> QED
        BY <1>2, <4>1 DEF Sound, Fine
    <3>2. CASE i = Last + 1
      <4>1. f.kind = "env_deploy" /\ effects'[i] = f
        BY <1>4, <2>2, <3>2 DEF Kind
      <4>2. f.env \in Selected /\ steps[f.step].release = f.remote /\ Sound(f.remote, f.step)
        BY <1>11, <4>1
      <4> QED
        BY <1>2, <4>1, <4>2 DEF Sound, Fine
    <3> QED
      BY <1>4, <3>1, <3>2
  <2> QED
    BY <2>1, <2>2 DEF DeploySound
<1>13. InStep'
  <2>1. /\ steps[x.k].kind = "build" <=> f.kind \in {"build_create", "build_cancel"}
    OBVIOUS
  <2>2. Building' <=> f.kind \in {"build_create", "build_cancel"}
    BY <1>3, <1>5 DEF Building
  <2>3. \A i \in DOMAIN effects' : effects'[i].step <= x.k
    BY <1>1, <1>4 DEF InStep
  <2> QED
    BY <1>1, <1>2, <1>3, <2>1, <2>2, <2>3 DEF InStep
<1>14. Answering'
  <2>1. \A n \in DOMAIN got : got[n] \in DOMAIN effects
    BY DEF ExecutorInv, ExecutorTypeOK
  <2>2. \A i \in DOMAIN effects : Reached(i)
    BY <1>1 DEF Answering
  <2>3. ~Reached(Last + 1) /\ \A i \in DOMAIN effects' : i # Last + 1 => Reached(i)
    BY <1>4, <2>1, <2>2 DEF Reached
  <2>4. \A i : Reached(i)' <=> Reached(i)
    BY <1>2 DEF Reached
  <2> QED
    BY <1>1, <1>2, <1>3, <1>4, <2>3, <2>4 DEF Answering
<1>15. Builds'
  <2>1. Fine(x.build, x.k)' <=> Fine(x.build, x.k)
    BY <1>2, <1>3 DEF Fine
  <2>2. Doing("build_create")' => \A i \in DOMAIN effects' : ~(effects'[i].step = x'.k /\ Kind(i)' = "build_cancel")
    BY <1>3, <1>4, <1>5 DEF Kind
  <2>3. /\ Doing("build_cancel")' <=> f.kind = "build_cancel"
        /\ (Releasing \/ Deploying)' <=> f.kind \in {"release_create", "env_deploy"}
    BY <1>3, <1>5 DEF Releasing, Deploying
  <2> QED
    BY <1>2, <1>3, <2>1, <2>2, <2>3 DEF Builds
<1>16. Releases'
  <2>1. Deploying' <=> f.kind = "env_deploy"
    BY <1>3, <1>5 DEF Deploying
  <2>2. f.kind = "env_deploy" => x.release \in DOMAIN releases /\ releases[x.release].target = steps[x.k].target
    BY <1>1 DEF Releases
  <2>3. Doing("release_create")' => \A i \in DOMAIN effects' : ~(effects'[i].step = x'.k /\ Kind(i)' = "env_deploy")
    BY <1>3, <1>4, <1>5 DEF Kind
  <2> QED
    BY <1>2, <1>3, <2>1, <2>2, <2>3 DEF Releases
<1>17. Deploys'
  <2>1. Deploying' <=> f.kind = "env_deploy"
    BY <1>3, <1>5 DEF Deploying
  <2>2. SUFFICES ASSUME f.kind = "env_deploy"
                 PROVE  Deploys'
    BY <2>1 DEF Deploys
  <2>3. Sound(x.release, x.k)' /\ steps'[x'.k].release = x'.release
    BY <1>2, <1>3, <1>11, <2>2 DEF Sound, Fine
  <2>4. \A i, j \in DOMAIN x'.left : x'.left[i] = x'.left[j] => i = j
    BY <1>1, <1>3, <2>2 DEF Deploys
  <2>5. x'.left # <<>> /\ effects'[Last'].env = Head(x'.left) /\ effects'[Last'].remote = x'.release
    BY <1>3, <1>4, <2>2
  <2>6. ASSUME NEW i \in DOMAIN effects', effects'[i].step = x'.k /\ Kind(i)' = "env_deploy", i # Last'
        PROVE  \A n \in DOMAIN x'.left : x'.left[n] # effects'[i].env
    <3>1. i \in DOMAIN effects /\ effects[i].step = x.k /\ Kind(i) = "env_deploy" /\ effects'[i] = effects[i]
      BY <1>3, <1>4, <1>5, <2>6
    <3>2. ~Doing("env_deploy")
      BY DEF Doing
    <3> QED
      BY <1>1, <1>3, <2>2, <3>1, <3>2 DEF Deploys
  <2>7. Doing("env_deploy")'
    BY <1>5, <2>2
  <2> QED
    BY <2>3, <2>4, <2>5, <2>6, <2>7 DEF Deploys
<1>18. out' = "running" /\ x'.pc # "done"
  BY <1>2, <1>3
<1> QED
  BY <1>6, <1>8, <1>9, <1>10, <1>12, <1>13, <1>14, <1>15, <1>16, <1>17, <1>18 DEF ExecutorInv, Acts

LEMMA IntentIs ==
  ASSUME ExecutorInv, Running, NEW kind, NEW remote \in Nat, NEW env, NEW base \in Nat,
         kind \in {"build_create", "build_cancel", "release_create", "env_deploy"}, env \in Envs \cup {"-"},
         effects' = Append(effects, [step |-> x.k, kind |-> kind, state |-> "intent",
                                     remote |-> remote, env |-> env, base |-> base])
  PROVE  \E f \in EffectRecord :
           /\ f.kind = kind /\ f.step = x.k /\ f.state = "intent" /\ f.remote = remote /\ f.env = env /\ f.base = base
           /\ effects' = Append(effects, f)
<1> PICK f : f = [step |-> x.k, kind |-> kind, state |-> "intent", remote |-> remote, env |-> env, base |-> base]
  OBVIOUS
<1>1. x.k \in Nat
  BY StepIs DEF ExecutorRecord
<1>2. f \in EffectRecord
  BY <1>1 DEF EffectRecord
<1> QED
  BY <1>2

LEMMA AsksBuildKeeps ==
  ASSUME PlanAssumption, ExecutorInv, Running, At("acquire"), Intent("build_create", 0, "-", 0),
         UNCHANGED <<steps, out>>, Steady
  PROVE  ExecutorInv'
<1>1. /\ Types /\ InStep /\ x \in ExecutorRecord
      /\ (x.pc # "target" => x.k \in DOMAIN steps)
  BY StepIs
<1>2. x.pc = "acquire" /\ steps' = steps /\ out' = out /\ Steady
      /\ x' = [x EXCEPT !.pc = "send"]
      /\ effects' = Append(effects, [step |-> x.k, kind |-> "build_create", state |-> "intent",
                                        remote |-> 0, env |-> "-", base |-> 0])
  BY DEF At, Intent, Go
<1>3. PICK f \in EffectRecord :
           /\ f.kind = "build_create" /\ f.step = x.k /\ f.env = "-"
           /\ effects' = Append(effects, f)
  BY <1>2, IntentIs
<1>4. \A i \in DOMAIN effects : effects[i].step # x.k
  BY <1>1, <1>2, EffectIs DEF InStep, ExecutorRecord
<1>5. x.k \in DOMAIN steps /\ steps[x.k].kind = "build" /\ x.pc \notin {"send", "receipt"}
  BY <1>1, <1>2 DEF InStep, Building
<1> QED
  BY <1>2, <1>3, <1>4, <1>5, IntentKeeps

LEMMA AcquireKeeps ==
  ASSUME PlanAssumption, ExecutorInv, Running, Acquire
  PROVE  ExecutorInv'
<1>1. PICK skipped \in SUBSET Candidates :
        /\ faults' = faults - Cardinality(skipped) /\ faults' \in Nat
        /\ \/ skipped # Candidates /\ Reuses(Max(Candidates \ skipped)) /\ UNCHANGED effects
           \/ skipped = Candidates /\ Intent("build_create", 0, "-", 0) /\ UNCHANGED steps
  BY DEF Acquire
<1>2. At("acquire") /\ Steady /\ UNCHANGED out
  BY <1>1, Skips DEF Acquire, Steady
<1>3. CASE Reuses(Max(Candidates \ skipped)) /\ UNCHANGED effects /\ skipped # Candidates
  <2>1. Candidates \ skipped \in SUBSET Candidates /\ Candidates \ skipped # {}
    BY <1>3
  <2> QED
    BY <1>2, <1>3, <2>1, ReusesKeeps
<1>4. CASE Intent("build_create", 0, "-", 0) /\ UNCHANGED steps
  BY <1>2, <1>4, AsksBuildKeeps
<1> QED
  BY <1>1, <1>3, <1>4

LEMMA AsksCancelKeeps ==
  ASSUME PlanAssumption, ExecutorInv, Running, WaitBuild, ~Completed(builds[x.build]), out' = "running"
  PROVE  ExecutorInv'
<1>1. /\ Types /\ InStep /\ Builds /\ x \in ExecutorRecord
      /\ (x.pc # "target" => x.k \in DOMAIN steps) /\ Placed
  BY StepIs
<1>2. x.pc = "wait" /\ steps' = steps /\ out' = out /\ Quiet /\ ~x.stopping
      /\ x' = [x EXCEPT !.pc = "send"]
      /\ effects' = Append(effects, [step |-> x.k, kind |-> "build_cancel", state |-> "intent",
                                        remote |-> x.build, env |-> "-", base |-> 0])
  BY DEF WaitBuild, At, Usable, Completed, EndsAfter, Ends, Intent, Go
<1>0. x.build \in Nat
  BY <1>1 DEF ExecutorRecord
<1>3. PICK f \in EffectRecord :
           /\ f.kind = "build_cancel" /\ f.step = x.k /\ f.env = "-"
           /\ effects' = Append(effects, f)
  BY <1>0, <1>2, IntentIs
<1>4. \A i \in DOMAIN effects : ~(effects[i].step = x.k /\ Kind(i) = "build_cancel")
  BY <1>1, <1>2 DEF Builds
<1>5. x.k \in DOMAIN steps /\ steps[x.k].kind = "build" /\ x.pc \notin {"send", "receipt"} /\ Fine(x.build, x.k)
  BY <1>1, <1>2 DEF InStep, Building, Builds
<1> QED
  BY <1>2, <1>3, <1>4, <1>5, IntentKeeps

LEMMA AsksReleaseKeeps ==
  ASSUME PlanAssumption, ExecutorInv, Running, Bind, out' = "running"
  PROVE  ExecutorInv'
<1>1. /\ Types /\ InStep /\ Builds /\ x \in ExecutorRecord
      /\ (x.pc # "target" => x.k \in DOMAIN steps) /\ Placed
  BY StepIs
<1>0. x.build \in Nat
  BY <1>1 DEF ExecutorRecord
<1>2. x.pc = "bind" /\ steps' = steps /\ out' = out /\ Quiet
      /\ x' = [x EXCEPT !.pc = "send"]
      /\ effects' = Append(effects, [step |-> x.k, kind |-> "release_create", state |-> "intent",
                                        remote |-> 0, env |-> "-", base |-> x.build])
  BY DEF Bind, At, Raises, Ends, FailureOutcome, Intent, Go
<1>3. PICK f \in EffectRecord :
           /\ f.kind = "release_create" /\ f.step = x.k /\ f.env = "-"
           /\ effects' = Append(effects, f)
  BY <1>0, <1>2, IntentIs
<1>4. \A i \in DOMAIN effects : effects[i].step # x.k
  BY <1>1, <1>2, EffectIs DEF InStep, ExecutorRecord
<1>5. x.k \in DOMAIN steps /\ steps[x.k].kind # "build" /\ x.pc \notin {"send", "receipt"}
      /\ Fine(x.build, x.k) /\ builds[x.build].result = "succeeded"
  BY <1>1, <1>2 DEF InStep, Building, Builds, Doing, Releasing
<1> QED
  BY <1>2, <1>3, <1>4, <1>5, IntentKeeps

LEMMA AsksDeployKeeps ==
  ASSUME PlanAssumption, ExecutorInv, Running, Deploy, x.left # <<>>, out' = "running"
  PROVE  ExecutorInv'
<1>1. /\ Types /\ InStep /\ Builds /\ Deploys /\ x \in ExecutorRecord
      /\ (x.pc # "target" => x.k \in DOMAIN steps) /\ Placed
  BY StepIs
<1>0. PICK e, b : e = Head(x.left) /\ b = x.base[Head(x.left)]
  OBVIOUS
<1>2. x.pc = "deploy" /\ steps' = steps /\ out' = out /\ Quiet
      /\ x' = [x EXCEPT !.pc = "send"]
      /\ effects' = Append(effects, [step |-> x.k, kind |-> "env_deploy", state |-> "intent",
                                        remote |-> x.release, env |-> e, base |-> b])
  BY <1>0 DEF Deploy, At, EndsAfter, Ends, Intent, Go
<1>6. e \in Selected /\ e \in Envs /\ b \in Nat /\ x.release \in Nat /\ e = x.left[1] /\ 1 \in DOMAIN x.left
  <2>1. x.left \in Seq(Selected) /\ x.base \in [Envs -> Nat] /\ x.release \in Nat
    BY <1>1 DEF ExecutorRecord
  <2>2. e \in Selected /\ e = x.left[1] /\ 1 \in DOMAIN x.left
    BY <1>0, <2>1
  <2> QED
    BY <1>0, <2>1, <2>2 DEF Envs
<1>3. PICK f \in EffectRecord :
           /\ f.kind = "env_deploy" /\ f.step = x.k /\ f.env = e /\ f.remote = x.release
           /\ effects' = Append(effects, f)
  BY <1>2, <1>6, IntentIs
<1>4. \A i \in DOMAIN effects : effects[i].step = x.k /\ Kind(i) = "env_deploy" => effects[i].env # e
  <2>1. Deploying /\ ~Doing("env_deploy")
    BY <1>2 DEF Deploying, Doing
  <2> QED
    BY <1>1, <1>6, <2>1 DEF Deploys
<1>5. x.k \in DOMAIN steps /\ steps[x.k].kind # "build" /\ x.pc \notin {"send", "receipt"} /\ Deploying
      /\ Fine(x.build, x.k) /\ builds[x.build].result = "succeeded"
  BY <1>1, <1>2 DEF InStep, Building, Builds, Doing, Deploying
<1> QED
  BY <1>0, <1>2, <1>3, <1>4, <1>5, IntentKeeps

-----------------------------------------------------------------------------
(* The request is answered                                                 *)
LEMMA AnsweredKeeps ==
  ASSUME PlanAssumption, ExecutorInv, Running, Send, out' = "running"
  PROVE  ExecutorInv'
<1>1. /\ Types /\ InStep /\ Answering /\ Placed /\ Builds /\ Releases /\ Deploys /\ Once /\ DeploySound /\ Given
      /\ x \in ExecutorRecord /\ x.k \in 1..Len(steps) + 1 /\ op \in Operations
      /\ Len(steps) \in Nat /\ DOMAIN steps = 1..Len(steps)
      /\ (x.pc # "target" => x.k \in DOMAIN steps)
  BY StepIs
<1>2. PICK i : i = Last
  OBVIOUS
<1>3. /\ UNCHANGED <<op, flight, drift, steps, effects, stop, y, faults>> /\ out = "running" /\ x.pc = "send"
      /\ Perform(i) /\ Answered(i)
  BY <1>2 DEF Send, At, Running, Last, Ends
<1>4. i \in DOMAIN effects /\ effects[i].step = x.k /\ x.k \in DOMAIN steps /\ ~Reached(i)
      /\ (\A j \in DOMAIN effects : j # i => Reached(j))
      /\ \A kind : Doing(kind) <=> kind = Kind(i)
  BY <1>1, <1>2, <1>3 DEF Answering, Doing
<1>5. /\ Grown /\ builds' \in Seq(BuildRecord) /\ releases' \in Seq(ReleaseRecord)
      /\ got' \in Seq(Nat) /\ DOMAIN got' = DOMAIN got \cup {Len(got) + 1} /\ Len(got) + 1 \notin DOMAIN got
      /\ got'[Len(got) + 1] = i /\ \A n \in DOMAIN got : got'[n] = got[n]
      /\ Kind(i) = "build_create" =>
              /\ Len(builds) + 1 \in DOMAIN builds' /\ builds'[Len(builds) + 1].fits
              /\ builds'[Len(builds) + 1].target = steps[effects[i].step].target
      /\ Kind(i) = "release_create" =>
              /\ Len(releases) + 1 \in DOMAIN releases'
              /\ releases'[Len(releases) + 1].target = steps[effects[i].step].target
  BY <1>1, <1>3, <1>4, Performed
<1>6. /\ x' \in ExecutorRecord /\ x'.k = x.k /\ x'.pc = "receipt" /\ x'.left = x.left
      /\ x'.build = IF Kind(i) = "build_create" THEN Len(builds) + 1 ELSE x.build
      /\ x'.release = IF Kind(i) = "release_create" THEN Len(releases) + 1 ELSE x.release
  <2>1. PICK b, r : /\ b = IF Kind(i) = "build_create" THEN Len(builds) + 1 ELSE x.build
                    /\ r = IF Kind(i) = "release_create" THEN Len(releases) + 1 ELSE x.release
    OBVIOUS
  <2>2. b \in Nat /\ r \in Nat
    <3>1. Len(builds) \in Nat /\ Len(releases) \in Nat /\ x.build \in Nat /\ x.release \in Nat
      BY <1>1, Indexed DEF Types, ExecutorRecord
    <3> QED
      BY <2>1, <3>1
  <2>3. x' = [x EXCEPT !.pc = "receipt", !.build = b, !.release = r]
    BY <1>3, <2>1 DEF Answered, Kind
  <2>4. x' \in ExecutorRecord /\ x'.k = x.k /\ x'.pc = "receipt" /\ x'.left = x.left /\ x'.build = b /\ x'.release = r
    BY <1>1, <2>2, <2>3 DEF ExecutorRecord, Pcs
  <2> QED
    BY <2>1, <2>4
<1>7. SamePlan /\ SameEffects /\ Types'
  BY <1>1, <1>3, <1>5, <1>6 DEF SamePlan, SameEffects, Types
<1>8. RowsOK' /\ ExecutorTypeOK'
  <2>1. ExecutorTypeOK /\ RowsOK
    BY DEF ExecutorInv, ExecutorTypeOK
  <2>2. RowsOK'
    BY <1>1, <1>3, <1>5, <1>7, <2>1, RowsKept DEF Placed
  <2>3. \A n \in DOMAIN got' : got'[n] \in DOMAIN effects'
    BY <1>3, <1>4, <1>5, <2>1 DEF ExecutorTypeOK
  <2> QED
    BY <1>3, <1>6, <2>1, <2>2, <2>3 DEF ExecutorTypeOK
<1>9. Planned' /\ Given' /\ DeploySound' /\ Placed'
  <2>1. Planned /\ op' = op
    BY <1>3 DEF ExecutorInv
  <2> QED
    BY <1>1, <1>3, <1>5, <1>7, <2>1, PlannedKept, GivenKept, SoundKeeps DEF Placed
<1>10. /\ \A j : Reached(j)' <=> (Reached(j) \/ j = i)
       /\ \A m, n \in DOMAIN got' : got'[m] = got'[n] => m = n
  BY <1>1, <1>3, <1>4, <1>5, ReachedIs
<1>11. Once' /\ flight' = {}
  BY <1>1, <1>3, <1>10 DEF Once, Kind, Answering
<1>12. /\ \A j \in DOMAIN effects : Kind(j)' = Kind(j)
       /\ Last' = Last /\ \A kind : Doing(kind)' <=> kind = Kind(i)
  BY <1>2, <1>3, <1>4, <1>6 DEF Kind, Doing, Last
<1>13. InStep'
  BY <1>1, <1>3, <1>4, <1>6, <1>12 DEF InStep, Building
<1>14. Answering'
  BY <1>2, <1>3, <1>4, <1>6, <1>10, <1>11, <1>12 DEF Answering
<1>15. Builds'
  <2>1. CASE Kind(i) = "build_create"
    <3>1. Fine(x.build, x.k)'
      BY <1>3, <1>4, <1>5, <1>6, <2>1 DEF Fine
    <3>2. \A j \in DOMAIN effects : ~(effects[j].step = x.k /\ Kind(j) = "build_cancel")
      BY <1>1, <1>4, <2>1 DEF Builds
    <3> QED
      BY <1>3, <1>6, <1>12, <2>1, <3>1, <3>2 DEF Builds, Releasing, Deploying, Kind
  <2>2. CASE Kind(i) = "build_cancel"
    <3>1. Fine(x.build, x.k)
      BY <1>1, <1>4, <2>2 DEF Builds
    <3>2. PICK b, k : b = x.build /\ k = x.k
      OBVIOUS
    <3>3. k \in DOMAIN steps /\ Fine(b, k)
      BY <1>4, <3>1, <3>2
    <3>4. b \in DOMAIN builds' /\ builds'[b].fits /\ builds'[b].target = steps'[k].target
      BY <1>1, <1>5, <1>7, <3>3, SoundKept
    <3>5. Fine(x.build, x.k)'
      BY <1>6, <2>2, <3>2, <3>4 DEF Fine
    <3> QED
      BY <1>6, <1>12, <2>2, <3>5 DEF Builds, Releasing, Deploying
  <2>3. CASE Kind(i) \in {"release_create", "env_deploy"}
    <3>1. Fine(x.build, x.k) /\ builds[x.build].result = "succeeded"
      BY <1>1, <1>4, <2>3 DEF Builds, Releasing, Deploying
    <3>2. PICK b, k : b = x.build /\ k = x.k
      OBVIOUS
    <3>3. k \in DOMAIN steps /\ Fine(b, k) /\ builds[b].result = "succeeded"
      BY <1>4, <3>1, <3>2
    <3>4. b \in DOMAIN builds' /\ builds'[b].fits /\ builds'[b].target = steps'[k].target
          /\ builds'[b].result = "succeeded"
      BY <1>1, <1>5, <1>7, <3>3, SoundKept
    <3>5. Fine(x.build, x.k)' /\ builds'[x'.build].result = "succeeded"
      BY <1>6, <2>3, <3>2, <3>4 DEF Fine
    <3> QED
      BY <1>6, <1>12, <2>3, <3>5 DEF Builds, Releasing, Deploying
  <2> QED
    BY <1>1, <1>4, <2>1, <2>2, <2>3, EffectIs DEF EffectRecord, Kind
<1>16. Releases'
  <2>1. CASE Kind(i) = "release_create"
    <3>1. \A j \in DOMAIN effects : ~(effects[j].step = x.k /\ Kind(j) = "env_deploy")
      BY <1>1, <1>4, <2>1 DEF Releases
    <3> QED
      BY <1>3, <1>4, <1>5, <1>6, <1>12, <2>1, <3>1 DEF Releases, Deploying
  <2>2. CASE Kind(i) = "env_deploy"
    <3>1. x.release \in DOMAIN releases /\ releases[x.release].target = steps[x.k].target
      BY <1>1, <1>4, <2>2 DEF Releases, Deploying
    <3>2. x.release \in DOMAIN releases' /\ releases'[x.release].target = steps[x.k].target
      BY <1>5, <3>1 DEF Grown
    <3> QED
      BY <1>3, <1>6, <1>12, <2>2, <3>2 DEF Releases, Deploying
  <2>3. CASE Kind(i) \in {"build_create", "build_cancel"}
    BY <1>6, <1>12, <2>3 DEF Releases, Deploying
  <2> QED
    BY <1>1, <1>4, <2>1, <2>2, <2>3, EffectIs DEF EffectRecord, Kind
<1>17. Deploys'
  <2>1. SUFFICES ASSUME Kind(i) = "env_deploy"
                 PROVE  Deploys'
    BY <1>6, <1>12 DEF Deploys, Deploying
  <2>2. Deploying
    BY <1>4, <2>1 DEF Deploying
  <2>3. Sound(x.release, x.k)'
    <3>1. PICK r, k : r = x.release /\ k = x.k
      OBVIOUS
    <3>2. k \in DOMAIN steps /\ Sound(r, k)
      BY <1>1, <1>4, <2>2, <3>1 DEF Deploys
    <3>3. Sound(r, k)'
      BY <1>1, <1>5, <1>7, <3>2, SoundStays
    <3> QED
      BY <1>6, <2>1, <3>1, <3>3
  <2>4. x'.release = x.release /\ x'.left = x.left /\ x'.k = x.k
    BY <1>6, <2>1
  <2>5. Doing("env_deploy") /\ Doing("env_deploy")'
    BY <1>4, <1>12, <2>1
  <2> QED
    BY <1>1, <1>3, <1>12, <2>2, <2>3, <2>4, <2>5 DEF Deploys, Kind
<1>18. out' = "running" /\ x'.pc # "done"
  BY <1>6
<1> QED
  BY <1>7, <1>8, <1>9, <1>11, <1>13, <1>14, <1>15, <1>16, <1>17, <1>18 DEF ExecutorInv, Acts

-----------------------------------------------------------------------------
(* The reconciliation                                                      *)
LEMMA ConfirmAllIs ==
  ASSUME Types, NEW S \in SUBSET DOMAIN effects, NEW id \in Nat, ConfirmAll(S, id),
         \A i \in S : Kind(i) = "env_deploy" => effects[i].remote = id
  PROVE  /\ SameEffects /\ effects' \in Seq(EffectRecord)
         /\ \A i \in DOMAIN effects :
              IF i \in S /\ effects[i].state # "confirmed"
                THEN effects'[i].state = "confirmed" /\ effects'[i].remote = id ELSE effects'[i] = effects[i]
<1>1. Len(effects) \in Nat /\ DOMAIN effects = 1..Len(effects)
  BY Indexed DEF Types
<1>2. ASSUME NEW i \in DOMAIN effects
      PROVE  /\ effects'[i] \in EffectRecord
             /\ effects'[i].step = effects[i].step /\ effects'[i].kind = effects[i].kind
             /\ effects'[i].env = effects[i].env /\ effects'[i].base = effects[i].base
             /\ IF i \in S /\ effects[i].state # "confirmed"
                  THEN effects'[i].state = "confirmed" /\ effects'[i].remote = id ELSE effects'[i] = effects[i]
  <2>1. effects[i] \in EffectRecord
    BY EffectIs
  <2>2. effects'[i] = IF i \in S /\ effects[i].state # "confirmed"
                        THEN [effects[i] EXCEPT !.state = "confirmed", !.remote = id] ELSE effects[i]
    BY DEF ConfirmAll
  <2>3. CASE i \in S /\ effects[i].state # "confirmed"
    <3> PICK v : v = [effects[i] EXCEPT !.state = "confirmed", !.remote = id]
      OBVIOUS
    <3>1. v \in EffectRecord /\ v.step = effects[i].step /\ v.kind = effects[i].kind /\ v.env = effects[i].env
          /\ v.base = effects[i].base /\ v.state = "confirmed" /\ v.remote = id
      BY <2>1 DEF EffectRecord
    <3> QED
      BY <2>2, <2>3, <3>1
  <2>4. CASE ~(i \in S /\ effects[i].state # "confirmed")
    BY <2>1, <2>2, <2>4
  <2> QED
    BY <2>3, <2>4
<1>3. effects' \in Seq(EffectRecord) /\ Len(effects') = Len(effects) /\ DOMAIN effects' = DOMAIN effects
  <2>1. effects' = [i \in 1..Len(effects) |-> effects'[i]]
    BY <1>1 DEF ConfirmAll
  <2>2. \A i \in 1..Len(effects) : effects'[i] \in EffectRecord
    BY <1>1, <1>2
  <2> QED
    BY <1>1, <2>1, <2>2
<1> QED
  BY <1>2, <1>3 DEF SameEffects, Kind

LEMMA ReadKeeps ==
  ASSUME PlanAssumption, ExecutorInv,
         UNCHANGED <<op, builds, releases, flight, got, drift, steps, stop, x, faults>>,
         SameEffects, effects' \in Seq(EffectRecord), out # "running",
         out' \in {"succeeded", "failed", "cancelled", "unknown"},
         y' \in ReadRecord, y'.done \subseteq DOMAIN steps, y'.k \in 0..Len(steps) + 1
  PROVE  ExecutorInv'
<1>1. /\ Types /\ x.pc = "done" /\ x.k \in 1..Len(steps) + 1 /\ stop \in {"no", "asked", "heard"} /\ faults \in 0..Faults
  BY DEF ExecutorInv, ExecutorTypeOK
<1>2. SamePlan /\ steps' \in Seq(StepRecord) /\ x' \in ExecutorRecord
  BY <1>1 DEF SamePlan, Types
<1>3. /\ out' # "running" /\ x'.pc = "done" /\ out' \in {"running", "succeeded", "failed", "cancelled", "unknown"}
      /\ stop' \in {"no", "asked", "heard"} /\ faults' \in 0..Faults /\ x'.k \in 1..Len(steps) + 1
  BY <1>1
<1>4. /\ \A j \in DOMAIN steps : /\ steps'[j].build \in {steps[j].build} \cup DOMAIN builds
                                 /\ steps'[j].release \in {steps[j].release} \cup DOMAIN releases
      /\ \A i \in DOMAIN effects : steps'[effects[i].step].release = steps[effects[i].step].release
  OBVIOUS
<1> QED
  BY <1>2, <1>3, <1>4, MoveKeeps

LEMMA ReadIs ==
  ASSUME ExecutorInv
  PROVE  /\ Types /\ y \in ReadRecord /\ y.k \in Nat /\ y.done \subseteq DOMAIN steps
         /\ Len(steps) \in Nat /\ DOMAIN steps = 1..Len(steps) /\ Len(effects) \in Nat /\ DOMAIN effects = 1..Len(effects)
         /\ \A j \in DOMAIN steps : steps[j].build \in Nat /\ steps[j].release \in Nat
         /\ NoRead \in ReadRecord
<1>1. Types
  BY DEF ExecutorInv
<1>2. NoRead \in ReadRecord
  BY DEF NoRead, ReadRecord
<1>3. y \in ReadRecord /\ y.k \in Nat /\ y.done \subseteq DOMAIN steps
  BY <1>1 DEF Types, ReadRecord
<1>4. \A j \in DOMAIN steps : steps[j] \in StepRecord
  BY <1>1, Indexed DEF Types
<1>5. \A j \in DOMAIN steps : steps[j].build \in Nat /\ steps[j].release \in Nat
  BY <1>4 DEF StepRecord
<1> QED
  BY <1>1, <1>2, <1>3, <1>5, Indexed DEF Types

LEMMA BeginReadingKeeps ==
  ASSUME PlanAssumption, ExecutorInv, BeginReading
  PROVE  ExecutorInv'
<1>1. UNCHANGED <<op, builds, releases, flight, got, drift, steps, effects, stop, out, x, faults>> /\ out = "unknown"
      /\ y' = [NoRead EXCEPT !.k = 1]
  BY DEF BeginReading, server
<1>2. y' \in ReadRecord /\ y'.k = 1 /\ y'.done = {}
  BY <1>1 DEF ReadRecord, NoRead
<1>3. 1 \in 0..Len(steps) + 1
  BY ReadIs
<1>4. SameEffects /\ effects' \in Seq(EffectRecord)
  BY <1>1 DEF SameEffects, ExecutorInv, Types
<1> QED
  BY <1>1, <1>2, <1>3, <1>4, ReadKeeps

(* Reading a build: what it is known by, and what it says                  *)
KnownBuilds == {i \in EffectsOf("build_create") : effects[i].remote # 0}
Ident       == IF KnownBuilds = {} THEN steps[y.k].build ELSE effects[Max(KnownBuilds)].remote
BuildEnded  == Ident # 0 /\ Completed(builds[Ident])
BuildBad    == BuildEnded /\ builds[Ident].result # "succeeded"

LEMMA BuildRead ==
  ASSUME ExecutorInv, ReadBuild
  PROVE  /\ KnownBuilds # {} => Max(KnownBuilds) \in KnownBuilds
         /\ ConfirmAll(IF BuildEnded THEN EffectsOf("build_cancel") ELSE {}, Ident)
         /\ Ident \in Nat /\ y.k \in DOMAIN steps /\ steps[y.k].kind = "build" /\ out = "unknown"
         /\ UNCHANGED <<op, builds, releases, flight, got, drift, steps, stop, out, x, faults>>
         /\ y' \in ReadRecord /\ y'.k = y.k + 1
         /\ (~y'.uncertain => ~y.uncertain /\ EffectsOf("build_create") = KnownBuilds /\ (Ident # 0 => BuildEnded))
         /\ (~y'.failed => ~y.failed /\ ~BuildBad)
         /\ y'.done \subseteq y.done \cup {y.k}
         /\ y'.k \in 0..Len(steps) + 1
<1>1. PICK n \in Nat : n = Len(effects) /\ KnownBuilds \in SUBSET (1..n)
  BY ReadIs DEF EffectsOf, KnownBuilds
<1>2. KnownBuilds # {} => Max(KnownBuilds) \in KnownBuilds
  BY <1>1, MaxIndex
<1>3. y.k \in DOMAIN steps /\ steps[y.k].kind = "build" /\ out = "unknown"
      /\ UNCHANGED <<op, builds, releases, flight, got, drift, steps, stop, out, x, faults>>
  BY DEF ReadBuild, Reading, server
<1>4. Ident \in Nat
  <2>1. KnownBuilds = {} => steps[y.k].build \in Nat
    BY <1>3, ReadIs
  <2>2. KnownBuilds # {} => effects[Max(KnownBuilds)].remote \in Nat
    BY <1>2, EffectIs, ReadIs DEF EffectsOf, KnownBuilds
  <2> QED
    BY <2>1, <2>2 DEF Ident
<1>5. ConfirmAll(IF BuildEnded THEN EffectsOf("build_cancel") ELSE {}, Ident)
  BY DEF ReadBuild, KnownBuilds, Ident, BuildEnded
<1>6. y' = [k         |-> y.k + 1,
            uncertain |-> y.uncertain \/ EffectsOf("build_create") # KnownBuilds \/ (Ident # 0 /\ ~BuildEnded),
            failed    |-> y.failed \/ BuildBad,
            observed  |-> y.observed \/ Ident # 0,
            cancelled |-> y.cancelled \/ (BuildBad /\ builds[Ident].result = "canceled"),
            other     |-> y.other \/ (BuildBad /\ builds[Ident].result # "canceled"),
            done      |-> IF BuildEnded THEN y.done \cup {y.k} ELSE y.done]
  BY DEF ReadBuild, KnownBuilds, Ident, BuildEnded, BuildBad
<1>7. y.k \in Nat /\ y.k + 1 \in Nat /\ y.done \in SUBSET Nat /\ (IF BuildEnded THEN y.done \cup {y.k} ELSE y.done) \in SUBSET Nat
  <2>1. y.k \in Nat /\ y.done \in SUBSET Nat
    BY ReadIs DEF ReadRecord
  <2> QED
    BY <2>1
<1>8. y' \in ReadRecord /\ y'.k = y.k + 1 /\ y'.done \subseteq y.done \cup {y.k}
      /\ (~y'.uncertain => ~y.uncertain /\ EffectsOf("build_create") = KnownBuilds /\ (Ident # 0 => BuildEnded))
      /\ (~y'.failed => ~y.failed /\ ~BuildBad)
  <2>1. y' \in ReadRecord
    BY <1>6, <1>7 DEF ReadRecord
  <2>2. y'.k = y.k + 1 /\ y'.done \subseteq y.done \cup {y.k}
    BY <1>6
  <2>3. ~y'.uncertain => ~y.uncertain /\ EffectsOf("build_create") = KnownBuilds /\ (Ident # 0 => BuildEnded)
    BY <1>6
  <2>4. ~y'.failed => ~y.failed /\ ~BuildBad
    BY <1>6
  <2> QED
    BY <2>1, <2>2, <2>3, <2>4
<1>9. y'.k \in 0..Len(steps) + 1
  BY <1>3, <1>8, ReadIs
<1> QED
  BY <1>2, <1>3, <1>4, <1>5, <1>8, <1>9

LEMMA ReadBuildKeeps ==
  ASSUME PlanAssumption, ExecutorInv, ReadBuild
  PROVE  ExecutorInv'
<1>1. /\ ConfirmAll(IF BuildEnded THEN EffectsOf("build_cancel") ELSE {}, Ident)
      /\ Ident \in Nat /\ y.k \in DOMAIN steps /\ out = "unknown"
      /\ UNCHANGED <<op, builds, releases, flight, got, drift, steps, stop, out, x, faults>>
      /\ y' \in ReadRecord /\ y'.k \in 0..Len(steps) + 1 /\ y'.done \subseteq y.done \cup {y.k}
  BY BuildRead
<1>2. y'.done \subseteq DOMAIN steps
  BY <1>1, ReadIs
<1>3. PICK S, id : S = (IF BuildEnded THEN EffectsOf("build_cancel") ELSE {}) /\ id = Ident
  OBVIOUS
<1>4. ConfirmAll(S, id)
  BY <1>1, <1>3 DEF ConfirmAll
<1>5. S \in SUBSET DOMAIN effects /\ id \in Nat /\ \A i \in S : Kind(i) # "env_deploy"
  BY <1>1, <1>3 DEF EffectsOf, Kind
<1>6. SameEffects /\ effects' \in Seq(EffectRecord)
  BY <1>4, <1>5, ConfirmAllIs, ReadIs
<1> QED
  BY <1>1, <1>2, <1>6, ReadKeeps

(* Reading a release: which it is, and what became of its deployments      *)
Creations   == EffectsOf("release_create")
Deployments == EffectsOf("env_deploy")
ReleaseRead == ReleaseOf(Creations)
NewerOnes   == {i \in Deployments : Since(i, ReleaseRead)}
OpenOnes    == {i \in NewerOnes : deployment_result(releases[ReleaseRead].envs[effects[i].env]) = "none"}
BadOnes     == {i \in NewerOnes : deployment_result(releases[ReleaseRead].envs[effects[i].env]) = "failed"}

LEMMA KnownReleaseIs ==
  ASSUME ExecutorInv, y.k \in DOMAIN steps
  PROVE  /\ ReleaseRead \in Nat
         /\ ReleaseRead # 0 => \/ steps[y.k].release # 0 /\ ReleaseRead = steps[y.k].release
                               \/ \E i \in Creations : effects[i].remote # 0
                               \/ \E r \in DOMAIN releases : releases[r].by \in Creations
<1> PICK known : known = {effects[i].remote : i \in Creations} \ {0}
  OBVIOUS
<1>1. Creations \in SUBSET DOMAIN effects /\ Creations \in SUBSET (1..Len(effects)) /\ Len(effects) \in Nat
  BY ReadIs DEF Creations, EffectsOf
<1>2. IsFiniteSet(Creations)
  BY <1>1, FS_Interval, FS_Subset
<1>3. {effects[i].remote : i \in Creations} \in SUBSET Nat
  BY <1>1, EffectIs, ReadIs
<1>4. IsFiniteSet({effects[i].remote : i \in Creations})
  <2>1. PICK f \in [Creations -> Nat] : \A i \in Creations : f[i] = effects[i].remote
    <3>1. [i \in Creations |-> effects[i].remote] \in [Creations -> Nat]
      BY <1>3
    <3> QED
      BY <3>1
  <2>2. PICK T : T = {effects[i].remote : i \in Creations}
    OBVIOUS
  <2>3. f \in Surjection(Creations, T)
    BY <2>1, <2>2 DEF Surjection
  <2>4. IsFiniteSet(T)
    BY <1>2, <2>3, FS_Surjection
  <2> QED
    BY <2>2, <2>4
<1>5. known # {} => Max(known) \in known /\ Max(known) \in Nat
  <2>1. known \in SUBSET Int /\ IsFiniteSet(known) /\ known \in SUBSET Nat
    BY <1>3, <1>4, FS_Subset
  <2> QED
    BY <2>1, MaxIs
<1>6. PICK marked : marked = Marked(Creations)
  OBVIOUS
<1>7. marked # {} => Max(marked) \in marked /\ Max(marked) \in Nat
  <2>1. PICK n \in Nat : n = Len(releases) /\ DOMAIN releases = 1..n
    BY ReadIs, Indexed DEF Types
  <2>2. marked \in SUBSET (1..n)
    BY <1>6, <2>1 DEF Marked
  <2>3. marked # {} => Max(marked) \in marked
    BY <2>2, MaxIndex
  <2>4. \A m \in marked : m \in Nat
    BY <2>2
  <2> QED
    BY <2>3, <2>4
<1>8. ReleaseRead = IF steps[y.k].release # 0 THEN steps[y.k].release
                    ELSE IF known # {} THEN Max(known)
                    ELSE IF marked # {} THEN Max(marked) ELSE 0
  BY <1>6 DEF ReleaseRead, ReleaseOf
<1>9. ReleaseRead \in Nat
  BY <1>5, <1>7, <1>8, ReadIs
<1>10. known # {} => \E i \in Creations : effects[i].remote # 0
  OBVIOUS
<1>11. marked # {} => \E r \in DOMAIN releases : releases[r].by \in Creations
  BY <1>6 DEF Marked
<1> QED
  BY <1>8, <1>9, <1>10, <1>11

LEMMA ReleaseReadIs ==
  ASSUME ExecutorInv, ReadRelease
  PROVE  /\ y.k \in DOMAIN steps /\ steps[y.k].kind # "build" /\ out = "unknown"
         /\ UNCHANGED <<op, builds, releases, flight, got, drift, steps, stop, out, x, faults>>
         /\ y' \in ReadRecord /\ y'.k = y.k + 1 /\ y'.k \in 0..Len(steps) + 1
         /\ y'.done \subseteq y.done \cup {y.k}
         /\ IF ReleaseRead = 0 THEN effects' = effects ELSE ConfirmAll(Creations \cup NewerOnes, ReleaseRead)
         /\ (~y'.uncertain => /\ ~y.uncertain
                              /\ IF ReleaseRead = 0 THEN Creations = {} /\ Deployments = {}
                                 ELSE NewerOnes = Deployments /\ OpenOnes = {})
         /\ (~y'.failed => ~y.failed /\ (ReleaseRead # 0 => BadOnes = {}))
         /\ (y.k \in y'.done => y.k \in y.done \/ (/\ ReleaseRead # 0 /\ Cardinality(Deployments) = Len(Stages)
                                                 /\ NewerOnes = Deployments /\ OpenOnes = {}))
<1>1. y.k \in DOMAIN steps /\ steps[y.k].kind # "build" /\ out = "unknown"
      /\ UNCHANGED <<op, builds, releases, flight, got, drift, steps, stop, out, x, faults>>
  BY DEF ReadRelease, Reading, server
<1>2. y \in ReadRecord /\ y.k \in Nat /\ y.done \in SUBSET Nat /\ y.k + 1 \in Nat
  <2>1. y.k \in Nat /\ y.done \in SUBSET Nat /\ y \in ReadRecord
    BY ReadIs DEF ReadRecord
  <2> QED
    BY <2>1
<1>3. CASE ReleaseRead = 0
  <2>1. /\ y' = [y EXCEPT !.k = y.k + 1, !.uncertain = y.uncertain \/ Creations # {} \/ Deployments # {}]
        /\ effects' = effects
    BY <1>3 DEF ReadRelease, ReleaseRead, Creations, Deployments
  <2>2. y' \in ReadRecord
    BY <1>2, <2>1 DEF ReadRecord
  <2>3. y'.k = y.k + 1 /\ y'.done = y.done /\ y'.failed = y.failed
    BY <1>2, <2>1 DEF ReadRecord
  <2>4. ~y'.uncertain => ~y.uncertain /\ Creations = {} /\ Deployments = {}
    BY <1>2, <2>1 DEF ReadRecord
  <2>5. y'.k \in 0..Len(steps) + 1
    BY <1>1, <2>3, ReadIs
  <2> QED
    BY <1>1, <1>3, <2>1, <2>2, <2>3, <2>4, <2>5
<1>4. CASE ReleaseRead # 0
  <2> PICK D : D = IF Cardinality(Deployments) = Len(Stages) /\ NewerOnes = Deployments /\ OpenOnes = {}
                      THEN y.done \cup {y.k} ELSE y.done
    OBVIOUS
  <2>1. /\ ConfirmAll(Creations \cup NewerOnes, ReleaseRead)
        /\ \E busy \in BOOLEAN :
             y' = [y EXCEPT !.k = y.k + 1, !.observed = TRUE,
                          !.uncertain = y.uncertain \/ NewerOnes # Deployments \/ OpenOnes # {} \/ busy,
                          !.failed = y.failed \/ BadOnes # {} \/ Stray(ReleaseRead),
                          !.other  = y.other \/ BadOnes # {} \/ Stray(ReleaseRead),
                          !.done   = D]
    BY <1>4 DEF ReadRelease, ReleaseRead, Creations, Deployments, NewerOnes, OpenOnes, BadOnes
  <2> PICK busy \in BOOLEAN :
             y' = [y EXCEPT !.k = y.k + 1, !.observed = TRUE,
                          !.uncertain = y.uncertain \/ NewerOnes # Deployments \/ OpenOnes # {} \/ busy,
                          !.failed = y.failed \/ BadOnes # {} \/ Stray(ReleaseRead),
                          !.other  = y.other \/ BadOnes # {} \/ Stray(ReleaseRead),
                          !.done   = D]
    BY <2>1
  <2>2. D \in SUBSET Nat /\ D \subseteq y.done \cup {y.k}
    BY <1>2
  <2>3. y' \in ReadRecord
    <3> DEFINE u == y.uncertain \/ NewerOnes # Deployments \/ OpenOnes # {} \/ busy
               f == y.failed \/ BadOnes # {} \/ Stray(ReleaseRead)
               o == y.other \/ BadOnes # {} \/ Stray(ReleaseRead)
    <3>1. u \in BOOLEAN /\ f \in BOOLEAN /\ o \in BOOLEAN
      OBVIOUS
    <3>2. y' = [y EXCEPT !.k = y.k + 1, !.observed = TRUE, !.uncertain = u, !.failed = f, !.other = o, !.done = D]
      OBVIOUS
    <3> HIDE DEF u, f, o
    <3> QED
      BY <1>2, <2>2, <3>1, <3>2 DEF ReadRecord
  <2>4. y'.k = y.k + 1 /\ y'.done = D
    BY <1>2 DEF ReadRecord
  <2>5. (~y'.uncertain => ~y.uncertain /\ NewerOnes = Deployments /\ OpenOnes = {})
    BY <1>2 DEF ReadRecord
  <2>6. ~y'.failed => ~y.failed /\ BadOnes = {}
    BY <1>2 DEF ReadRecord
  <2>7. y'.k \in 0..Len(steps) + 1
    BY <1>1, <2>4, ReadIs
  <2>8. y.k \in y'.done => y.k \in y.done \/ (/\ Cardinality(Deployments) = Len(Stages)
                                            /\ NewerOnes = Deployments /\ OpenOnes = {})
    BY <2>4
  <2> QED
    BY <1>1, <1>4, <2>1, <2>2, <2>3, <2>4, <2>5, <2>6, <2>7, <2>8
<1> QED
  BY <1>3, <1>4

(* A release that the step is bound to is the one its deployments are of   *)
LEMMA DeploymentsAreOf ==
  ASSUME ExecutorInv, y.k \in DOMAIN steps, NEW i \in Deployments
  PROVE  /\ i \in DOMAIN effects /\ Kind(i) = "env_deploy" /\ effects[i].step = y.k /\ effects[i].env \in Selected
         /\ effects[i].remote = ReleaseRead /\ ReleaseRead = steps[y.k].release
         /\ ReleaseRead \in DOMAIN releases /\ Sound(ReleaseRead, y.k) /\ ReleaseRead # 0
<1>1. i \in DOMAIN effects /\ Kind(i) = "env_deploy" /\ effects[i].step = y.k
  BY DEF Deployments, EffectsOf, Kind
<1>2. effects[i].env \in Selected /\ steps[y.k].release = effects[i].remote /\ Sound(effects[i].remote, y.k)
  BY <1>1 DEF ExecutorInv, DeploySound
<1>3. effects[i].remote \in DOMAIN releases
  BY <1>2 DEF Sound
<1>4. effects[i].remote # 0
  BY <1>3, ReadIs, Indexed DEF Types
<1>5. ReleaseRead = steps[y.k].release
  BY <1>2, <1>4 DEF ReleaseRead, ReleaseOf
<1> QED
  BY <1>1, <1>2, <1>3, <1>4, <1>5

LEMMA ReadReleaseEffects ==
  ASSUME ExecutorInv, ReadRelease
  PROVE  /\ SameEffects /\ effects' \in Seq(EffectRecord)
         /\ \A i \in DOMAIN effects :
              IF i \in Creations \cup NewerOnes /\ effects[i].state # "confirmed" /\ ReleaseRead # 0
                THEN effects'[i].state = "confirmed" /\ effects'[i].remote = ReleaseRead ELSE effects'[i] = effects[i]
<1>1. y.k \in DOMAIN steps
      /\ IF ReleaseRead = 0 THEN effects' = effects ELSE ConfirmAll(Creations \cup NewerOnes, ReleaseRead)
  BY ReleaseReadIs
<1>2. CASE ReleaseRead = 0
  BY <1>1, <1>2, ReadIs DEF SameEffects, Types
<1>3. CASE ReleaseRead # 0
  <2>1. PICK S, id : S = Creations \cup NewerOnes /\ id = ReleaseRead
    OBVIOUS
  <2>2. ConfirmAll(S, id)
    BY <1>1, <1>3, <2>1 DEF ConfirmAll
  <2>3. id \in Nat
    BY <1>1, <2>1, KnownReleaseIs
  <2>4. S \in SUBSET DOMAIN effects
    BY <2>1 DEF Creations, NewerOnes, Deployments, EffectsOf
  <2>5. \A i \in S : Kind(i) = "env_deploy" => effects[i].remote = id
    <3>1. \A i \in Creations : Kind(i) # "env_deploy"
      BY DEF Creations, EffectsOf, Kind
    <3>2. \A i \in NewerOnes : effects[i].remote = ReleaseRead
      BY <1>1, DeploymentsAreOf DEF NewerOnes
    <3> QED
      BY <2>1, <3>1, <3>2
  <2>6. /\ SameEffects /\ effects' \in Seq(EffectRecord)
        /\ \A i \in DOMAIN effects :
              IF i \in S /\ effects[i].state # "confirmed"
                THEN effects'[i].state = "confirmed" /\ effects'[i].remote = id ELSE effects'[i] = effects[i]
    BY <2>2, <2>3, <2>4, <2>5, ConfirmAllIs, ReadIs
  <2> QED
    BY <1>3, <2>1, <2>6
<1> QED
  BY <1>2, <1>3

LEMMA ReadReleaseKeeps ==
  ASSUME PlanAssumption, ExecutorInv, ReadRelease
  PROVE  ExecutorInv'
<1>1. /\ y.k \in DOMAIN steps /\ out = "unknown"
      /\ UNCHANGED <<op, builds, releases, flight, got, drift, steps, stop, out, x, faults>>
      /\ y' \in ReadRecord /\ y'.k \in 0..Len(steps) + 1 /\ y'.done \subseteq y.done \cup {y.k}
  BY ReleaseReadIs
<1>2. y'.done \subseteq DOMAIN steps
  BY <1>1, ReadIs
<1>3. SameEffects /\ effects' \in Seq(EffectRecord)
  BY ReadReleaseEffects
<1> QED
  BY <1>1, <1>2, <1>3, ReadKeeps

LEMMA AllSucceeded ==
  ASSUME Types, op' = op, steps' = [j \in DOMAIN steps |-> [steps[j] EXCEPT !.status = "succeeded"]]
  PROVE  /\ SamePlan /\ steps' \in Seq(StepRecord)
         /\ \A j \in DOMAIN steps : /\ steps'[j].status = "succeeded"
                                    /\ steps'[j].build = steps[j].build /\ steps'[j].release = steps[j].release
<1>1. Len(steps) \in Nat /\ DOMAIN steps = 1..Len(steps) /\ \A j \in DOMAIN steps : steps[j] \in StepRecord
  BY Indexed DEF Types
<1>2. ASSUME NEW j \in DOMAIN steps
      PROVE  /\ steps'[j] \in StepRecord /\ steps'[j].status = "succeeded"
             /\ steps'[j].build = steps[j].build /\ steps'[j].release = steps[j].release
             /\ steps'[j].kind = steps[j].kind /\ steps'[j].target = steps[j].target
  <2>1. steps'[j] = [steps[j] EXCEPT !.status = "succeeded"] /\ steps[j] \in StepRecord
    BY <1>1
  <2> QED
    BY <2>1 DEF StepRecord
<1>3. steps' \in Seq(StepRecord) /\ Len(steps') = Len(steps) /\ DOMAIN steps' = DOMAIN steps
  <2>1. steps' = [j \in 1..Len(steps) |-> steps'[j]]
    BY <1>1
  <2>2. \A j \in 1..Len(steps) : steps'[j] \in StepRecord
    BY <1>1, <1>2
  <2> QED
    BY <1>1, <2>1, <2>2
<1> QED
  BY <1>2, <1>3 DEF SamePlan

LEMMA ConcludeKeeps ==
  ASSUME PlanAssumption, ExecutorInv, Conclude
  PROVE  ExecutorInv'
<1>1. /\ UNCHANGED <<op, builds, releases, flight, got, drift, effects, stop, x, faults>> /\ y' = NoRead
      /\ out = "unknown" /\ out' \in {"succeeded", "failed", "cancelled", "unknown"}
      /\ (steps' = steps \/ steps' = [j \in DOMAIN steps |-> [steps[j] EXCEPT !.status = "succeeded"]])
  BY DEF Conclude, server
<1>2. /\ Types /\ x.pc = "done" /\ x.k \in 1..Len(steps) + 1 /\ stop \in {"no", "asked", "heard"} /\ faults \in 0..Faults
      /\ Placed
  BY <1>1 DEF ExecutorInv, ExecutorTypeOK
<1>3. /\ SamePlan /\ steps' \in Seq(StepRecord)
      /\ \A j \in DOMAIN steps : steps'[j].build = steps[j].build /\ steps'[j].release = steps[j].release
  BY <1>1, <1>2, AllSucceeded DEF SamePlan, Types
<1>4. SameEffects /\ effects' \in Seq(EffectRecord) /\ x' \in ExecutorRecord
  BY <1>1, <1>2 DEF SameEffects, Types
<1>5. y' \in ReadRecord /\ y'.k = 0 /\ y'.done = {}
  BY <1>1, ReadIs DEF NoRead
<1>6. /\ \A j \in DOMAIN steps : /\ steps'[j].build \in {steps[j].build} \cup DOMAIN builds
                                 /\ steps'[j].release \in {steps[j].release} \cup DOMAIN releases
      /\ \A i \in DOMAIN effects : steps'[effects[i].step].release = steps[effects[i].step].release
  BY <1>2, <1>3 DEF Placed
<1>7. 0 \in 0..Len(steps) + 1
  BY ReadIs
<1>8. /\ out' # "running" /\ x'.pc = "done" /\ out' \in {"running", "succeeded", "failed", "cancelled", "unknown"}
      /\ stop' \in {"no", "asked", "heard"} /\ faults' \in 0..Faults /\ x'.k \in 1..Len(steps) + 1
  BY <1>1, <1>2
<1> QED
  BY <1>1, <1>3, <1>4, <1>5, <1>6, <1>7, <1>8, MoveKeeps

LEMMA ReadFailsKeeps ==
  ASSUME PlanAssumption, ExecutorInv, ReadFails
  PROVE  ExecutorInv'
<1>1. /\ UNCHANGED <<op, builds, releases, flight, got, drift, steps, effects, stop, out, x>> /\ y' = NoRead
      /\ faults' \in 0..Faults
  BY Faultless DEF ReadFails, server
<1>2. Types /\ x.k \in 1..Len(steps) + 1 /\ stop \in {"no", "asked", "heard"}
      /\ out \in {"running", "succeeded", "failed", "cancelled", "unknown"} /\ (out = "running" <=> x.pc # "done")
  BY <1>1 DEF ExecutorInv, ExecutorTypeOK
<1>3. /\ SamePlan /\ SameEffects /\ steps' \in Seq(StepRecord) /\ effects' \in Seq(EffectRecord)
      /\ \A j \in DOMAIN steps : /\ steps'[j].build \in {steps[j].build} \cup DOMAIN builds
                                 /\ steps'[j].release \in {steps[j].release} \cup DOMAIN releases
      /\ \A i \in DOMAIN effects : steps'[effects[i].step].release = steps[effects[i].step].release
  BY <1>1, <1>2, Still
<1>4. out' = "running" => Acts'
  BY <1>1, ActsStay DEF ExecutorInv
<1>5. y' \in ReadRecord /\ y'.k = 0 /\ y'.done = {} /\ 0 \in 0..Len(steps) + 1
  BY <1>1, ReadIs DEF NoRead
<1>6. /\ x' \in ExecutorRecord /\ out' \in {"running", "succeeded", "failed", "cancelled", "unknown"}
      /\ x'.k \in 1..Len(steps) + 1 /\ stop' \in {"no", "asked", "heard"} /\ (out' = "running" <=> x'.pc # "done")
  BY <1>1, <1>2 DEF Types
<1> QED
  BY <1>1, <1>3, <1>4, <1>5, <1>6, MoveKeeps

-----------------------------------------------------------------------------
(* The plan, and every step                                                *)
LEMMA PlanTyped ==
  ASSUME PlanAssumption, NEW o \in Operations
  PROVE  /\ PlanOf(o) \in Seq(StepRecord) /\ Found(o) \in Seq(BuildRecord) /\ History(o) \in Seq(ReleaseRecord)
         /\ \A j \in DOMAIN PlanOf(o) : PlanOf(o)[j].status = "pending" /\ PlanOf(o)[j].build = 0 /\ PlanOf(o)[j].release = 0
         /\ \A b \in DOMAIN Found(o) : /\ Found(o)[b].target = b /\ Found(o)[b].fits /\ Found(o)[b].result = "succeeded"
                                       /\ Found(o)[b].by = 0
         /\ \A r \in DOMAIN History(o) :
              /\ History(o)[r].target = r /\ History(o)[r].by = 0
              /\ \A e \in Envs : History(o)[r].envs[e].trigger = "manual" /\ History(o)[r].envs[e].run = 0
         /\ o # "sync_build_release" => DOMAIN Found(o) = 1..N
         /\ o = "rollback" => DOMAIN History(o) = 1..N
<1>1. N \in Nat \ {0}
  BY DEF PlanAssumption
<1>2. \A i \in 1..2 * N : (i + 1) \div 2 \in 1..N
  BY <1>1
<1>3. PlanOf(o) \in Seq(StepRecord)
      /\ \A j \in DOMAIN PlanOf(o) : PlanOf(o)[j].status = "pending" /\ PlanOf(o)[j].build = 0 /\ PlanOf(o)[j].release = 0
  <2>1. CASE o = "sync_build_release"
    <3>1. PICK n \in Nat : n = 2 * N
      BY <1>1
    <3>2. PlanOf(o) = [i \in 1..n |-> [kind |-> IF i % 2 = 1 THEN "build" ELSE "release",
                          target |-> (i + 1) \div 2, status |-> "pending", build |-> 0, release |-> 0]]
      BY <2>1, <3>1 DEF PlanOf
    <3>3. ASSUME NEW i \in 1..n
          PROVE  /\ PlanOf(o)[i] \in StepRecord
                 /\ PlanOf(o)[i].status = "pending" /\ PlanOf(o)[i].build = 0 /\ PlanOf(o)[i].release = 0
      <4>1. PICK t \in 1..N, kind \in {"build", "release"} :
              PlanOf(o)[i] = [kind |-> kind, target |-> t, status |-> "pending", build |-> 0, release |-> 0]
        BY <1>2, <3>1, <3>2
      <4> QED
        BY <4>1 DEF StepRecord
    <3>4. PlanOf(o) = [i \in 1..n |-> PlanOf(o)[i]]
      BY <3>2
    <3>5. PlanOf(o) \in Seq(StepRecord) /\ DOMAIN PlanOf(o) = 1..n
      BY <3>3, <3>4
    <3> QED
      BY <3>3, <3>5
  <2>2. CASE o # "sync_build_release"
    <3>1. PlanOf(o) = [i \in 1..N |-> [kind |-> IF o = "rollback" THEN "rollback" ELSE "release",
                          target |-> i, status |-> "pending", build |-> 0, release |-> 0]]
      BY <2>2 DEF PlanOf
    <3>2. \A i \in 1..N : [kind |-> IF o = "rollback" THEN "rollback" ELSE "release",
                          target |-> i, status |-> "pending", build |-> 0, release |-> 0] \in StepRecord
      BY DEF StepRecord
    <3> QED
      BY <1>1, <3>1, <3>2
  <2> QED
    BY <2>1, <2>2
<1>4. /\ Found(o) \in Seq(BuildRecord)
      /\ \A b \in DOMAIN Found(o) : /\ Found(o)[b].target = b /\ Found(o)[b].fits /\ Found(o)[b].result = "succeeded"
                                    /\ Found(o)[b].by = 0
      /\ o # "sync_build_release" => DOMAIN Found(o) = 1..N
  <2>1. \A t \in 1..N : [target |-> t, fits |-> TRUE, result |-> "succeeded", by |-> 0] \in BuildRecord
    BY DEF BuildRecord, Results
  <2>2. PICK n \in 0..N : n = (IF o = "sync_build_release" THEN 0 ELSE N)
    BY <1>1
  <2>3. Found(o) = [t \in 1..n |-> [target |-> t, fits |-> TRUE, result |-> "succeeded", by |-> 0]]
    BY <2>2 DEF Found
  <2>4. n \in Nat /\ \A t \in 1..n : t \in 1..N
    BY <1>1
  <2> QED
    BY <2>1, <2>2, <2>3, <2>4
<1>5. /\ History(o) \in Seq(ReleaseRecord)
      /\ \A r \in DOMAIN History(o) :
              /\ History(o)[r].target = r /\ History(o)[r].by = 0
              /\ \A e \in Envs : History(o)[r].envs[e].trigger = "manual" /\ History(o)[r].envs[e].run = 0
      /\ o = "rollback" => DOMAIN History(o) = 1..N
  <2>1. PICK v : v = [Fresh("manual") EXCEPT !.status = "succeeded", !.attempt = 1, !.agreed = TRUE]
    OBVIOUS
  <2>2. v \in EnvRecord /\ v.trigger = "manual" /\ v.run = 0
    BY <2>1 DEF EnvRecord, Fresh
  <2>3. PICK en : en = [e \in Envs |-> v]
    OBVIOUS
  <2>4. en \in [Envs -> EnvRecord] /\ \A e \in Envs : en[e] = v
    BY <2>2, <2>3
  <2>5. PICK n \in 0..N : n = (IF o = "rollback" THEN N ELSE 0)
    BY <1>1
  <2>6. History(o) = [t \in 1..n |-> [target |-> t, build |-> t, by |-> 0, envs |-> en]]
    BY <2>1, <2>3, <2>5 DEF History
  <2>7. n \in Nat /\ \A t \in 1..n : t \in 1..N /\ t \in Nat
    BY <1>1
  <2>8. \A t \in 1..N : [target |-> t, build |-> t, by |-> 0, envs |-> en] \in ReleaseRecord
    BY <2>4 DEF ReleaseRecord
  <2>9. \A t \in 1..n : History(o)[t] = [target |-> t, build |-> t, by |-> 0, envs |-> en]
    BY <2>6
  <2>10. History(o) \in Seq(ReleaseRecord) /\ DOMAIN History(o) = 1..n
    BY <2>6, <2>7, <2>8
  <2>11. o = "rollback" => n = N
    BY <2>5
  <2> QED
    BY <2>2, <2>4, <2>9, <2>10, <2>11
<1> QED
  BY <1>3, <1>4, <1>5

LEMMA InitHolds ==
  ASSUME PlanAssumption, ExecutorInit
  PROVE  ExecutorInv
<1>1. /\ op \in Operations /\ builds = Found(op) /\ releases = History(op) /\ steps = PlanOf(op)
      /\ flight = {} /\ got = <<>> /\ drift = FALSE /\ effects = <<>> /\ stop = "no" /\ out = "running"
      /\ x = [Idling EXCEPT !.pc = "target"] /\ y = NoRead /\ faults = Faults
  BY DEF ExecutorInit
<1>2. x \in ExecutorRecord /\ x.pc = "target" /\ x.k = 1
  BY <1>1, IdlingIs DEF ExecutorRecord, Pcs
<1>3. y \in ReadRecord /\ y.k = 0 /\ y.done = {}
  BY <1>1 DEF NoRead, ReadRecord
<1>4. Types
  BY <1>1, <1>2, <1>3, PlanTyped DEF Types
<1>5. Planned /\ Given
  <2>1. Planned
    BY <1>1 DEF Planned
  <2>2. Given
    <3>1. /\ \A b \in DOMAIN builds : builds[b].target = b /\ builds[b].fits /\ builds[b].result = "succeeded"
          /\ \A r \in DOMAIN releases : releases[r].target = r
          /\ op # "sync_build_release" => DOMAIN builds = 1..N
          /\ op = "rollback" => DOMAIN releases = 1..N
      BY <1>1, PlanTyped
    <3> QED
      BY <3>1 DEF Given
  <2> QED
    BY <2>1, <2>2
<1>6. DOMAIN effects = {} /\ DOMAIN got = {}
  BY <1>1
<1>7. Once /\ Placed /\ DeploySound
  BY <1>1, <1>6 DEF Once, Placed, DeploySound
<1>8. Len(steps) \in Nat /\ DOMAIN steps = 1..Len(steps) /\ 1 \in DOMAIN steps
      /\ (op = "sync_build_release" <=> steps[1].kind = "build")
      /\ Len(builds) \in Nat /\ Len(releases) \in Nat
  <2>1. Len(steps) \in Nat /\ DOMAIN steps = 1..Len(steps) /\ Len(builds) \in Nat /\ Len(releases) \in Nat
        /\ steps \in Seq(StepRecord)
    BY <1>4, Indexed DEF Types
  <2>2. CASE op = "sync_build_release"
    BY <1>1, <1>5, <2>1, <2>2, PlanIs
  <2>3. CASE op # "sync_build_release"
    BY <1>1, <1>5, <2>1, <2>3, PlanIs
  <2> QED
    BY <2>1, <2>2, <2>3
<1>9. RowsOK
  BY <1>1, <1>6, <1>8, PlanTyped DEF RowsOK
<1>10. ExecutorTypeOK
  <2>1. x.k \in 1..Len(steps) + 1 /\ y.k \in 0..Len(steps) + 1
    BY <1>2, <1>3, <1>8
  <2>2. faults \in 0..Faults
    BY <1>1 DEF PlanAssumption
  <2>3. op \in Operations /\ drift \in BOOLEAN /\ stop \in {"no", "asked", "heard"} /\ flight \subseteq DOMAIN effects
        /\ out \in {"running", "succeeded", "failed", "cancelled", "unknown"}
    BY <1>1
  <2> QED
    BY <1>6, <1>9, <2>1, <2>2, <2>3 DEF ExecutorTypeOK
<1>11. InStep
  BY <1>2, <1>6, <1>8 DEF InStep
<1>12. Answering /\ Builds /\ Releases /\ Deploys
  BY <1>1, <1>2, <1>6 DEF Answering, Builds, Releases, Deploys, Doing, Releasing, Deploying
<1> QED
  BY <1>1, <1>2, <1>4, <1>5, <1>7, <1>10, <1>11, <1>12 DEF ExecutorInv, Acts

LEMMA ExecutorKeeps ==
  ASSUME PlanAssumption, ExecutorInv, Executor
  PROVE  ExecutorInv'
<1>1. Running
  BY DEF Executor, Begin, Acquire, Send, Refused, Receipt, Created, WaitBuild, Bind, Verify, Deploy, Poll,
         IntentRefused, RaisesAfterBind, At
<1>2. CASE Begin
  BY <1>1, <1>2, BeginKeeps, EndsAre, EndingKeeps
<1>3. CASE Acquire
  BY <1>1, <1>3, AcquireKeeps
<1>4. CASE Send
  BY <1>1, <1>4, AnsweredKeeps, EndsAre, EndingKeeps
<1>5. CASE Refused \/ IntentRefused
  BY <1>1, <1>5, EndsAre, EndingKeeps
<1>6. CASE Receipt
  BY <1>1, <1>6, ReceiptKeeps
<1>7. CASE Created
  BY <1>1, <1>7, CreatedKeeps
<1>8. CASE WaitBuild
  <2>1. out' # "running" => ExecutorInv'
    BY <1>1, <1>8, EndsAre, EndingKeeps
  <2>2. CASE out' = "running" /\ Completed(builds[x.build])
    <3>1. Usable(builds[x.build]) /\ NextStep("bind")
      BY <1>8, <2>2 DEF WaitBuild, EndsAfter, Ends
    <3> QED
      BY <1>1, <1>8, <3>1, BuiltKeeps
  <2>3. CASE out' = "running" /\ ~Completed(builds[x.build])
    BY <1>1, <1>8, <2>3, AsksCancelKeeps
  <2> QED
    BY <2>1, <2>2, <2>3
<1>9. CASE Bind
  BY <1>1, <1>9, AsksReleaseKeeps, EndsAre, EndingKeeps
<1>10. CASE Verify
  BY <1>1, <1>10, VerifiedKeeps, EndsAre, EndingKeeps
<1>11. CASE Deploy
  BY <1>1, <1>11, WaitsKeeps, AsksDeployKeeps, EndsAre, EndingKeeps
<1>12. CASE Poll
  BY <1>1, <1>12, TargetKeeps, EndsAre, EndingKeeps
<1> QED
  BY <1>2, <1>3, <1>4, <1>5, <1>6, <1>7, <1>8, <1>9, <1>10, <1>11, <1>12 DEF Executor

LEMMA NextKeeps ==
  ASSUME PlanAssumption, ExecutorInv, [ExecutorNext]_evars
  PROVE  ExecutorInv'
<1>1. CASE Executor
  BY <1>1, ExecutorKeeps
<1>2. CASE Reconcile
  BY <1>2, BeginReadingKeeps, ReadBuildKeeps, ReadReleaseKeeps, ConcludeKeeps DEF Reconcile
<1>3. CASE Progress
  BY <1>3, BuildEndsKeeps, DeploymentKeeps DEF Progress
<1>4. CASE Others
  <2>1. CASE \E r \in DOMAIN releases, e \in Envs : OtherDeployment(r, e) \/ AutoDeploys(r, e)
    BY <2>1, StartedKeeps
  <2> QED
    BY <1>4, <2>1, OthersKeep DEF Others
<1>5. CASE Transport
  BY <1>5, ArrivesKeeps, VanishesKeeps DEF Transport
<1>6. CASE Faulty
  <2>1. TimesOut \/ Fails \/ Crash => Running
    BY DEF TimesOut, Fails, Crash, At
  <2> QED
    BY <1>6, <2>1, ReadFailsKeeps, EndsAre, EndingKeeps DEF Faulty
<1>7. CASE Cancel
  BY <1>7, CancelKeeps
<1>8. CASE Over \/ UNCHANGED evars
  <2>1. UNCHANGED <<op, builds, releases, flight, got, drift, steps, effects, stop, out, x, y, faults>>
    BY <1>8 DEF Over, evars
  <2>2. Types' /\ Grown /\ drift' \in BOOLEAN
    BY <2>1 DEF ExecutorInv, ExecutorTypeOK, Types, Grown
  <2> QED
    BY <2>1, <2>2, ServerKeeps DEF local
<1> QED
  BY <1>1, <1>2, <1>3, <1>4, <1>5, <1>6, <1>7, <1>8 DEF ExecutorNext

LEMMA DeliversOnce ==
  ASSUME ExecutorInv
  PROVE  ExecutorTypeOK /\ SingleDelivery /\ DeployedIsBuilt
<1>1. /\ ExecutorTypeOK /\ Once /\ DeploySound /\ Placed /\ Types
      /\ \A n \in DOMAIN got : got[n] \in DOMAIN effects
  BY DEF ExecutorInv, ExecutorTypeOK
<1>2. SingleDelivery
  BY <1>1 DEF SingleDelivery, Once, Kind
<1>3. DeployedIsBuilt
  BY <1>1 DEF DeployedIsBuilt, DeploySound, Sound, Fine, Kind
<1> QED
  BY <1>1, <1>2, <1>3

-----------------------------------------------------------------------------
(* Where nobody else uses the server                                       *)
LEMMA EnvOnce ==
  ASSUME PlanAssumption, ExecutorInv, NEW i \in DOMAIN effects, NEW j \in DOMAIN effects,
         Kind(i) = "env_deploy", Kind(j) = "env_deploy",
         effects[i].remote = effects[j].remote, effects[i].env = effects[j].env
  PROVE  i = j
<1>1. /\ Types /\ Planned /\ Placed /\ DeploySound /\ Once /\ op \in Operations /\ steps \in Seq(StepRecord)
  BY DEF ExecutorInv, ExecutorTypeOK, Types
<1>2. /\ effects[i].step \in DOMAIN steps /\ effects[j].step \in DOMAIN steps
      /\ steps[effects[i].step].kind # "build" /\ steps[effects[j].step].kind # "build"
  BY <1>1 DEF Placed
<1>3. steps[effects[i].step].target = steps[effects[j].step].target
  BY <1>1 DEF DeploySound, Sound
<1>4. effects[i].step = effects[j].step
  BY <1>1, <1>2, <1>3, PlanIs
<1> QED
  BY <1>1, <1>4 DEF Once

(* A deployment of this run that has a result is not touched again         *)
EnvsKept ==
  \A r \in DOMAIN releases, e \in Selected :
    deployment_result(releases[r].envs[e]) # "none" /\ releases[r].envs[e].run # 0 =>
      releases'[r].envs[e] = releases[r].envs[e]

LEMMA DeployedStays ==
  ASSUME Grown, EnvsKept, NEW j, Deployed(j), steps'[j].release = steps[j].release, steps'[j].target = steps[j].target
  PROVE  Deployed(j)'
<1>1. PICK r : r = steps[j].release
  OBVIOUS
<1>2. /\ r \in DOMAIN releases /\ releases[r].target = steps[j].target
      /\ \A e \in Selected : releases[r].envs[e].run # 0 /\ releases[r].envs[e].status = "succeeded" /\ releases[r].envs[e].agreed
  BY <1>1 DEF Deployed
<1>3. r \in DOMAIN releases' /\ releases'[r].target = steps'[j].target
  BY <1>2 DEF Grown
<1>4. \A e \in Selected : releases'[r].envs[e] = releases[r].envs[e]
  BY <1>2 DEF EnvsKept, deployment_result, RELEASE_TERMINAL
<1>5. \A e \in Selected :
        releases'[r].envs[e].run # 0 /\ releases'[r].envs[e].status = "succeeded" /\ releases'[r].envs[e].agreed
  BY <1>2, <1>4
<1> QED
  BY <1>1, <1>3, <1>5 DEF Deployed

LEMMA ReadStays ==
  ASSUME ExecutorInv, Known, Grown, EnvsKept, UNCHANGED <<steps, effects, y>>, \A i : Reached(i) => Reached(i)', Read
  PROVE  Read'
<1>1. ASSUME ~y.uncertain, NEW i \in DOMAIN effects, effects[i].step < y.k
      PROVE  /\ Kind(i) = "build_create" => effects[i].remote # 0 /\ Completed(builds'[effects[i].remote])
             /\ Kind(i) = "release_create" => Reached(i)'
             /\ Kind(i) = "env_deploy" =>
                  Reached(i)' /\ deployment_result(releases'[effects[i].remote].envs[effects[i].env]) # "none"
  <2>1. CASE Kind(i) = "build_create"
    <3>1. effects[i].remote # 0 /\ Completed(builds[effects[i].remote]) /\ effects[i].remote \in DOMAIN builds
      BY <1>1, <2>1 DEF Read, Known
    <3> QED
      BY <2>1, <3>1 DEF Grown, Completed
  <2>2. CASE Kind(i) = "release_create"
    BY <1>1, <2>2 DEF Read
  <2>3. CASE Kind(i) = "env_deploy"
    <3>1. /\ Reached(i) /\ deployment_result(releases[effects[i].remote].envs[effects[i].env]) # "none"
          /\ releases[effects[i].remote].envs[effects[i].env].run = i
      BY <1>1, <2>3 DEF Read, Known
    <3>2. effects[i].remote \in DOMAIN releases /\ effects[i].env \in Selected /\ i # 0
      BY <2>3, ReadIs DEF ExecutorInv, DeploySound, Sound
    <3>3. releases'[effects[i].remote].envs[effects[i].env] = releases[effects[i].remote].envs[effects[i].env]
      BY <3>1, <3>2 DEF EnvsKept
    <3> QED
      BY <2>3, <3>1, <3>3
  <2> QED
    BY <2>1, <2>2, <2>3
<1>2. ASSUME ~y.uncertain /\ ~y.failed, NEW j \in y.done, steps[j].kind # "build"
      PROVE  Deployed(j)'
  BY <1>2, DeployedStays DEF Read
<1> QED
  BY <1>1, <1>2 DEF Read, Kind, Completed, deployment_result

(* A step of the server, or a request that arrives                         *)
LEMMA ServerAlone ==
  ASSUME ExecutorInv, AloneInv, Grown, EnvsKept,
         UNCHANGED <<steps, effects, out, x, y>>, \A i : Reached(i) => Reached(i)',
         Ours', Known', out = "running" => OnlyHere', DecidedIsQuiet'
  PROVE  AloneInv'
<1>1. Succeeds'
  <2>1. Succeeds
    BY DEF AloneInv
  <2>2. ASSUME NEW j \in DOMAIN steps, Deployed(j) PROVE Deployed(j)'
    BY <2>2, DeployedStays
  <2> QED
    BY <2>1, <2>2 DEF Succeeds
<1>2. out = "unknown" => Read'
  BY ReadStays DEF AloneInv
<1>3. ConfirmedWasDelivered'
  <2>1. ConfirmedWasDelivered
    BY DEF AloneInv
  <2> QED
    BY <2>1 DEF ConfirmedWasDelivered, Reached
<1> QED
  BY <1>1, <1>2, <1>3 DEF AloneInv

LEMMA BuildEndsAlone ==
  ASSUME ExecutorInv, AloneInv, ExecutorInv', NEW b \in DOMAIN builds, BuildEnds(b)
  PROVE  AloneInv'
<1>1. /\ ~Completed(builds[b])
      /\ UNCHANGED <<op, releases, flight, got, drift, steps, effects, stop, out, x, y, faults>>
  BY DEF BuildEnds, local
<1>2. /\ Grown /\ DOMAIN builds' = DOMAIN builds
      /\ \A c \in DOMAIN builds : /\ builds'[c].by = builds[c].by
                                  /\ Completed(builds[c]) => Completed(builds'[c])
  <2>1. /\ DOMAIN builds' = DOMAIN builds /\ Completed(builds'[b])
        /\ \A c \in DOMAIN builds : c # b => builds'[c] = builds[c]
        /\ builds'[b].by = builds[b].by /\ Grown
    BY <1>1, OneBuild DEF ExecutorInv
  <2> QED
    BY <2>1 DEF Completed
<1>3. EnvsKept
  BY <1>1 DEF EnvsKept
<1>4. \A i : Reached(i) <=> Reached(i)'
  BY <1>1 DEF Reached
<1>5. Ours'
  <2>1. Ours
    BY DEF AloneInv
  <2> QED
    BY <1>1, <1>2, <1>4, <2>1 DEF Ours, Kind
<1>6. Known'
  <2>1. Known
    BY DEF AloneInv
  <2> QED
    BY <1>1, <1>2, <1>4, <2>1 DEF Known, Kind
<1>7. ASSUME out = "running" PROVE OnlyHere'
  <2>1. OnlyHere
    BY <1>7 DEF AloneInv
  <2> QED
    BY <1>1, <1>2, <2>1 DEF OnlyHere, Kind, Last, Doing, Building, Releasing, Deploying
<1>8. DecidedIsQuiet'
  <2>1. DecidedIsQuiet
    BY DEF AloneInv
  <2> QED
    BY <1>1, <1>2, <2>1 DEF DecidedIsQuiet, Completed
<1> QED
  BY <1>1, <1>2, <1>3, <1>4, <1>5, <1>6, <1>7, <1>8, ServerAlone

(* One environment changes: nothing settled, no run of it is forgotten     *)
LEMMA EnvAlone ==
  ASSUME ExecutorInv, AloneInv, NEW r \in DOMAIN releases, NEW e \in Envs, NEW v \in EnvRecord,
         UNCHANGED <<op, builds, flight, got, drift, local>>,
         releases' = [releases EXCEPT ![r].envs[e] = v], v.trigger = releases[r].envs[e].trigger,
         v.run = releases[r].envs[e].run,
         e \in Selected => v.attempt = releases[r].envs[e].attempt /\ deployment_result(releases[r].envs[e]) = "none",
         v.run # 0 => v.status \in RELEASE_TERMINAL
  PROVE  AloneInv'
<1>1. /\ UNCHANGED <<op, builds, flight, got, drift, steps, effects, stop, out, x, y, faults>> /\ Types
      /\ releases \in Seq(ReleaseRecord)
  BY DEF local, ExecutorInv, Types
<1>2. /\ releases' \in Seq(ReleaseRecord)
      /\ DOMAIN releases' = DOMAIN releases /\ Len(releases') = Len(releases)
      /\ \A q \in DOMAIN releases :
           /\ releases'[q].target = releases[q].target /\ releases'[q].build = releases[q].build
           /\ releases'[q].by = releases[q].by
           /\ \A d \in Envs : releases'[q].envs[d] = IF q = r /\ d = e THEN v ELSE releases[q].envs[d]
      /\ \A q \in DOMAIN releases, d \in Envs : releases'[q].envs[d].trigger = releases[q].envs[d].trigger
  BY <1>1, EnvSet, Zenon
<1>3. Grown
  BY <1>1, <1>2 DEF Grown
<1>4. Selected \subseteq Envs
  BY DEF Envs
<1>5. EnvsKept
  BY <1>2, <1>4 DEF EnvsKept
<1>6. \A q \in DOMAIN releases, d \in Envs : releases'[q].envs[d].run = releases[q].envs[d].run
  BY <1>2
<1>7. \A q \in DOMAIN releases, d \in Selected : releases'[q].envs[d].attempt = releases[q].envs[d].attempt
  BY <1>2, <1>4
<1>8. \A i : Reached(i) <=> Reached(i)'
  BY <1>1 DEF Reached
<1>9. Ours'
  <2>1. Ours
    BY DEF AloneInv
  <2>2. /\ \A q \in DOMAIN releases' : q \in DOMAIN releases /\ releases'[q].by = releases[q].by
        /\ \A q \in DOMAIN releases', d \in Envs : releases'[q].envs[d].trigger = releases[q].envs[d].trigger
        /\ builds' = builds /\ effects' = effects /\ drift' = drift
    BY <1>1, <1>2
  <2>3. (\A q \in DOMAIN releases :
          /\ releases[q].by # 0 => Reached(releases[q].by)
          /\ \A d \in Selected : releases[q].envs[d].trigger = "manual")'
    BY <1>4, <1>8, <2>1, <2>2 DEF Ours
  <2>4. (\A q \in DOMAIN releases : \A d \in Envs : LET i == releases[q].envs[d].run IN
          i # 0 => /\ i \in DOMAIN effects /\ Kind(i) = "env_deploy" /\ Reached(i)
                   /\ effects[i].remote = q /\ effects[i].env = d)'
    BY <1>6, <1>8, <2>1, <2>2 DEF Ours, Kind
  <2>5. (/\ ~drift
         /\ \A b \in DOMAIN builds :
              /\ builds[b].by = 0 => Completed(builds[b])
              /\ builds[b].by # 0 =>
                   /\ builds[b].by \in DOMAIN effects /\ Kind(builds[b].by) = "build_create"
                   /\ Reached(builds[b].by) /\ effects[builds[b].by].remote \in {0, b})'
    BY <1>8, <2>1, <2>2 DEF Ours, Kind, Completed
  <2> QED
    BY <2>3, <2>4, <2>5 DEF Ours
<1>10. Known'
  <2>1. Known
    BY DEF AloneInv
  <2>2. \A i \in DOMAIN effects : Kind(i) = "env_deploy" => effects[i].remote \in DOMAIN releases /\ effects[i].env \in Selected
    BY DEF ExecutorInv, DeploySound, Sound
  <2> QED
    BY <1>1, <1>2, <1>4, <1>6, <1>7, <1>8, <2>1, <2>2 DEF Known, Kind
<1>11. \A q \in DOMAIN releases, d \in Envs :
         releases[q].envs[d].status \in RELEASE_TERMINAL /\ releases[q].envs[d].run # 0 =>
           releases'[q].envs[d].status \in RELEASE_TERMINAL
  BY <1>2
<1>12. ASSUME out = "running" PROVE OnlyHere'
  <2>1. OnlyHere /\ (Deploying => x.release \in DOMAIN releases)
    BY <1>12 DEF AloneInv, ExecutorInv, Acts, Releases
  <2> QED
    BY <1>1, <1>2, <1>4, <1>6, <1>7, <1>11, <2>1 DEF OnlyHere, Kind, Last, Doing, Building, Releasing, Deploying
<1>13. DecidedIsQuiet'
  <2>1. DecidedIsQuiet
    BY DEF AloneInv
  <2> QED
    BY <1>1, <1>2, <1>6, <1>11, <2>1 DEF DecidedIsQuiet
<1> QED
  BY <1>1, <1>3, <1>5, <1>8, <1>9, <1>10, <1>12, <1>13, ServerAlone

LEMMA DeploymentAlone ==
  ASSUME ExecutorInv, AloneInv, NEW r \in DOMAIN releases, NEW e \in Envs,
         DeploymentEnds(r, e) \/ Agrees(r, e)
  PROVE  AloneInv'
<1>1. Types /\ UNCHANGED <<op, builds, flight, got, drift, local>>
  BY DEF ExecutorInv, DeploymentEnds, Agrees
<1>2. deployment_result(releases[r].envs[e]) = "none"
  BY DEF DeploymentEnds, Agrees, deployment_result, RELEASE_TERMINAL
<1>3. PICK v \in EnvRecord :
        /\ releases' = [releases EXCEPT ![r].envs[e] = v]
        /\ v.run = releases[r].envs[e].run /\ v.trigger = releases[r].envs[e].trigger
        /\ v.attempt = releases[r].envs[e].attempt /\ v.status \in RELEASE_TERMINAL
  BY <1>1, EnvIs
<1> QED
  BY <1>1, <1>2, <1>3, EnvAlone

(* The executor deploys the selected environments only                     *)
LEMMA RunsAreSelected ==
  ASSUME ExecutorInv, Ours, NEW r \in DOMAIN releases, NEW e \in Envs, releases[r].envs[e].run # 0
  PROVE  e \in Selected
BY DEF Ours, ExecutorInv, DeploySound

LEMMA AutoAlone ==
  ASSUME ExecutorInv, AloneInv, NEW r \in DOMAIN releases, NEW e \in Envs, AutoDeploys(r, e)
  PROVE  AloneInv'
<1>1. Types /\ UNCHANGED <<op, builds, flight, got, drift, local>> /\ releases[r].envs[e].trigger = "automatic"
  BY DEF ExecutorInv, AutoDeploys
<1>2. e \notin Selected /\ releases[r].envs[e].run = 0
  <2>1. Ours
    BY DEF AloneInv
  <2>2. e \notin Selected
    BY <1>1, <2>1 DEF Ours
  <2> QED
    BY <2>1, <2>2, RunsAreSelected
<1>3. PICK v \in EnvRecord :
        /\ v.status = "inProgress" /\ ~v.agreed /\ v.attempt = releases[r].envs[e].attempt + 1
        /\ v.run = 0 /\ v.trigger = releases[r].envs[e].trigger
        /\ releases' = [releases EXCEPT ![r].envs[e] = v]
  <2>1. releases \in Seq(ReleaseRecord) /\ Start(r, e, 0)
    BY <1>1 DEF AutoDeploys, Types
  <2> QED
    BY <2>1, StartIs
<1> QED
  BY <1>1, <1>2, <1>3, EnvAlone

-----------------------------------------------------------------------------
(* A request reaches the server                                            *)

(* The environment that is deployed had no deployment of this run          *)
LEMMA FreshTarget ==
  ASSUME PlanAssumption, ExecutorInv, Ours, NEW i \in DOMAIN effects, Kind(i) = "env_deploy", ~Reached(i)
  PROVE  /\ effects[i].remote \in DOMAIN releases /\ effects[i].env \in Selected /\ effects[i].env \in Envs
         /\ releases[effects[i].remote].envs[effects[i].env].run = 0
<1>1. effects[i].remote \in DOMAIN releases /\ effects[i].env \in Selected /\ effects[i].env \in Envs
  BY DEF ExecutorInv, DeploySound, Sound, Envs
<1>2. PICK j : j = releases[effects[i].remote].envs[effects[i].env].run
  OBVIOUS
<1>3. ASSUME j # 0 PROVE FALSE
  <2>1. /\ j \in DOMAIN effects /\ Kind(j) = "env_deploy" /\ Reached(j)
        /\ effects[j].remote = effects[i].remote /\ effects[j].env = effects[i].env
    BY <1>1, <1>2, <1>3 DEF Ours
  <2>2. i = j
    BY <2>1, EnvOnce
  <2> QED
    BY <2>1, <2>2
<1> QED
  BY <1>1, <1>2, <1>3

(* What the server has done when it takes the request of effect i, where   *)
(* nobody else uses it                                                     *)
Taken(i) ==
  /\ \A b \in DOMAIN builds' : (b \in DOMAIN builds /\ builds'[b] = builds[b])
       \/ (Kind(i) = "build_create" /\ b = Len(builds) + 1 /\ b \notin DOMAIN builds /\ builds'[b].by = i)
  /\ \A b \in DOMAIN builds : b \in DOMAIN builds' /\ builds'[b] = builds[b]
  /\ \A r \in DOMAIN releases' :
       \/ r \in DOMAIN releases /\ releases'[r].by = releases[r].by
          /\ \A e \in Envs :
               \/ releases'[r].envs[e] = releases[r].envs[e]
               \/ /\ Kind(i) = "env_deploy" /\ r = effects[i].remote /\ e = effects[i].env
                  /\ releases'[r].envs[e].run = i /\ releases'[r].envs[e].trigger = releases[r].envs[e].trigger
       \/ /\ Kind(i) = "release_create" /\ r = Len(releases) + 1 /\ r \notin DOMAIN releases /\ releases'[r].by = i
          /\ \A e \in Envs : releases'[r].envs[e].run = 0
          /\ \A e \in Selected : releases'[r].envs[e].trigger = "manual"
  /\ Kind(i) = "env_deploy" => releases'[effects[i].remote].envs[effects[i].env].run = i

LEMMA TakenIs ==
  ASSUME PlanAssumption, ExecutorInv, Ours, NEW i \in DOMAIN effects, Perform(i), ~Reached(i)
  PROVE  Taken(i)
<1>1. /\ Types /\ Placed /\ DeploySound /\ builds \in Seq(BuildRecord) /\ releases \in Seq(ReleaseRecord)
      /\ i \in Nat /\ Kind(i) \in {"build_create", "build_cancel", "release_create", "env_deploy"}
  <2>1. Types /\ Placed /\ DeploySound /\ builds \in Seq(BuildRecord) /\ releases \in Seq(ReleaseRecord)
    BY DEF ExecutorInv, Types
  <2>2. effects \in Seq(EffectRecord)
    BY <2>1 DEF Types
  <2>3. i \in Nat /\ effects[i] \in EffectRecord
    BY <2>2, Indexed
  <2>4. Kind(i) \in {"build_create", "build_cancel", "release_create", "env_deploy"}
    BY <2>3 DEF Kind, EffectRecord
  <2> QED
    BY <2>1, <2>3, <2>4
<1>2. /\ Len(builds) \in Nat /\ DOMAIN builds = 1..Len(builds)
      /\ Len(releases) \in Nat /\ DOMAIN releases = 1..Len(releases)
  BY <1>1, Indexed
<1>3. CASE Kind(i) = "build_create"
  <2>1. /\ releases' = releases
        /\ builds' = Append(builds, [target |-> steps[effects[i].step].target, fits |-> TRUE,
                                     result |-> "none", by |-> i])
    BY <1>3 DEF Perform, Kind
  <2>2. PICK v : v = [target |-> steps[effects[i].step].target, fits |-> TRUE, result |-> "none", by |-> i]
    OBVIOUS
  <2>3. /\ DOMAIN builds' = DOMAIN builds \cup {Len(builds) + 1} /\ Len(builds) + 1 \notin DOMAIN builds
        /\ builds'[Len(builds) + 1] = v /\ \A b \in DOMAIN builds : builds'[b] = builds[b]
    BY <1>1, <1>2, <2>1, <2>2
  <2>4. v.by = i
    BY <2>2
  <2> QED
    BY <1>3, <2>1, <2>3, <2>4 DEF Taken
<1>4. CASE Kind(i) = "build_cancel"
  <2>1. builds' = builds /\ releases' = releases
    BY <1>4 DEF Perform, Kind
  <2> QED
    BY <1>4, <2>1 DEF Taken
<1>5. CASE Kind(i) = "release_create"
  <2>1. PICK trigger \in {"manual", "automatic"} :
          /\ builds' = builds
          /\ releases' = Append(releases,
               [target |-> steps[effects[i].step].target, build |-> effects[i].base, by |-> i,
                envs |-> [e \in Envs |-> Fresh(IF e \in Unselected THEN trigger ELSE "manual")]])
    BY <1>5 DEF Perform, Kind
  <2>2. PICK v : v = [target |-> steps[effects[i].step].target, build |-> effects[i].base, by |-> i,
                      envs |-> [e \in Envs |-> Fresh(IF e \in Unselected THEN trigger ELSE "manual")]]
    OBVIOUS
  <2>3. /\ DOMAIN releases' = DOMAIN releases \cup {Len(releases) + 1} /\ Len(releases) + 1 \notin DOMAIN releases
        /\ releases'[Len(releases) + 1] = v /\ \A r \in DOMAIN releases : releases'[r] = releases[r]
    BY <1>1, <1>2, <2>1, <2>2
  <2>4. v.by = i /\ \A e \in Envs : v.envs[e] = Fresh(IF e \in Unselected THEN trigger ELSE "manual")
    BY <2>2
  <2>7. \A t : Fresh(t).run = 0 /\ Fresh(t).trigger = t
    BY DEF Fresh
  <2>5. \A e \in Envs : v.envs[e].run = 0 /\ (e \notin Unselected => v.envs[e].trigger = "manual")
    BY <2>4, <2>7
  <2>6. \A e \in Selected : e \in Envs /\ e \notin Unselected
    BY DEF PlanAssumption, Envs
  <2> QED
    BY <1>5, <2>1, <2>3, <2>4, <2>5, <2>6 DEF Taken
<1>6. CASE Kind(i) = "env_deploy"
  <2>1. PICK q, d : q = effects[i].remote /\ d = effects[i].env
    OBVIOUS
  <2>2. q \in DOMAIN releases /\ d \in Envs
    BY <1>6, <2>1, FreshTarget
  <2>3. builds' = builds /\ Start(q, d, i)
    BY <1>6, <2>1 DEF Perform, Kind, Start
  <2>4. PICK v \in EnvRecord :
          /\ v.status = "inProgress" /\ ~v.agreed /\ v.attempt = releases[q].envs[d].attempt + 1
          /\ v.run = i /\ v.trigger = releases[q].envs[d].trigger
          /\ releases' = [releases EXCEPT ![q].envs[d] = v]
    BY <1>1, <2>2, <2>3, StartIs
  <2>5. /\ releases' \in Seq(ReleaseRecord)
        /\ DOMAIN releases' = DOMAIN releases /\ Len(releases') = Len(releases)
        /\ \A r \in DOMAIN releases :
             /\ releases'[r].target = releases[r].target /\ releases'[r].build = releases[r].build
             /\ releases'[r].by = releases[r].by
             /\ \A e \in Envs : releases'[r].envs[e] = IF r = q /\ e = d THEN v ELSE releases[r].envs[e]
        /\ \A r \in DOMAIN releases, e \in Envs : releases'[r].envs[e].trigger = releases[r].envs[e].trigger
    BY <1>1, <2>2, <2>4, EnvSet, Zenon
  <2>6. releases'[q].envs[d].run = i
    <3>1. releases'[q].envs[d] = v
      BY <2>2, <2>5
    <3>2. v.run = i
      BY <2>4
    <3> QED
      BY <3>1, <3>2, Zenon
  <2>7. ASSUME NEW r \in DOMAIN releases, NEW e \in Envs
        PROVE  \/ releases'[r].envs[e] = releases[r].envs[e]
               \/ /\ r = q /\ e = d
                  /\ releases'[r].envs[e].run = i /\ releases'[r].envs[e].trigger = releases[r].envs[e].trigger
    BY <2>5, <2>6
  <2> QED
    BY <1>6, <2>1, <2>3, <2>5, <2>6, <2>7 DEF Taken
<1> QED
  BY <1>1, <1>3, <1>4, <1>5, <1>6

LEMMA TakenKeeps ==
  ASSUME PlanAssumption, ExecutorInv, Ours, Known, NEW i \in DOMAIN effects, ~Reached(i), Taken(i), Grown,
         UNCHANGED <<drift, effects, steps>>, \A j : Reached(j)' <=> (Reached(j) \/ j = i)
  PROVE  Ours' /\ Known' /\ EnvsKept
<1>1. ASSUME NEW r \in DOMAIN releases, NEW e \in Envs
      PROVE  /\ r \in DOMAIN releases'
             /\ releases'[r].envs[e].trigger = releases[r].envs[e].trigger
             /\ \/ releases'[r].envs[e] = releases[r].envs[e]
                \/ /\ Kind(i) = "env_deploy" /\ r = effects[i].remote /\ e = effects[i].env
                   /\ releases'[r].envs[e].run = i
  <2>1. r \in DOMAIN releases'
    BY DEF Grown
  <2> QED
    BY <2>1 DEF Taken
<1>2. EnvsKept
  <2>1. ASSUME NEW r \in DOMAIN releases, NEW e \in Selected, releases[r].envs[e].run # 0
        PROVE  releases'[r].envs[e] = releases[r].envs[e]
    <3>1. e \in Envs /\ ~(Kind(i) = "env_deploy" /\ r = effects[i].remote /\ e = effects[i].env)
      BY <2>1, FreshTarget DEF Envs
    <3> QED
      BY <1>1, <3>1
  <2> QED
    BY <2>1 DEF EnvsKept
<1>3. Known'
  <2>1. ASSUME NEW j \in DOMAIN effects
        PROVE  /\ Kind(j) = "build_create" /\ effects[j].remote # 0 => Reached(j)' /\ effects[j].remote \in DOMAIN builds'
               /\ Kind(j) = "release_create" /\ (effects[j].remote # 0 \/ steps[effects[j].step].release # 0) => Reached(j)'
    BY <2>1 DEF Known, Taken
  <2>2. ASSUME NEW j \in DOMAIN effects, Kind(j) = "env_deploy"
        PROVE  IF Reached(j)' THEN releases'[effects[j].remote].envs[effects[j].env].run = j
               ELSE releases'[effects[j].remote].envs[effects[j].env].attempt <= effects[j].base
    <3>1. PICK r, e : r = effects[j].remote /\ e = effects[j].env
      OBVIOUS
    <3>2. r \in DOMAIN releases /\ e \in Envs
      BY <2>2, <3>1 DEF ExecutorInv, DeploySound, Sound, Envs
    <3>3. IF Reached(j) THEN releases[r].envs[e].run = j ELSE releases[r].envs[e].attempt <= effects[j].base
      BY <2>2, <3>1 DEF Known
    <3>4. CASE j = i
      BY <2>2, <3>4 DEF Taken
    <3>5. CASE j # i
      <4>1. ~(Kind(i) = "env_deploy" /\ r = effects[i].remote /\ e = effects[i].env)
        BY <2>2, <3>1, <3>5, EnvOnce
      <4>2. releases'[r].envs[e] = releases[r].envs[e]
        BY <1>1, <3>2, <4>1
      <4> QED
        BY <3>1, <3>3, <3>5, <4>2
    <3> QED
      BY <3>4, <3>5
  <2> QED
    BY <2>1, <2>2 DEF Known, Kind
<1>4. Ours'
  <2>1. ASSUME NEW b \in DOMAIN builds', NEW j, j = builds'[b].by
        PROVE  /\ j = 0 => builds'[b].result # "none"
               /\ j # 0 => /\ j \in DOMAIN effects /\ Kind(j) = "build_create"
                           /\ Reached(j)' /\ effects[j].remote \in {0, b}
    <3>1. i # 0 /\ (Kind(i) = "build_create" => effects[i].remote = 0)
      BY ReadIs DEF Known
    <3>2. \/ b \in DOMAIN builds /\ builds'[b] = builds[b]
          \/ Kind(i) = "build_create" /\ j = i
      BY <2>1 DEF Taken
    <3>3. CASE b \in DOMAIN builds /\ builds'[b] = builds[b]
      BY <2>1, <3>3 DEF Ours, Completed
    <3>4. CASE Kind(i) = "build_create" /\ j = i
      BY <3>1, <3>4
    <3> QED
      BY <3>2, <3>3, <3>4
  <2>2. ASSUME NEW r \in DOMAIN releases'
        PROVE  /\ \A j : j = releases'[r].by /\ j # 0 => Reached(j)'
               /\ \A e \in Selected : releases'[r].envs[e].trigger = "manual"
    <3>1. CASE r \in DOMAIN releases
      <4>1. releases'[r].by = releases[r].by
        BY <3>1 DEF Grown
      <4> QED
        BY <1>1, <3>1, <4>1 DEF Ours, Envs
    <3>2. CASE r \notin DOMAIN releases
      BY <3>2 DEF Taken
    <3> QED
      BY <3>1, <3>2
  <2>3. ASSUME NEW r \in DOMAIN releases', NEW e \in Envs, NEW j, j = releases'[r].envs[e].run, j # 0
        PROVE  /\ j \in DOMAIN effects /\ Kind(j) = "env_deploy" /\ Reached(j)'
               /\ effects[j].remote = r /\ effects[j].env = e
    <3>1. r \in DOMAIN releases
      BY <2>3 DEF Taken
    <3>2. \/ releases[r].envs[e].run = j
          \/ Kind(i) = "env_deploy" /\ r = effects[i].remote /\ e = effects[i].env /\ j = i
      BY <1>1, <2>3, <3>1
    <3> QED
      BY <2>3, <3>1, <3>2 DEF Ours
  <2> QED
    <3>1. ~drift'
      BY DEF Ours
    <3> QED
      BY <2>1, <2>2, <2>3, <3>1 DEF Ours, Kind, Reached, Completed
<1> QED
  BY <1>2, <1>3, <1>4

LEMMA ArrivesAlone ==
  ASSUME PlanAssumption, ExecutorInv, AloneInv, NEW i \in flight, Arrives(i)
  PROVE  AloneInv'
<1>1. /\ UNCHANGED <<op, drift, steps, effects, stop, out, x, y, faults>> /\ Perform(i)
      /\ i \in DOMAIN effects /\ ~Reached(i) /\ Types /\ Placed /\ DeploySound /\ Ours /\ Known
  BY DEF Arrives, local, ExecutorInv, ExecutorTypeOK, Once, AloneInv
<1>2. Grown /\ \A j : Reached(j)' <=> (Reached(j) \/ j = i)
  <2>1. /\ Grown
        /\ got' \in Seq(Nat) /\ DOMAIN got' = DOMAIN got \cup {Len(got) + 1} /\ Len(got) + 1 \notin DOMAIN got
        /\ got'[Len(got) + 1] = i /\ \A n \in DOMAIN got : got'[n] = got[n]
    BY <1>1, Performed
  <2> QED
    BY <1>1, <2>1, ReachedIs
<1>3. Ours' /\ Known' /\ EnvsKept
  <2>1. Taken(i)
    BY <1>1, TakenIs
  <2> QED
    BY <1>1, <1>2, <2>1, TakenKeeps
<1>4. out # "running"
  BY DEF ExecutorInv, Acts, Answering
<1>5. DecidedIsQuiet'
  <2>1. DecidedIsQuiet /\ (out' \in Decided <=> out \in Decided) /\ flight' = flight \ {i}
    BY <1>1 DEF AloneInv, Arrives
  <2>2. ASSUME out \in Decided PROVE UNCHANGED <<builds, releases>>
    <3>1. Kind(i) = "build_cancel"
      BY <2>1, <2>2 DEF DecidedIsQuiet, Kind
    <3> QED
      BY <1>1, <3>1 DEF Perform, Kind
  <2> QED
    BY <1>1, <2>1, <2>2 DEF DecidedIsQuiet
<1> QED
  BY <1>1, <1>2, <1>3, <1>4, <1>5, ServerAlone

LEMMA VanishesAlone ==
  ASSUME ExecutorInv, AloneInv, NEW i \in flight, Vanishes(i)
  PROVE  AloneInv'
<1>1. /\ UNCHANGED <<op, builds, releases, got, drift, steps, effects, stop, out, x, y, faults>>
      /\ flight' = flight \ {i}
  BY DEF Vanishes, local
<1>2. Grown /\ EnvsKept
  BY <1>1 DEF Grown, EnvsKept
<1>3. \A j : Reached(j) <=> Reached(j)'
  BY <1>1 DEF Reached
<1>4. out # "running"
  BY DEF ExecutorInv, Acts, Answering
<1>5. Ours' /\ Known'
  <2>1. Ours /\ Known
    BY DEF AloneInv
  <2>2. Ours'
    BY <1>1, <1>3, <2>1 DEF Ours, Kind
  <2>3. Known'
    BY <1>1, <1>3, <2>1 DEF Known, Kind
  <2> QED
    BY <2>2, <2>3
<1>6. DecidedIsQuiet'
  <2>1. DecidedIsQuiet
    BY DEF AloneInv
  <2> QED
    BY <1>1, <2>1 DEF DecidedIsQuiet
<1> QED
  BY <1>1, <1>2, <1>3, <1>4, <1>5, <1>6, ServerAlone

-----------------------------------------------------------------------------
(* The run ends                                                            *)
Calm ==
  /\ \A b \in DOMAIN builds : Completed(builds[b])
  /\ \A r \in DOMAIN releases, e \in Envs :
       releases[r].envs[e].run # 0 => releases[r].envs[e].status \in RELEASE_TERMINAL

LEMMA EndAlone ==
  ASSUME ExecutorInv, AloneInv, Ending, out' \in Decided => Calm,
         out' = "succeeded" => \A j \in DOMAIN steps : steps[j].status = "succeeded" /\ steps'[j] = steps[j]
  PROVE  AloneInv'
<1>1. /\ Types /\ Acts /\ OnlyHere /\ Ours /\ Known /\ Succeeds /\ ConfirmedWasDelivered
      /\ UNCHANGED <<op, builds, releases, got, drift, effects, y>>
  BY DEF ExecutorInv, AloneInv, Ending
<1>2. /\ DOMAIN steps' = DOMAIN steps
      /\ \A j \in DOMAIN steps :
           /\ steps'[j].kind = steps[j].kind /\ steps'[j].target = steps[j].target
           /\ steps'[j].release = steps[j].release
           /\ steps'[j].status = "succeeded" => steps[j].status = "succeeded"
  <2>1. CASE steps' = steps
    BY <2>1
  <2>2. CASE \E st \in {"failed", "unknown"} : x.pc # "target" /\ steps' = [steps EXCEPT ![x.k].status = st]
    <3>1. PICK st \in {"pending", "succeeded", "failed", "unknown"} :
            st # "succeeded" /\ x.pc # "target" /\ steps' = [steps EXCEPT ![x.k].status = st]
      BY <2>2
    <3>2. x.k \in DOMAIN steps /\ op' = op
      BY <1>1, <3>1 DEF Acts, InStep
    <3>3. /\ SamePlan /\ steps'[x.k].status = st
          /\ \A j \in DOMAIN steps : j # x.k => steps'[j] = steps[j]
          /\ \A j \in DOMAIN steps : steps'[j].build = steps[j].build /\ steps'[j].release = steps[j].release
      BY <1>1, <3>1, <3>2, StatusSet
    <3> QED
      BY <3>1, <3>3 DEF SamePlan
  <2> QED
    BY <2>1, <2>2 DEF Ending
<1>3. Ours' /\ Known'
  <2>1. \A i \in DOMAIN effects : effects[i].step \in DOMAIN steps
    BY DEF ExecutorInv, Placed
  <2>2. Ours'
    BY <1>1 DEF Ours, Kind, Reached
  <2>3. Known'
    BY <1>1, <1>2, <2>1 DEF Known, Kind, Reached
  <2> QED
    BY <2>2, <2>3
<1>4. Succeeds'
  <2>1. ASSUME NEW j \in DOMAIN steps, Deployed(j) PROVE Deployed(j)'
    <3>1. Grown /\ EnvsKept
      BY <1>1 DEF Grown, EnvsKept
    <3> QED
      BY <1>2, <2>1, <3>1, DeployedStays
  <2>2. \A j \in DOMAIN steps' : steps'[j].kind # "build" /\ steps'[j].status = "succeeded" => Deployed(j)'
    BY <1>1, <1>2, <2>1 DEF Succeeds
  <2>3. out' = "succeeded" => \A j \in DOMAIN steps' : steps'[j].status = "succeeded"
    BY <1>2
  <2> QED
    BY <2>2, <2>3 DEF Succeeds
<1>5. Read'
  <2>1. y = NoRead /\ \A i \in DOMAIN effects : effects[i].step \in Nat
    BY <1>1, EffectIs DEF OnlyHere
  <2>2. y'.done = {} /\ y'.k = 0
    BY <1>1, <2>1 DEF NoRead
  <2>3. \A i \in DOMAIN effects : ~(effects[i].step < 0)
    BY <2>1
  <2> QED
    BY <1>1, <2>2, <2>3 DEF Read
<1>6. ConfirmedWasDelivered'
  BY <1>1 DEF ConfirmedWasDelivered
<1>7. DecidedIsQuiet'
  <2>1. flight = {} /\ (out' \in Decided => flight' = flight)
    BY <1>1 DEF Acts, Answering, Ending, Decided
  <2> QED
    BY <1>1, <2>1 DEF DecidedIsQuiet, Calm, Completed
<1>8. out' # "running"
  BY DEF Ending
<1> QED
  BY <1>3, <1>4, <1>5, <1>6, <1>7, <1>8 DEF AloneInv

(* Before anything was asked for there is nothing to wait for              *)
LEMMA NothingAsked ==
  ASSUME Ours, effects = <<>>
  PROVE  Calm
BY DEF Ours, Calm

(* Only the step that the run is in may have something under way           *)
LEMMA CalmIs ==
  ASSUME ExecutorInv, Ours, OnlyHere,
         Building /\ x.build \in DOMAIN builds => Completed(builds[x.build]),
         Deploying => \A e \in Selected : releases[x.release].envs[e].status \in RELEASE_TERMINAL
  PROVE  Calm
<1>1. \A b \in DOMAIN builds : Completed(builds[b])
  BY DEF OnlyHere
<1>2. ASSUME NEW r \in DOMAIN releases, NEW e \in Envs, releases[r].envs[e].run # 0
      PROVE  releases[r].envs[e].status \in RELEASE_TERMINAL
  <2>1. e \in Selected
    BY <1>2, RunsAreSelected
  <2> QED
    BY <1>2, <2>1 DEF OnlyHere
<1> QED
  BY <1>1, <1>2 DEF Calm

LEMMA RaisesAlone ==
  ASSUME ExecutorInv, AloneInv, Ending, Raises
  PROVE  AloneInv'
<1>1. Ours /\ out' \in {"failed", "unknown"} /\ (out' = "failed" => effects = <<>>)
  BY DEF AloneInv, Raises, Ends, FailureOutcome, Remote
<1>2. out' = "failed" => Calm
  BY <1>1, NothingAsked
<1> QED
  BY <1>1, <1>2, EndAlone DEF Decided

LEMMA UnknownAlone ==
  ASSUME ExecutorInv, AloneInv, Ending, out' = "unknown"
  PROVE  AloneInv'
BY EndAlone DEF Decided

LEMMA EndsAlone ==
  ASSUME PlanAssumption, ExecutorInv, AloneInv, Running,
         \/ Refused \/ TimesOut \/ IntentRefused \/ Fails \/ Crash
         \/ (Send \/ Begin \/ WaitBuild \/ Bind \/ Verify \/ Deploy \/ Poll) /\ out' # "running"
  PROVE  AloneInv'
<1>1. Ending
  BY EndsAre, Zenon
<1>2. out = "running" /\ Ours /\ OnlyHere /\ Types /\ Acts
  BY DEF Running, AloneInv, ExecutorInv
<1>3. CASE Refused \/ TimesOut \/ Crash \/ (Send /\ out' # "running") \/ (Deploy /\ out' # "running")
  <2>1. out' = "unknown"
    BY <1>2, <1>3 DEF Refused, TimesOut, Crash, Send, Deploy, EndsAfter, Ends
  <2> QED
    BY <1>1, <2>1, UnknownAlone
<1>4. CASE IntentRefused \/ Fails \/ (Bind /\ out' # "running") \/ (Verify /\ out' # "running")
  <2>1. Raises \/ out' = "unknown"
    BY <1>2, <1>4 DEF IntentRefused, Fails, RaisesAfterBind, Bind, Verify, Ends
  <2> QED
    BY <1>1, <2>1, RaisesAlone, UnknownAlone
<1>5. CASE Begin /\ out' # "running"
  <2>1. x.pc = "target" /\ steps' = steps
    BY <1>5 DEF Begin, At
  <2>2. Calm
    BY <1>2, <2>1, CalmIs DEF Building, Deploying, Doing
  <2>3. ASSUME out' = "succeeded" PROVE \A j \in DOMAIN steps : steps[j].status = "succeeded"
    <3>1. x.k > Len(steps)
      BY <1>2, <1>5, <2>3 DEF Begin, Ends
    <3>2. x.k \in Nat /\ Len(steps) \in Nat /\ DOMAIN steps = 1..Len(steps)
      BY StepIs
    <3>3. \A j \in DOMAIN steps : j < x.k
      BY <3>1, <3>2
    <3> QED
      BY <1>2, <3>3 DEF OnlyHere
  <2> QED
    BY <1>1, <2>1, <2>2, <2>3, EndAlone
<1>6. CASE WaitBuild /\ out' # "running"
  <2>1. CASE out' = "unknown"
    BY <1>1, <2>1, UnknownAlone
  <2>2. CASE out' # "unknown"
    <3>1. x.pc = "wait" /\ Completed(builds[x.build]) /\ out' \in {"cancelled", "failed"}
      BY <1>2, <1>6, <2>2 DEF WaitBuild, At, EndsAfter, Ends, NextStep
    <3>2. Calm
      BY <1>2, <3>1, CalmIs DEF Deploying, Doing
    <3> QED
      BY <1>1, <3>1, <3>2, EndAlone
  <2> QED
    BY <2>1, <2>2
<1>7. CASE Poll /\ out' # "running"
  <2>1. CASE out' = "unknown"
    BY <1>1, <2>1, UnknownAlone
  <2>2. CASE out' # "unknown"
    <3>1. x.pc = "poll" /\ Settled(x.release) /\ out' = "failed"
      BY <1>2, <1>7, <2>2 DEF Poll, At, EndsAfter, Ends, NextStep
    <3>2. \A e \in Selected : releases[x.release].envs[e].status \in RELEASE_TERMINAL
      BY <3>1 DEF Settled, ResultsOf, deployment_result
    <3>3. Calm
      BY <1>2, <3>1, <3>2, CalmIs DEF Building, Doing
    <3> QED
      BY <1>1, <3>1, <3>3, EndAlone
  <2> QED
    BY <2>1, <2>2
<1> QED
  BY <1>3, <1>4, <1>5, <1>6, <1>7, Zenon

-----------------------------------------------------------------------------
(* The run goes on                                                         *)
LEMMA RowsAlone ==
  ASSUME ExecutorInv, AloneInv, out = "running", out' = "running", SamePlan,
         UNCHANGED <<builds, releases, flight, got, drift, effects>>,
         \A i \in DOMAIN effects :
           Kind(i) = "release_create" /\ steps'[effects[i].step].release # steps[effects[i].step].release => Reached(i),
         \A j \in DOMAIN steps : steps'[j].kind # "build" /\ steps'[j].status = "succeeded" =>
           Deployed(j)' \/ (steps[j].status = "succeeded" /\ steps'[j].release = steps[j].release),
         OnlyHere'
  PROVE  AloneInv'
<1>1. Ours /\ Known /\ Succeeds /\ DecidedIsQuiet /\ ConfirmedWasDelivered
  BY DEF AloneInv
<1>2. Ours'
  BY <1>1 DEF Ours, Kind, Reached
<1>3. Known'
  BY <1>1 DEF Known, Kind, Reached
<1>4. Succeeds'
  <2>1. ASSUME NEW j \in DOMAIN steps, Deployed(j), steps'[j].release = steps[j].release PROVE Deployed(j)'
    <3>1. Grown /\ EnvsKept /\ steps'[j].target = steps[j].target
      BY DEF Grown, EnvsKept, SamePlan
    <3> QED
      BY <2>1, <3>1, DeployedStays
  <2>2. \A j \in DOMAIN steps' : steps'[j].kind # "build" /\ steps'[j].status = "succeeded" => Deployed(j)'
    BY <1>1, <2>1 DEF Succeeds, SamePlan
  <2> QED
    BY <2>2 DEF Succeeds
<1>5. ConfirmedWasDelivered' /\ DecidedIsQuiet'
  BY <1>1 DEF ConfirmedWasDelivered, DecidedIsQuiet, Decided
<1> QED
  BY <1>2, <1>3, <1>4, <1>5 DEF AloneInv

LEMMA StillAlone ==
  ASSUME ExecutorInv, AloneInv, out = "running", out' = "running",
         UNCHANGED <<op, builds, releases, flight, got, drift, steps, effects>>, OnlyHere'
  PROVE  AloneInv'
<1>1. SamePlan
  BY DEF SamePlan
<1> QED
  BY <1>1, RowsAlone

LEMMA BeginAlone ==
  ASSUME ExecutorInv, AloneInv, Running, Begin, out' = "running"
  PROVE  AloneInv'
<1>1. x \in ExecutorRecord /\ out = "running" /\ OnlyHere
  BY StepIs DEF Running, AloneInv
<1>2. /\ UNCHANGED <<op, builds, releases, flight, got, drift, steps, effects, y>> /\ x.pc = "target"
      /\ \/ x' = [x EXCEPT !.pc = "acquire"]
         \/ x' = [x EXCEPT !.pc = "bind", !.build = Target]
         \/ x' = [x EXCEPT !.pc = "verify", !.build = Target, !.release = Target]
  BY <1>1 DEF Begin, Quiet, server, At, Ends, Go
<1>3. x'.k = x.k /\ x'.pc \in {"acquire", "bind", "verify"}
  BY <1>1, <1>2 DEF ExecutorRecord
<1>4. OnlyHere'
  BY <1>1, <1>2, <1>3 DEF OnlyHere, Building, Releasing, Deploying, Doing
<1> QED
  BY <1>1, <1>2, <1>4, StillAlone

LEMMA WaitsAlone ==
  ASSUME ExecutorInv, AloneInv, Running, Deploy, x.left = <<>>
  PROVE  AloneInv'
<1>1. x \in ExecutorRecord /\ out = "running" /\ OnlyHere
  BY StepIs DEF Running, AloneInv
<1>2. /\ UNCHANGED <<op, builds, releases, flight, got, drift, steps, effects, y, out>> /\ x.pc = "deploy"
      /\ x' = [x EXCEPT !.pc = "poll"]
  BY DEF Deploy, Quiet, server, At, Go
<1>3. x'.k = x.k /\ x'.pc = "poll" /\ x'.left = x.left /\ x'.release = x.release /\ x'.base = x.base
  BY <1>1, <1>2 DEF ExecutorRecord
<1>4. OnlyHere'
  BY <1>1, <1>2, <1>3 DEF OnlyHere, Building, Releasing, Deploying, Doing
<1> QED
  BY <1>1, <1>2, <1>4, StillAlone

LEMMA CancelAlone ==
  ASSUME ExecutorInv, AloneInv, Cancel
  PROVE  AloneInv'
<1>1. /\ UNCHANGED <<op, builds, releases, flight, got, drift, steps, effects, out, x, y>>
      /\ out = "running" /\ OnlyHere
  BY DEF Cancel, server, Running, AloneInv
<1>2. OnlyHere'
  BY <1>1 DEF OnlyHere, Building, Releasing, Deploying, Doing, Kind, Last
<1> QED
  BY <1>1, <1>2, StillAlone

LEMMA CreatedAlone ==
  ASSUME ExecutorInv, AloneInv, Running, Created
  PROVE  AloneInv'
<1>1. x \in ExecutorRecord /\ out = "running" /\ OnlyHere /\ Types /\ (x.pc # "target" => x.k \in DOMAIN steps)
  BY StepIs DEF Running, AloneInv
<1>2. /\ UNCHANGED <<op, builds, releases, flight, got, drift, effects, y, out>> /\ x.pc = "created"
      /\ x' = [x EXCEPT !.pc = "wait", !.owned = TRUE, !.stopping = FALSE]
      /\ steps' = [steps EXCEPT ![x.k].build = x.build]
  BY DEF Created, Quiet, server, At
<1>3. x'.k = x.k /\ x'.pc = "wait" /\ x'.build = x.build /\ x.build \in Nat
  BY <1>1, <1>2 DEF ExecutorRecord
<1>4. /\ SamePlan
      /\ \A j \in DOMAIN steps : steps'[j].status = steps[j].status /\ steps'[j].release = steps[j].release
  BY <1>1, <1>2, <1>3, BuildSet
<1>5. OnlyHere'
  BY <1>1, <1>2, <1>3, <1>4 DEF OnlyHere, Building, Releasing, Deploying, Doing, SamePlan
<1>6. \A i \in DOMAIN effects : steps'[effects[i].step].release = steps[effects[i].step].release
  BY <1>4 DEF ExecutorInv, Placed
<1> QED
  BY <1>1, <1>2, <1>4, <1>5, <1>6, RowsAlone

LEMMA BuiltAlone ==
  ASSUME ExecutorInv, AloneInv, Running, WaitBuild, Usable(builds[x.build]), NextStep("bind"), effects' = effects
  PROVE  AloneInv'
<1>1. /\ x \in ExecutorRecord /\ out = "running" /\ OnlyHere /\ Types /\ (x.pc # "target" => x.k \in DOMAIN steps)
      /\ InStep /\ x.k \in Nat
  BY StepIs DEF Running, AloneInv
<1>2. /\ UNCHANGED <<op, builds, releases, flight, got, drift, y, out>> /\ x.pc = "wait"
      /\ x' = [x EXCEPT !.pc = "bind", !.k = x.k + 1]
      /\ steps' = [steps EXCEPT ![x.k].status = "succeeded"]
  BY DEF WaitBuild, Quiet, server, At, NextStep
<1>3. x'.k = x.k + 1 /\ x'.pc = "bind" /\ steps[x.k].kind = "build" /\ Completed(builds[x.build])
  BY <1>1, <1>2 DEF ExecutorRecord, InStep, Building, Usable, Completed
<1>4. PICK k \in DOMAIN steps : k = x.k
  BY <1>1, <1>2
<1>5. /\ SamePlan /\ steps'[k].status = "succeeded"
      /\ \A j \in DOMAIN steps : j # k => steps'[j] = steps[j]
      /\ \A j \in DOMAIN steps : steps'[j].build = steps[j].build /\ steps'[j].release = steps[j].release
  <2>1. steps' = [steps EXCEPT ![k].status = "succeeded"]
    BY <1>2, <1>4
  <2> QED
    BY <1>1, <1>2, <2>1, StatusSet
<1>6. \A j \in DOMAIN steps : j \in Nat /\ (j < x.k + 1 => j < x.k \/ j = x.k) /\ (j > x.k + 1 \/ j = x.k + 1 => j > x.k)
  BY <1>1, ReadIs
<1>7. OnlyHere'
  BY <1>1, <1>2, <1>3, <1>4, <1>5, <1>6 DEF OnlyHere, Building, Releasing, Deploying, Doing, SamePlan
<1>8. \A i \in DOMAIN effects : steps'[effects[i].step].release = steps[effects[i].step].release
  BY <1>5 DEF ExecutorInv, Placed
<1>9. \A j \in DOMAIN steps : steps'[j].kind # "build" => steps'[j] = steps[j]
  BY <1>3, <1>4, <1>5 DEF SamePlan
<1> QED
  BY <1>1, <1>2, <1>5, <1>7, <1>8, <1>9, RowsAlone

LEMMA VerifiedAlone ==
  ASSUME PlanAssumption, ExecutorInv, AloneInv, Running, Verify, out' = "running"
  PROVE  AloneInv'
<1>1. /\ x \in ExecutorRecord /\ out = "running" /\ OnlyHere /\ Types /\ x.k \in Nat /\ Succeeds
      /\ (x.pc # "target" => x.k \in DOMAIN steps) /\ Answering
  BY StepIs DEF Running, AloneInv
<1>2. /\ UNCHANGED <<op, builds, releases, flight, got, drift, effects, y>> /\ x.pc = "verify"
      /\ steps' = [steps EXCEPT ![x.k].release = x.release]
      /\ x' = [x EXCEPT !.pc = "deploy", !.left = Stages,
                        !.base = [e \in Envs |-> releases[x.release].envs[e].attempt]]
  BY <1>1 DEF Verify, Quiet, server, At, Raises, Ends, FailureOutcome
<1>3. /\ x'.k = x.k /\ x'.pc = "deploy" /\ x'.left = Stages /\ x'.release = x.release /\ x.release \in Nat
      /\ x'.base = [e \in Envs |-> releases[x.release].envs[e].attempt] /\ x.k \in DOMAIN steps
  BY <1>1, <1>2 DEF ExecutorRecord
<1>4. PICK k \in DOMAIN steps, r \in Nat : k = x.k /\ r = x.release
  BY <1>3
<1>5. /\ SamePlan
      /\ \A j \in DOMAIN steps : /\ steps'[j].status = steps[j].status
                                 /\ j # k => steps'[j].release = steps[j].release
  <2>1. steps' = [steps EXCEPT ![k].release = r]
    BY <1>2, <1>4
  <2> QED
    BY <1>1, <1>2, <2>1, ReleaseSet
<1>6. OnlyHere'
  <2>1. \A e \in Selected : (\E n \in DOMAIN x'.left : x'.left[n] = e) /\ releases[x.release].envs[e].attempt = x'.base[e]
    BY <1>3 DEF Selected, Envs
  <2>2. \A j \in DOMAIN steps : ~(j > x.k /\ j = k)
    BY <1>1, <1>4
  <2>3. ~Building' /\ ~Releasing' /\ Deploying' /\ ~Building /\ ~Deploying
    BY <1>2, <1>3 DEF Building, Releasing, Deploying, Doing
  <2>4. \A j \in DOMAIN steps' : j > x'.k => steps'[j].release = 0
    BY <1>1, <1>3, <1>5, <2>2 DEF OnlyHere, SamePlan
  <2>5. \A j \in DOMAIN steps' : j < x'.k => steps'[j].status = "succeeded"
    BY <1>1, <1>3, <1>5 DEF OnlyHere, SamePlan
  <2>6. \A e \in Selected :
         LET v == releases'[x'.release].envs[e] IN
         IF (\E n \in DOMAIN x'.left : x'.left[n] = e) /\ ~(x'.pc = "receipt" /\ e = Head(x'.left))
           THEN v.attempt = x'.base[e] ELSE v.run # 0
    BY <1>2, <1>3, <2>1
  <2> QED
    BY <1>1, <1>2, <1>3, <2>3, <2>4, <2>5, <2>6 DEF OnlyHere, Completed
<1>7. steps[k].kind # "build" => steps[k].status # "succeeded"
  <2>3. Releasing
    BY <1>2 DEF Releasing
  <2>1. steps[k].release = 0
    BY <1>1, <1>4, <2>3 DEF OnlyHere
  <2>2. 0 \notin DOMAIN releases
    BY <1>1, Indexed DEF Types
  <2> QED
    BY <1>1, <2>1, <2>2 DEF Succeeds, Deployed
<1>8. \A i \in DOMAIN effects : Reached(i)
  BY <1>1, <1>2 DEF Answering
<1> QED
  BY <1>1, <1>2, <1>5, <1>6, <1>7, <1>8, RowsAlone DEF SamePlan

LEMMA TargetAlone ==
  ASSUME PlanAssumption, ExecutorInv, AloneInv, Running, Poll, out' = "running"
  PROVE  AloneInv'
<1>1. /\ x \in ExecutorRecord /\ out = "running" /\ OnlyHere /\ Ours /\ Types /\ x.k \in Nat
      /\ (x.pc # "target" => x.k \in DOMAIN steps) /\ Deploys /\ Releases /\ InStep
  BY StepIs DEF Running, AloneInv
<1>2. /\ UNCHANGED <<op, builds, releases, flight, got, drift, effects, y>> /\ x.pc = "poll"
      /\ steps' = [steps EXCEPT ![x.k].status = "succeeded"]
      /\ x' = [x EXCEPT !.pc = "target", !.k = x.k + 1]
      /\ Settled(x.release) /\ ResultsOf(x.release) = {"succeeded"}
  BY <1>1 DEF Poll, Quiet, server, At, EndsAfter, Ends, NextStep
<1>3. x'.k = x.k + 1 /\ x'.pc = "target"
  BY <1>1, <1>2 DEF ExecutorRecord
<1>4. PICK k \in DOMAIN steps : k = x.k
  BY <1>1, <1>2
<1>5. /\ SamePlan /\ steps'[k].status = "succeeded"
      /\ \A j \in DOMAIN steps : j # k => steps'[j] = steps[j]
      /\ \A j \in DOMAIN steps : steps'[j].build = steps[j].build /\ steps'[j].release = steps[j].release
  <2>1. steps' = [steps EXCEPT ![k].status = "succeeded"]
    BY <1>2, <1>4
  <2> QED
    BY <1>1, <1>2, <2>1, StatusSet
<1>6. \A j \in DOMAIN steps : j \in Nat /\ (j < x.k + 1 => j < x.k \/ j = x.k) /\ (j > x.k + 1 \/ j = x.k + 1 => j > x.k)
  BY <1>1, ReadIs
<1>7. /\ Deploying /\ steps[k].release = x.release /\ x.release \in DOMAIN releases
      /\ releases[x.release].target = steps[k].target
  <2>1. Deploying
    BY <1>2 DEF Deploying
  <2> QED
    BY <1>1, <1>4, <2>1 DEF Deploys, Releases
<1>8. ASSUME NEW e \in Selected
      PROVE  /\ releases[x.release].envs[e].run # 0 /\ releases[x.release].envs[e].status = "succeeded"
             /\ releases[x.release].envs[e].agreed
  <2>1. releases[x.release].envs[e].status = "succeeded" /\ releases[x.release].envs[e].agreed
    <3>1. deployment_result(releases[x.release].envs[e]) = "succeeded"
      BY <1>2 DEF ResultsOf
    <3> QED
      BY <3>1 DEF deployment_result
  <2>2. releases[x.release].envs[e].attempt > x.base[e]
    BY <1>2 DEF Settled, Newer
  <2>3. x.base[e] \in Nat
    BY <1>1 DEF ExecutorRecord, Envs
  <2>4. releases[x.release].envs[e].attempt # x.base[e]
    BY <2>2, <2>3
  <2>5. releases[x.release].envs[e].run # 0
    BY <1>1, <1>2, <1>7, <2>4 DEF OnlyHere
  <2> QED
    BY <2>1, <2>5
<1>9. Calm
  <2>1. \A e \in Selected : releases[x.release].envs[e].status \in RELEASE_TERMINAL
    BY <1>8 DEF RELEASE_TERMINAL
  <2>2. ~Building
    BY <1>2 DEF Building, Doing
  <2> QED
    BY <1>1, <2>1, <2>2, CalmIs
<1>10. OnlyHere'
  <2>1. /\ x'.pc = "target" /\ ~Building' /\ ~Releasing' /\ ~Deploying'
    BY <1>3 DEF Building, Releasing, Deploying, Doing
  <2>2. \A j \in DOMAIN steps : j < x'.k => steps'[j].status = "succeeded"
    BY <1>1, <1>3, <1>4, <1>5, <1>6 DEF OnlyHere
  <2>3. \A j \in DOMAIN steps : j > x'.k \/ j = x'.k => steps'[j].release = 0
    BY <1>1, <1>3, <1>5, <1>6 DEF OnlyHere
  <2>4. DOMAIN steps' = DOMAIN steps /\ builds' = builds /\ releases' = releases /\ y' = NoRead
    BY <1>1, <1>2, <1>5 DEF SamePlan, OnlyHere
  <2>5. /\ \A b \in DOMAIN builds' : Completed(builds'[b])
        /\ \A r \in DOMAIN releases', e \in Envs :
             releases'[r].envs[e].run # 0 => releases'[r].envs[e].status \in RELEASE_TERMINAL
    BY <1>9, <2>4 DEF Calm
  <2> QED
    BY <2>1, <2>2, <2>3, <2>4, <2>5 DEF OnlyHere
<1>11. Deployed(k)'
  <2>1. /\ steps'[k].release = x.release /\ steps'[k].target = steps[k].target /\ releases' = releases
    BY <1>2, <1>5, <1>7 DEF SamePlan
  <2> QED
    BY <1>7, <1>8, <2>1 DEF Deployed
<1>12. \A i \in DOMAIN effects : steps'[effects[i].step].release = steps[effects[i].step].release
  BY <1>5 DEF ExecutorInv, Placed
<1>13. \A j \in DOMAIN steps : steps'[j].kind # "build" /\ steps'[j].status = "succeeded" =>
         Deployed(j)' \/ (steps[j].status = "succeeded" /\ steps'[j].release = steps[j].release)
  BY <1>5, <1>11
<1> QED
  BY <1>1, <1>2, <1>5, <1>10, <1>12, <1>13, RowsAlone

-----------------------------------------------------------------------------
(* A new intent                                                            *)
LEMMA IntentAlone ==
  ASSUME ExecutorInv, AloneInv, Running, out' = out, UNCHANGED <<op, builds, releases, flight, got, drift, steps, y>>,
         NEW f \in EffectRecord, effects' = Append(effects, f), x' = [x EXCEPT !.pc = "send"],
         f.step = x.k, f.state = "intent", x.k \in DOMAIN steps,
         f.kind = "build_create" => f.remote = 0 /\ x.pc = "acquire",
         f.kind = "build_cancel" => x.pc = "wait",
         f.kind = "release_create" => f.remote = 0 /\ x.pc = "bind",
         f.kind = "env_deploy" => x.pc = "deploy" /\ releases[f.remote].envs[f.env].attempt <= f.base
  PROVE  AloneInv'
<1>1. /\ x \in ExecutorRecord /\ out = "running" /\ out' = "running" /\ OnlyHere /\ Ours /\ Known /\ Succeeds /\ Types
      /\ ConfirmedWasDelivered
  BY StepIs DEF Running, AloneInv
<1>2. PICK n : n = Len(effects) + 1
  OBVIOUS
<1>3. /\ DOMAIN effects' = DOMAIN effects \cup {n} /\ n \notin DOMAIN effects /\ effects'[n] = f
      /\ Last' = n /\ \A i \in DOMAIN effects : effects'[i] = effects[i]
  <2>1. effects \in Seq(EffectRecord)
    BY <1>1 DEF Types
  <2> QED
    BY <1>2, <2>1, Appended DEF Last
<1>4. ~Reached(n) /\ \A i : Reached(i) <=> Reached(i)'
  BY <1>3 DEF Reached, ExecutorInv, ExecutorTypeOK
<1>5. Ours'
  BY <1>1, <1>3, <1>4 DEF Ours, Kind
<1>6. Known'
  <2>1. f.kind = "release_create" => steps[f.step].release = 0
    BY <1>1 DEF OnlyHere, Releasing
  <2>2. ASSUME NEW i \in DOMAIN effects', Kind(i)' = "build_create", effects'[i].remote # 0
        PROVE  Reached(i)' /\ effects'[i].remote \in DOMAIN builds
    BY <1>1, <1>3, <1>4, <2>2 DEF Known, Kind
  <2>3. ASSUME NEW i \in DOMAIN effects', Kind(i)' = "release_create",
               effects'[i].remote # 0 \/ steps[effects'[i].step].release # 0
        PROVE  Reached(i)'
    BY <1>1, <1>3, <1>4, <2>1, <2>3 DEF Known, Kind
  <2>4. ASSUME NEW i \in DOMAIN effects', Kind(i)' = "env_deploy"
        PROVE  IF Reached(i)' THEN releases[effects'[i].remote].envs[effects'[i].env].run = i
               ELSE releases[effects'[i].remote].envs[effects'[i].env].attempt <= effects'[i].base
    BY <1>1, <1>3, <1>4, <2>4 DEF Known, Kind
  <2> QED
    BY <2>2, <2>3, <2>4 DEF Known, Kind
<1>7. Succeeds'
  BY <1>1 DEF Succeeds, Deployed
<1>8. ConfirmedWasDelivered' /\ DecidedIsQuiet'
  BY <1>1, <1>3, <1>4 DEF ConfirmedWasDelivered, DecidedIsQuiet, Decided, Reached
<1>9. OnlyHere'
  <2>1. /\ x'.k = x.k /\ x'.pc = "send" /\ x'.left = x.left /\ x'.release = x.release /\ x'.base = x.base
        /\ x'.build = x.build
    BY <1>1 DEF ExecutorRecord
  <2>2. \A kind : Doing(kind)' <=> f.kind = kind
    BY <1>1, <1>3, <2>1 DEF Doing, Kind
  <2>3. f.kind \in {"build_create", "build_cancel", "release_create", "env_deploy"}
    BY DEF EffectRecord
  <2>4. /\ \A b \in DOMAIN builds' : Completed(builds'[b]) \/ (b = x'.build /\ Building' /\ ~Doing("build_create")')
        /\ \A r \in DOMAIN releases', e \in Envs : releases'[r].envs[e].run # 0 =>
              releases'[r].envs[e].status \in RELEASE_TERMINAL \/ (r = x'.release /\ Deploying')
    BY <1>1, <2>1, <2>2, <2>3 DEF OnlyHere, Building, Deploying, Doing
  <2>5. Deploying' => Deploying /\ x.pc = "deploy"
    BY <2>1, <2>2 DEF Deploying
  <2>6. Releasing' => Releasing /\ x.pc = "bind"
    BY <2>1, <2>2 DEF Releasing
  <2> QED
    BY <1>1, <2>1, <2>4, <2>5, <2>6 DEF OnlyHere, Completed
<1> QED
  BY <1>1, <1>5, <1>6, <1>7, <1>8, <1>9 DEF AloneInv

LEMMA AsksBuildAlone ==
  ASSUME ExecutorInv, AloneInv, Running, Acquire
  PROVE  AloneInv'
<1>1. x \in ExecutorRecord /\ OnlyHere /\ (x.pc # "target" => x.k \in DOMAIN steps)
  BY StepIs DEF Running, AloneInv
<1>2. x.pc = "acquire"
  BY DEF Acquire, At
<1>3. Candidates = {}
  BY <1>1, <1>2 DEF OnlyHere, Candidates
<1>4. /\ UNCHANGED <<op, builds, releases, flight, got, drift, steps, y>> /\ out' = out
      /\ x' = [x EXCEPT !.pc = "send"]
      /\ effects' = Append(effects, [step |-> x.k, kind |-> "build_create", state |-> "intent",
                                        remote |-> 0, env |-> "-", base |-> 0])
  BY <1>3 DEF Acquire, Intent, Go, server
<1>5. PICK f \in EffectRecord :
        /\ f.kind = "build_create" /\ f.step = x.k /\ f.state = "intent" /\ f.remote = 0
        /\ effects' = Append(effects, f)
  BY <1>4, IntentIs
<1> QED
  BY <1>1, <1>2, <1>4, <1>5, IntentAlone

LEMMA AsksCancelAlone ==
  ASSUME ExecutorInv, AloneInv, Running, WaitBuild, ~Completed(builds[x.build]), out' = "running"
  PROVE  AloneInv'
<1>1. x \in ExecutorRecord /\ x.build \in Nat /\ (x.pc # "target" => x.k \in DOMAIN steps)
  BY StepIs DEF ExecutorRecord
<1>2. x.pc = "wait" /\ UNCHANGED <<op, builds, releases, flight, got, drift, steps, y>> /\ out' = out
      /\ x' = [x EXCEPT !.pc = "send"]
      /\ effects' = Append(effects, [step |-> x.k, kind |-> "build_cancel", state |-> "intent",
                                        remote |-> x.build, env |-> "-", base |-> 0])
  BY DEF WaitBuild, At, Usable, Completed, EndsAfter, Ends, Intent, Go, Quiet, server
<1>3. PICK f \in EffectRecord :
        /\ f.kind = "build_cancel" /\ f.step = x.k /\ f.state = "intent"
        /\ effects' = Append(effects, f)
  BY <1>1, <1>2, IntentIs
<1> QED
  BY <1>1, <1>2, <1>3, IntentAlone

LEMMA AsksReleaseAlone ==
  ASSUME ExecutorInv, AloneInv, Running, Bind, out' = "running"
  PROVE  AloneInv'
<1>1. x \in ExecutorRecord /\ x.build \in Nat /\ (x.pc # "target" => x.k \in DOMAIN steps)
  BY StepIs DEF ExecutorRecord
<1>2. x.pc = "bind" /\ UNCHANGED <<op, builds, releases, flight, got, drift, steps, y>> /\ out' = out
      /\ x' = [x EXCEPT !.pc = "send"]
      /\ effects' = Append(effects, [step |-> x.k, kind |-> "release_create", state |-> "intent",
                                        remote |-> 0, env |-> "-", base |-> x.build])
  BY DEF Bind, At, Raises, Ends, FailureOutcome, Intent, Go, Quiet, server
<1>3. PICK f \in EffectRecord :
        /\ f.kind = "release_create" /\ f.step = x.k /\ f.state = "intent" /\ f.remote = 0
        /\ effects' = Append(effects, f)
  BY <1>1, <1>2, IntentIs
<1> QED
  BY <1>1, <1>2, <1>3, IntentAlone

LEMMA AsksDeployAlone ==
  ASSUME ExecutorInv, AloneInv, Running, Deploy, x.left # <<>>, out' = "running"
  PROVE  AloneInv'
<1>1. x \in ExecutorRecord /\ OnlyHere /\ (x.pc # "target" => x.k \in DOMAIN steps)
  BY StepIs DEF Running, AloneInv
<1>2. PICK e, b : e = Head(x.left) /\ b = x.base[Head(x.left)]
  OBVIOUS
<1>3. x.pc = "deploy" /\ UNCHANGED <<op, builds, releases, flight, got, drift, steps, y>> /\ out' = out
      /\ x' = [x EXCEPT !.pc = "send"]
      /\ effects' = Append(effects, [step |-> x.k, kind |-> "env_deploy", state |-> "intent",
                                        remote |-> x.release, env |-> e, base |-> b])
  BY <1>2 DEF Deploy, At, EndsAfter, Ends, Intent, Go, Quiet, server
<1>4. e \in Selected /\ e \in Envs /\ b \in Nat /\ x.release \in Nat /\ e = x.left[1] /\ 1 \in DOMAIN x.left
  <2>1. x.left \in Seq(Selected) /\ x.base \in [Envs -> Nat] /\ x.release \in Nat
    BY <1>1 DEF ExecutorRecord
  <2>2. e \in Selected /\ e = x.left[1] /\ 1 \in DOMAIN x.left
    BY <1>2, <2>1
  <2> QED
    BY <1>2, <2>1, <2>2 DEF Envs
<1>5. releases[x.release].envs[e].attempt <= b
  <2>1. Deploying
    BY <1>3 DEF Deploying
  <2>2. releases[x.release].envs[e].attempt = x.base[e]
    BY <1>1, <1>3, <1>4, <2>1 DEF OnlyHere
  <2> QED
    BY <1>2, <1>4, <2>2
<1>6. PICK f \in EffectRecord :
        /\ f.kind = "env_deploy" /\ f.step = x.k /\ f.state = "intent" /\ f.env = e /\ f.remote = x.release
        /\ f.base = b /\ effects' = Append(effects, f)
  BY <1>3, <1>4, IntentIs
<1>7. releases[f.remote].envs[f.env].attempt <= f.base
  BY <1>5, <1>6
<1> QED
  BY <1>1, <1>3, <1>6, <1>7, IntentAlone

-----------------------------------------------------------------------------
(* The request of the last effect is answered                              *)
LEMMA AnsweredAlone ==
  ASSUME PlanAssumption, ExecutorInv, AloneInv, Running, Send, out' = "running"
  PROVE  AloneInv'
<1>1. /\ Types /\ Answering /\ Placed /\ Deploys /\ DeploySound /\ x \in ExecutorRecord
      /\ out = "running" /\ OnlyHere /\ Ours /\ Known /\ Succeeds /\ ConfirmedWasDelivered
  BY StepIs DEF Running, AloneInv
<1>2. PICK i : i = Last
  OBVIOUS
<1>3. /\ UNCHANGED <<op, flight, drift, steps, effects, stop, y, faults>> /\ x.pc = "send"
      /\ Perform(i) /\ Answered(i)
  BY <1>1, <1>2 DEF Send, At, Last, Ends
<1>4. i \in DOMAIN effects /\ ~Reached(i) /\ \A kind : Doing(kind) <=> kind = Kind(i)
  BY <1>1, <1>2, <1>3 DEF Answering, Doing
<1>5. Grown /\ \A j : Reached(j)' <=> (Reached(j) \/ j = i)
  <2>1. /\ Grown
        /\ got' \in Seq(Nat) /\ DOMAIN got' = DOMAIN got \cup {Len(got) + 1} /\ Len(got) + 1 \notin DOMAIN got
        /\ got'[Len(got) + 1] = i /\ \A n \in DOMAIN got : got'[n] = got[n]
    BY <1>1, <1>3, <1>4, Performed
  <2> QED
    BY <1>3, <2>1, ReachedIs
<1>6. Taken(i)
  BY <1>1, <1>3, <1>4, TakenIs
<1>7. Ours' /\ Known' /\ EnvsKept
  BY <1>1, <1>3, <1>4, <1>5, <1>6, TakenKeeps
<1>8. Succeeds'
  <2>1. ASSUME NEW j \in DOMAIN steps, Deployed(j) PROVE Deployed(j)'
    BY <1>3, <1>5, <1>7, <2>1, DeployedStays
  <2> QED
    BY <1>1, <1>3, <2>1 DEF Succeeds
<1>9. ConfirmedWasDelivered' /\ DecidedIsQuiet'
  BY <1>1, <1>3, <1>5 DEF ConfirmedWasDelivered, DecidedIsQuiet, Decided, Reached
<1>10. /\ x'.k = x.k /\ x'.pc = "receipt" /\ x'.left = x.left /\ x'.base = x.base
       /\ x'.build = IF Kind(i) = "build_create" THEN Len(builds) + 1 ELSE x.build
       /\ x'.release = IF Kind(i) = "release_create" THEN Len(releases) + 1 ELSE x.release
  BY <1>1, <1>3 DEF Answered, Kind, ExecutorRecord
<1>11. \A kind : Doing(kind)' <=> kind = Kind(i)
  BY <1>2, <1>3, <1>10 DEF Doing, Kind, Last
<1>12. Kind(i) \in {"build_create", "build_cancel", "release_create", "env_deploy"}
  BY <1>1, <1>4, EffectIs DEF EffectRecord, Kind
<1>13. \A b \in DOMAIN builds' :
         /\ Completed(builds'[b]) \/ (b = x'.build /\ Building')
         /\ Kind(i) = "build_create" /\ builds'[b].by = i => b = x'.build
  <2>1. \A b \in DOMAIN builds : builds[b].by # i
    BY <1>1, <1>4, ReadIs DEF Ours
  <2>2. CASE Kind(i) = "build_create"
    BY <1>1, <1>3, <1>4, <1>6, <1>10, <1>11, <2>1, <2>2 DEF OnlyHere, Taken, Building
  <2>3. CASE Kind(i) # "build_create"
    BY <1>1, <1>3, <1>4, <1>6, <1>10, <1>11, <2>3 DEF OnlyHere, Taken, Building
  <2> QED
    BY <2>2, <2>3
<1>14. \A r \in DOMAIN releases', e \in Envs : releases'[r].envs[e].run # 0 =>
         releases'[r].envs[e].status \in RELEASE_TERMINAL \/ (r = x'.release /\ Deploying')
  <2>1. CASE Kind(i) = "env_deploy"
    <3>1. Deploying /\ effects[i].remote = x.release /\ Deploying'
      BY <1>1, <1>2, <1>4, <1>11, <2>1 DEF Deploying, Deploys
    <3> QED
      BY <1>1, <1>6, <1>10, <2>1, <3>1 DEF OnlyHere, Taken
  <2>2. CASE Kind(i) # "env_deploy"
    <3>1. ~Deploying
      BY <1>3, <1>4, <2>2 DEF Deploying
    <3> QED
      BY <1>1, <1>6, <2>2, <3>1 DEF OnlyHere, Taken
  <2> QED
    BY <2>1, <2>2
<1>15. Deploying' => \A e \in Selected :
         LET v == releases'[x'.release].envs[e] IN
         IF (\E n \in DOMAIN x'.left : x'.left[n] = e) /\ e # Head(x'.left)
           THEN v.attempt = x'.base[e] ELSE v.run # 0
  <2>1. SUFFICES ASSUME Deploying', NEW e \in Selected
                 PROVE  LET v == releases'[x.release].envs[e] IN
                        IF (\E n \in DOMAIN x.left : x.left[n] = e) /\ e # Head(x.left)
                          THEN v.attempt = x.base[e] ELSE v.run # 0
    <3>1. Deploying' => Kind(i) = "env_deploy"
      BY <1>10, <1>11 DEF Deploying
    <3> QED
      BY <1>10, <3>1
  <2>2. Kind(i) = "env_deploy"
    BY <1>10, <1>11, <2>1 DEF Deploying
  <2>3. /\ Deploying /\ effects[i].remote = x.release /\ effects[i].env = Head(x.left)
        /\ x.release \in DOMAIN releases /\ x.release \in DOMAIN releases' /\ e \in Envs
    BY <1>1, <1>2, <1>4, <1>5, <2>2 DEF Deploying, Deploys, Sound, Grown, Envs
  <2>4. CASE e = Head(x.left)
    <3>1. releases'[x.release].envs[e].run = i /\ i # 0
      BY <1>4, <1>6, <2>2, <2>3, <2>4, ReadIs DEF Taken
    <3> QED
      BY <2>4, <3>1
  <2>5. CASE e # Head(x.left)
    <3>1. releases'[x.release].envs[e] = releases[x.release].envs[e]
      BY <1>6, <2>3, <2>5 DEF Taken
    <3>2. IF \E n \in DOMAIN x.left : x.left[n] = e
            THEN releases[x.release].envs[e].attempt = x.base[e] ELSE releases[x.release].envs[e].run # 0
      BY <1>1, <1>3, <2>3 DEF OnlyHere
    <3> QED
      BY <2>5, <3>1, <3>2
  <2> QED
    BY <2>4, <2>5
<1>16. OnlyHere'
  <2>1. Releasing' => Releasing
    BY <1>4, <1>10, <1>11 DEF Releasing
  <2>2. Last' = i
    BY <1>2, <1>3 DEF Last
  <2> QED
    BY <1>1, <1>3, <1>10, <1>11, <1>13, <1>14, <1>15, <2>1, <2>2 DEF OnlyHere, Completed
<1> QED
  BY <1>1, <1>7, <1>8, <1>9, <1>16 DEF AloneInv

(* The answer is journalled                                                *)
LEMMA ConfirmedAlone ==
  ASSUME ExecutorInv, AloneInv, out = "running", out' = "running",
         UNCHANGED <<builds, releases, flight, got, drift, steps>>, SameEffects,
         NEW i \in DOMAIN effects, \A j \in DOMAIN effects : Reached(j) /\ (j # i => effects'[j] = effects[j]),
         Kind(i) = "build_create" =>
           effects'[i].remote \in DOMAIN builds /\ \A b \in DOMAIN builds : builds[b].by = i => b = effects'[i].remote,
         OnlyHere'
  PROVE  AloneInv'
<1>1. Ours /\ Known /\ Succeeds
  BY DEF AloneInv
<1>2. /\ DOMAIN effects' = DOMAIN effects /\ \A j : Reached(j) <=> Reached(j)'
      /\ \A j \in DOMAIN effects : /\ effects'[j].step = effects[j].step /\ effects'[j].kind = effects[j].kind
                                   /\ effects'[j].env = effects[j].env /\ effects'[j].base = effects[j].base
                                   /\ Kind(j) = "env_deploy" => effects'[j].remote = effects[j].remote
                                   /\ j # i => effects'[j].remote = effects[j].remote
  BY DEF SameEffects, Reached
<1>3. Ours'
  <2>1. ASSUME NEW b \in DOMAIN builds, builds[b].by # 0
        PROVE  /\ builds[b].by \in DOMAIN effects /\ Kind(builds[b].by) = "build_create"
               /\ effects'[builds[b].by].remote \in {0, b}
    BY <1>1, <1>2, <2>1 DEF Ours
  <2> QED
    BY <1>1, <1>2, <2>1 DEF Ours, Kind
<1>4. Known'
  BY <1>1, <1>2 DEF Known, Kind
<1>5. Succeeds'
  BY <1>1 DEF Succeeds, Deployed
<1>6. ConfirmedWasDelivered' /\ DecidedIsQuiet'
  BY <1>2 DEF ConfirmedWasDelivered, DecidedIsQuiet, Decided, Reached
<1> QED
  BY <1>3, <1>4, <1>5, <1>6 DEF AloneInv

LEMMA ReceiptAlone ==
  ASSUME ExecutorInv, AloneInv, Running, Receipt
  PROVE  AloneInv'
<1>1. /\ Types /\ Answering /\ Builds /\ Releases /\ Deploys /\ x \in ExecutorRecord
      /\ out = "running" /\ OnlyHere
  BY StepIs DEF Running, AloneInv
<1>2. PICK i : i = Last
  OBVIOUS
<1>3. /\ out' = "running" /\ x.pc = "receipt"
      /\ UNCHANGED <<op, builds, releases, flight, got, drift, steps, y>>
      /\ \/ Kind(i) = "build_create" /\ Confirm(i, x.build) /\ x' = [x EXCEPT !.pc = "created"]
         \/ Kind(i) = "build_cancel" /\ Confirm(i, x.build) /\ x' = [x EXCEPT !.pc = "wait", !.stopping = TRUE]
         \/ Kind(i) = "release_create" /\ Confirm(i, x.release) /\ x' = [x EXCEPT !.pc = "verify"]
         \/ Kind(i) = "env_deploy" /\ Confirm(i, x.release) /\ x' = [x EXCEPT !.pc = "deploy", !.left = Tail(x.left)]
  BY <1>1, <1>2 DEF Receipt, Quiet, server, At, Go, Last, Kind
<1>4. /\ i \in DOMAIN effects /\ x.build \in Nat /\ x.release \in Nat /\ \A j \in DOMAIN effects : Reached(j)
      /\ \A kind : Doing(kind) <=> kind = Kind(i)
  BY <1>1, <1>2, <1>3 DEF Answering, ExecutorRecord, Doing
<1>5. CASE Kind(i) = "build_create"
  <2>1. Confirm(i, x.build) /\ x' = [x EXCEPT !.pc = "created"]
    BY <1>3, <1>5
  <2>2. /\ SameEffects /\ effects'[i].remote = x.build
        /\ \A j \in DOMAIN effects : j # i => effects'[j] = effects[j]
    BY <1>1, <1>4, <1>5, <2>1, ConfirmSet
  <2>3. x'.k = x.k /\ x'.pc = "created" /\ x'.build = x.build
    BY <1>1, <2>1 DEF ExecutorRecord
  <2>4. x.build \in DOMAIN builds /\ \A b \in DOMAIN builds : builds[b].by = i => b = x.build
    BY <1>1, <1>2, <1>3, <1>4, <1>5 DEF Builds, Fine, OnlyHere
  <2>5. OnlyHere'
    BY <1>1, <1>3, <1>4, <1>5, <2>3 DEF OnlyHere, Building, Releasing, Deploying, Doing, Completed
  <2> QED
    BY <1>1, <1>3, <1>4, <2>2, <2>4, <2>5, ConfirmedAlone
<1>6. CASE Kind(i) = "build_cancel"
  <2>1. Confirm(i, x.build) /\ x' = [x EXCEPT !.pc = "wait", !.stopping = TRUE]
    BY <1>3, <1>6
  <2>2. SameEffects /\ \A j \in DOMAIN effects : j # i => effects'[j] = effects[j]
    BY <1>1, <1>4, <1>6, <2>1, ConfirmSet
  <2>3. x'.k = x.k /\ x'.pc = "wait" /\ x'.build = x.build
    BY <1>1, <2>1 DEF ExecutorRecord
  <2>5. OnlyHere'
    BY <1>1, <1>3, <1>4, <1>6, <2>3 DEF OnlyHere, Building, Releasing, Deploying, Doing, Completed
  <2> QED
    BY <1>1, <1>3, <1>4, <1>6, <2>2, <2>5, ConfirmedAlone
<1>7. CASE Kind(i) = "release_create"
  <2>1. Confirm(i, x.release) /\ x' = [x EXCEPT !.pc = "verify"]
    BY <1>3, <1>7
  <2>2. SameEffects /\ \A j \in DOMAIN effects : j # i => effects'[j] = effects[j]
    BY <1>1, <1>4, <1>7, <2>1, ConfirmSet
  <2>3. x'.k = x.k /\ x'.pc = "verify"
    BY <1>1, <2>1 DEF ExecutorRecord
  <2>5. OnlyHere'
    BY <1>1, <1>3, <1>4, <1>7, <2>3 DEF OnlyHere, Building, Releasing, Deploying, Doing, Completed
  <2> QED
    BY <1>1, <1>3, <1>4, <1>7, <2>2, <2>5, ConfirmedAlone
<1>8. CASE Kind(i) = "env_deploy"
  <2>0. PICK tail : tail = Tail(x.left)
    OBVIOUS
  <2>1. Confirm(i, x.release) /\ x' = [x EXCEPT !.pc = "deploy", !.left = tail]
    BY <1>3, <1>8, <2>0
  <2>9. /\ Deploying /\ x.left # <<>> /\ x.left \in Seq(Selected) /\ effects[i].remote = x.release
        /\ \A n, m \in DOMAIN x.left : x.left[n] = x.left[m] => n = m
    BY <1>1, <1>2, <1>4, <1>8 DEF Deploying, Deploys, ExecutorRecord
  <2>2. SameEffects /\ \A j \in DOMAIN effects : j # i => effects'[j] = effects[j]
    BY <1>1, <1>4, <1>8, <2>1, <2>9, ConfirmSet
  <2>3. x'.k = x.k /\ x'.pc = "deploy" /\ x'.left = tail /\ x'.release = x.release /\ x'.base = x.base
    BY <1>1, <2>1 DEF ExecutorRecord
  <2>4. /\ \A n \in DOMAIN tail : n + 1 \in DOMAIN x.left /\ tail[n] = x.left[n + 1] /\ n + 1 # 1
        /\ 1 \in DOMAIN x.left /\ Head(x.left) = x.left[1]
        /\ \A n \in DOMAIN x.left : n # 1 => n - 1 \in DOMAIN tail /\ tail[n - 1] = x.left[n]
    BY <2>0, <2>9
  <2>5. \A e : (\E n \in DOMAIN tail : tail[n] = e) <=> (\E n \in DOMAIN x.left : x.left[n] = e) /\ e # Head(x.left)
    BY <2>4, <2>9
  <2>6. ~Building' /\ ~Releasing' /\ Deploying' /\ ~Building
    BY <1>3, <1>4, <1>8, <2>3 DEF Building, Releasing, Deploying, Doing
  <2>7. \A e \in Selected :
          LET v == releases'[x'.release].envs[e] IN
          IF \E n \in DOMAIN x'.left : x'.left[n] = e THEN v.attempt = x'.base[e] ELSE v.run # 0
    <3>1. ASSUME NEW e \in Selected
          PROVE  IF (\E n \in DOMAIN x.left : x.left[n] = e) /\ e # Head(x.left)
                   THEN releases[x.release].envs[e].attempt = x.base[e] ELSE releases[x.release].envs[e].run # 0
      BY <1>1, <1>3, <2>9 DEF OnlyHere
    <3>2. \A e : (\E n \in DOMAIN x'.left : x'.left[n] = e) <=>
                   (\E n \in DOMAIN x.left : x.left[n] = e) /\ e # Head(x.left)
      BY <2>3, <2>5
    <3> QED
      BY <1>3, <2>3, <3>1, <3>2, Zenon
  <2>8. OnlyHere'
    BY <1>1, <1>3, <2>3, <2>6, <2>7, <2>9 DEF OnlyHere, Completed
  <2> QED
    BY <1>1, <1>3, <1>4, <1>8, <2>2, <2>8, ConfirmedAlone
<1> QED
  BY <1>3, <1>5, <1>6, <1>7, <1>8

LEMMA ExecutorAlone ==
  ASSUME PlanAssumption, ExecutorInv, AloneInv, Executor
  PROVE  AloneInv'
<1>1. Running
  BY DEF Executor, Begin, Acquire, Send, Refused, Receipt, Created, WaitBuild, Bind, Verify, Deploy, Poll,
         IntentRefused, RaisesAfterBind, At
<1>2. CASE Begin
  BY <1>1, <1>2, BeginAlone, EndsAlone
<1>3. CASE Acquire
  BY <1>1, <1>3, AsksBuildAlone
<1>4. CASE Send
  BY <1>1, <1>4, AnsweredAlone, EndsAlone
<1>5. CASE Refused \/ IntentRefused
  BY <1>1, <1>5, EndsAlone
<1>6. CASE Receipt
  BY <1>1, <1>6, ReceiptAlone
<1>7. CASE Created
  BY <1>1, <1>7, CreatedAlone
<1>8. CASE WaitBuild
  <2>1. out' # "running" => AloneInv'
    BY <1>1, <1>8, EndsAlone
  <2>2. CASE out' = "running" /\ Completed(builds[x.build])
    <3>1. Usable(builds[x.build]) /\ NextStep("bind") /\ effects' = effects
      BY <1>8, <2>2 DEF WaitBuild, EndsAfter, Ends
    <3> QED
      BY <1>1, <1>8, <3>1, BuiltAlone
  <2>3. CASE out' = "running" /\ ~Completed(builds[x.build])
    BY <1>1, <1>8, <2>3, AsksCancelAlone
  <2> QED
    BY <2>1, <2>2, <2>3
<1>9. CASE Bind
  BY <1>1, <1>9, AsksReleaseAlone, EndsAlone
<1>10. CASE Verify
  BY <1>1, <1>10, VerifiedAlone, EndsAlone
<1>11. CASE Deploy
  BY <1>1, <1>11, WaitsAlone, AsksDeployAlone, EndsAlone
<1>12. CASE Poll
  BY <1>1, <1>12, TargetAlone, EndsAlone
<1> QED
  BY <1>2, <1>3, <1>4, <1>5, <1>6, <1>7, <1>8, <1>9, <1>10, <1>11, <1>12 DEF Executor

-----------------------------------------------------------------------------
(* The reconciliation                                                      *)
LEMMA ReadAlone ==
  ASSUME ExecutorInv, AloneInv, out # "running", out' # "running", SamePlan,
         UNCHANGED <<builds, releases, flight, got, drift>>, SameEffects,
         \A j \in DOMAIN steps : steps'[j].release = steps[j].release,
         \A i \in DOMAIN effects : Kind(i) = "build_create" => effects'[i].remote = effects[i].remote,
         \A i \in DOMAIN effects :
           Kind(i) = "release_create" /\ effects'[i].remote # effects[i].remote => Reached(i),
         \A i \in DOMAIN effects :
           Kind(i) = "env_deploy" /\ effects'[i].state # effects[i].state => Reached(i),
         Succeeds', out' = "unknown" => Read', DecidedIsQuiet'
  PROVE  AloneInv'
<1>1. Ours /\ Known /\ ConfirmedWasDelivered
  BY DEF AloneInv
<1>2. \A i : Reached(i) <=> Reached(i)'
  BY DEF Reached
<1>3. Ours'
  <2>1. ASSUME NEW b \in DOMAIN builds, builds[b].by # 0
        PROVE  /\ builds[b].by \in DOMAIN effects /\ Kind(builds[b].by) = "build_create"
               /\ effects'[builds[b].by].remote \in {0, b}
    BY <1>1, <2>1 DEF Ours
  <2> QED
    BY <1>1, <1>2, <2>1 DEF Ours, Kind, SameEffects
<1>4. Known'
  <2>1. \A i \in DOMAIN effects : effects[i].step \in DOMAIN steps
    BY DEF ExecutorInv, Placed
  <2>2. ASSUME NEW i \in DOMAIN effects, Kind(i) = "build_create", effects'[i].remote # 0
        PROVE  Reached(i) /\ effects'[i].remote \in DOMAIN builds
    BY <1>1, <2>2 DEF Known
  <2>3. ASSUME NEW i \in DOMAIN effects, Kind(i) = "release_create",
               effects'[i].remote # 0 \/ steps'[effects[i].step].release # 0
        PROVE  Reached(i)
    BY <1>1, <2>1, <2>3 DEF Known
  <2>4. ASSUME NEW i \in DOMAIN effects, Kind(i) = "env_deploy"
        PROVE  /\ effects'[i].remote = effects[i].remote
               /\ IF Reached(i) THEN releases[effects[i].remote].envs[effects[i].env].run = i
                  ELSE releases[effects[i].remote].envs[effects[i].env].attempt <= effects[i].base
    BY <1>1, <2>4 DEF Known, SameEffects
  <2> QED
    BY <1>2, <2>2, <2>3, <2>4 DEF Known, Kind, SameEffects
<1>5. ConfirmedWasDelivered'
  <2>1. ASSUME NEW i \in DOMAIN effects, Kind(i) = "env_deploy", effects'[i].state = "confirmed"
        PROVE  Reached(i)'
    BY <1>1, <1>2, <2>1 DEF ConfirmedWasDelivered, Kind, Reached
  <2> QED
    BY <2>1 DEF ConfirmedWasDelivered, Kind, Reached, SameEffects
<1> QED
  BY <1>3, <1>4, <1>5 DEF AloneInv

(* A release or a deployment that is settled stays so while only the       *)
(* journal is written                                                      *)
LEMMA SucceedsStill ==
  ASSUME ExecutorInv, AloneInv, SamePlan, UNCHANGED releases, out' # "succeeded",
         \A j \in DOMAIN steps : steps'[j].release = steps[j].release /\ steps'[j].status = steps[j].status
  PROVE  Succeeds'
<1>1. Succeeds
  BY DEF AloneInv
<1> QED
  BY <1>1 DEF Succeeds, Deployed, SamePlan

LEMMA NotRead ==
  ASSUME ExecutorInv, SameEffects, NEW n \in {0, 1}, y'.k = n, y'.done = {}
  PROVE  Read'
<1>1. \A i \in DOMAIN effects : ~(effects'[i].step < n)
  <2>1. \A i \in DOMAIN effects : effects[i].step \in DOMAIN steps
    BY DEF ExecutorInv, Placed
  <2>2. \A j \in DOMAIN steps : j \in Nat /\ j >= 1
    BY ReadIs
  <2> QED
    BY <2>1, <2>2 DEF SameEffects
<1> QED
  BY <1>1 DEF Read, SameEffects

LEMMA BeginReadingAlone ==
  ASSUME ExecutorInv, AloneInv, BeginReading
  PROVE  AloneInv'
<1>1. /\ UNCHANGED <<op, builds, releases, flight, got, drift, steps, effects, out>> /\ out = "unknown"
      /\ y' = [NoRead EXCEPT !.k = 1] /\ Types
  BY DEF BeginReading, server, ExecutorInv
<1>2. SamePlan /\ SameEffects
  BY <1>1, Still
<1>3. y'.k = 1 /\ y'.done = {}
  BY <1>1 DEF NoRead
<1>4. Read'
  BY <1>2, <1>3, NotRead
<1>5. Succeeds'
  BY <1>1, <1>2, SucceedsStill
<1>6. DecidedIsQuiet'
  BY <1>1 DEF DecidedIsQuiet, Decided
<1> QED
  BY <1>1, <1>2, <1>4, <1>5, <1>6, ReadAlone

LEMMA ReadFailsAlone ==
  ASSUME ExecutorInv, AloneInv, ReadFails
  PROVE  AloneInv'
<1>1. /\ UNCHANGED <<op, builds, releases, flight, got, drift, steps, effects, out, x>> /\ y' = NoRead /\ Types
      /\ y.k > 0
  BY DEF ReadFails, server, ExecutorInv
<1>2. SamePlan /\ SameEffects
  BY <1>1, Still
<1>3. out # "running"
  BY <1>1 DEF AloneInv, OnlyHere, NoRead
<1>4. Read'
  <2>1. y'.k = 0 /\ y'.done = {}
    BY <1>1 DEF NoRead
  <2> QED
    BY <1>2, <2>1, NotRead
<1>5. Succeeds' /\ DecidedIsQuiet'
  <2>1. Succeeds /\ DecidedIsQuiet
    BY DEF AloneInv
  <2>2. Succeeds'
    BY <1>1, <2>1 DEF Succeeds, Deployed
  <2>3. DecidedIsQuiet'
    BY <1>1, <2>1 DEF DecidedIsQuiet
  <2> QED
    BY <2>2, <2>3
<1> QED
  BY <1>1, <1>2, <1>3, <1>4, <1>5, ReadAlone

LEMMA ReadBuildAlone ==
  ASSUME ExecutorInv, AloneInv, ReadBuild
  PROVE  AloneInv'
<1>1. /\ KnownBuilds # {} => Max(KnownBuilds) \in KnownBuilds
      /\ ConfirmAll(IF BuildEnded THEN EffectsOf("build_cancel") ELSE {}, Ident)
      /\ Ident \in Nat /\ y.k \in DOMAIN steps /\ steps[y.k].kind = "build" /\ out = "unknown"
      /\ UNCHANGED <<op, builds, releases, flight, got, drift, steps, stop, out, x, faults>>
      /\ y'.k = y.k + 1
      /\ (~y'.uncertain => ~y.uncertain /\ EffectsOf("build_create") = KnownBuilds /\ (Ident # 0 => BuildEnded))
      /\ (~y'.failed => ~y.failed)
      /\ y'.done \subseteq y.done \cup {y.k}
  BY BuildRead
<1>2. Types /\ Placed /\ Once /\ Read /\ y.k \in Nat
  BY <1>1, ReadIs DEF ExecutorInv, AloneInv
<1>3. PICK S \in SUBSET DOMAIN effects, id \in Nat :
        /\ id = Ident /\ ConfirmAll(S, id) /\ \A i \in S : Kind(i) = "build_cancel"
  <2>1. PICK S : S = IF BuildEnded THEN EffectsOf("build_cancel") ELSE {}
    OBVIOUS
  <2>2. S \in SUBSET DOMAIN effects /\ \A i \in S : Kind(i) = "build_cancel"
    BY <2>1 DEF EffectsOf, Kind
  <2> QED
    BY <1>1, <2>1, <2>2
<1>4. /\ SameEffects
      /\ \A i \in DOMAIN effects : i \notin S => effects'[i] = effects[i]
  BY <1>2, <1>3, ConfirmAllIs
<1>5. SamePlan /\ \A j \in DOMAIN steps : steps'[j].release = steps[j].release /\ steps'[j].status = steps[j].status
  BY <1>1 DEF SamePlan
<1>6. Read'
  <2>1. ASSUME ~y'.uncertain, NEW i \in DOMAIN effects, effects[i].step < y'.k
        PROVE  /\ Kind(i) = "build_create" => effects[i].remote # 0 /\ Completed(builds[effects[i].remote])
               /\ Kind(i) = "release_create" => Reached(i)
               /\ Kind(i) = "env_deploy" =>
                    Reached(i) /\ deployment_result(releases[effects[i].remote].envs[effects[i].env]) # "none"
    <3>1. effects[i].step < y.k \/ effects[i].step = y.k
      BY <1>1, <1>2, <2>1, EffectIs
    <3>2. CASE effects[i].step < y.k
      BY <1>1, <1>2, <2>1, <3>2 DEF Read
    <3>3. CASE effects[i].step = y.k
      <4>1. Kind(i) \in {"build_create", "build_cancel"}
        BY <1>1, <1>2, <3>3 DEF Placed
      <4>2. ASSUME Kind(i) = "build_create"
            PROVE  effects[i].remote # 0 /\ Completed(builds[effects[i].remote])
        <5>1. i \in KnownBuilds
          BY <1>1, <2>1, <3>3, <4>2 DEF EffectsOf, Kind
        <5>2. PICK m : m = Max(KnownBuilds)
          OBVIOUS
        <5>3. m \in KnownBuilds /\ KnownBuilds # {}
          BY <1>1, <5>1, <5>2
        <5>4. m = i
          BY <1>2, <5>1, <5>3 DEF KnownBuilds, EffectsOf, Placed, Once, Kind
        <5>5. Ident = effects[i].remote /\ effects[i].remote # 0
          BY <5>1, <5>2, <5>3, <5>4 DEF Ident, KnownBuilds
        <5> QED
          BY <1>1, <2>1, <5>5 DEF BuildEnded
      <4> QED
        BY <4>1, <4>2
    <3> QED
      BY <3>1, <3>2, <3>3
  <2>2. ASSUME ~y'.uncertain /\ ~y'.failed, NEW j \in y'.done, steps[j].kind # "build"
        PROVE  Deployed(j)
    BY <1>1, <1>2, <2>2 DEF Read
  <2>3. \A j : Deployed(j) <=> Deployed(j)'
    BY <1>1 DEF Deployed
  <2>4. \A i \in DOMAIN effects : Kind(i) = "build_create" => effects'[i].remote = effects[i].remote
    BY <1>3, <1>4
  <2> QED
    <3>1. /\ builds' = builds /\ releases' = releases /\ steps' = steps /\ got' = got
          /\ DOMAIN effects' = DOMAIN effects
          /\ \A i \in DOMAIN effects : /\ effects'[i].step = effects[i].step /\ effects'[i].kind = effects[i].kind
                                       /\ effects'[i].env = effects[i].env
                                       /\ Kind(i) = "env_deploy" => effects'[i].remote = effects[i].remote
      BY <1>1, <1>4 DEF SameEffects, Kind
    <3>2. \A i : Reached(i) <=> Reached(i)'
      BY <3>1 DEF Reached
    <3>3. ~y'.uncertain => \A i \in DOMAIN effects' : effects'[i].step < y'.k =>
            /\ effects'[i].kind = "build_create" =>
                 effects'[i].remote # 0 /\ Completed(builds'[effects'[i].remote])
            /\ effects'[i].kind = "release_create" => Reached(i)'
            /\ effects'[i].kind = "env_deploy" =>
                 /\ Reached(i)'
                 /\ deployment_result(releases'[effects'[i].remote].envs[effects'[i].env]) # "none"
      BY <2>1, <2>4, <3>1, <3>2 DEF Kind
    <3>4. ~y'.uncertain /\ ~y'.failed => \A j \in y'.done : steps'[j].kind # "build" => Deployed(j)'
      BY <2>2, <2>3, <3>1
    <3> QED
      BY <3>3, <3>4 DEF Read, Kind, Completed, deployment_result
<1>7. Succeeds'
  BY <1>1, <1>5, SucceedsStill
<1>8. DecidedIsQuiet'
  BY <1>1 DEF DecidedIsQuiet, Decided
<1>9. \A i \in DOMAIN effects : Kind(i) # "build_cancel" => effects'[i] = effects[i]
  BY <1>3, <1>4
<1> QED
  BY <1>1, <1>4, <1>5, <1>6, <1>7, <1>8, <1>9, ReadAlone

(* As many different environments as are selected are all of them          *)
LEMMA AllDeployed ==
  ASSUME PlanAssumption, NEW D, NEW f \in [D -> Selected], \A i, j \in D : f[i] = f[j] => i = j,
         Cardinality(D) = Len(Stages), NEW e \in Selected
  PROVE  \E i \in D : f[i] = e
<1>1. Stages \in Seq(Selected) /\ Len(Stages) \in Nat /\ DOMAIN Stages = 1..Len(Stages)
  BY DEF PlanAssumption
<1>2. IsFiniteSet(1..Len(Stages)) /\ Cardinality(1..Len(Stages)) = Len(Stages)
  <2>1. PICK n \in Nat : n = Len(Stages)
    BY <1>1
  <2>2. IsFiniteSet(1..n) /\ Cardinality(1..n) = IF 1 > n THEN 0 ELSE n - 1 + 1
    BY FS_Interval
  <2>3. Cardinality(1..n) = n
    BY <2>2
  <2> QED
    BY <2>1, <2>2, <2>3
<1>3. Stages \in Surjection(1..Len(Stages), Selected) /\ Stages \in Injection(1..Len(Stages), Selected)
  <2>1. Stages \in [1..Len(Stages) -> Selected]
    BY <1>1
  <2> QED
    BY <1>1, <2>1 DEF Surjection, Injection, IsInjective, PlanAssumption, Selected
<1>4. IsFiniteSet(Selected) /\ Cardinality(Selected) = Len(Stages)
  BY <1>2, <1>3, FS_Surjection
<1>5. f \in Injection(D, Selected)
  BY DEF Injection, IsInjective
<1>6. f \in Surjection(D, Selected)
  BY <1>4, <1>5, FS_Injection
<1> QED
  BY <1>6 DEF Surjection

LEMMA DeploymentsDiffer ==
  ASSUME ExecutorInv, y.k \in DOMAIN steps, NEW i \in Deployments, NEW j \in Deployments, effects[i].env = effects[j].env
  PROVE  i = j
<1>1. /\ i \in DOMAIN effects /\ Kind(i) = "env_deploy" /\ effects[i].step = y.k
      /\ j \in DOMAIN effects /\ Kind(j) = "env_deploy" /\ effects[j].step = y.k
  BY DeploymentsAreOf
<1> QED
  BY <1>1 DEF ExecutorInv, Once

(* What the read of a release concludes of each effect of its step         *)
LEMMA ReleaseWasMade ==
  ASSUME ExecutorInv, AloneInv, y.k \in DOMAIN steps, ReleaseRead # 0, NEW i \in Creations
  PROVE  Reached(i)
<1>1. Ours /\ Known /\ Once /\ Placed
  BY DEF AloneInv, ExecutorInv
<1>2. \A j \in Creations : /\ j \in DOMAIN effects /\ Kind(j) = "release_create" /\ effects[j].step = y.k
                           /\ effects[j].env = "-" /\ j # 0
  BY <1>1, ReadIs DEF Creations, EffectsOf, Kind, Placed
<1>3. \A j \in Creations : j = i
  BY <1>1, <1>2 DEF Once
<1>4. \/ steps[y.k].release # 0
      \/ effects[i].remote # 0
      \/ \E r \in DOMAIN releases : releases[r].by = i
  <2>1. \/ steps[y.k].release # 0
        \/ \E j \in Creations : effects[j].remote # 0
        \/ \E r \in DOMAIN releases : releases[r].by \in Creations
    BY KnownReleaseIs
  <2> QED
    BY <1>3, <2>1
<1>5. CASE steps[y.k].release # 0 \/ effects[i].remote # 0
  BY <1>1, <1>2, <1>5 DEF Known
<1>6. CASE \E r \in DOMAIN releases : releases[r].by = i
  BY <1>1, <1>2, <1>6 DEF Ours
<1> QED
  BY <1>4, <1>5, <1>6

LEMMA DeploymentWasMade ==
  ASSUME ExecutorInv, AloneInv, y.k \in DOMAIN steps, NEW i \in NewerOnes
  PROVE  Reached(i) /\ releases[ReleaseRead].envs[effects[i].env].run = i
<1>1. i \in Deployments /\ Since(i, ReleaseRead) /\ Known
  BY DEF NewerOnes, AloneInv
<1>2. /\ i \in DOMAIN effects /\ Kind(i) = "env_deploy" /\ effects[i].env \in Selected /\ effects[i].env \in Envs
      /\ effects[i].remote = ReleaseRead /\ ReleaseRead \in DOMAIN releases
  BY <1>1, DeploymentsAreOf DEF Envs
<1>3. releases[ReleaseRead].envs[effects[i].env].attempt \in Nat /\ effects[i].base \in Nat
  <2>1. releases[ReleaseRead] \in ReleaseRecord /\ Types
    BY <1>2, Indexed DEF ExecutorInv, Types
  <2>2. releases[ReleaseRead].envs[effects[i].env] \in EnvRecord
    BY <1>2, <2>1 DEF ReleaseRecord
  <2> QED
    BY <1>2, <2>1, <2>2, EffectIs DEF EnvRecord
<1>4. IF Reached(i) THEN releases[ReleaseRead].envs[effects[i].env].run = i
      ELSE releases[ReleaseRead].envs[effects[i].env].attempt <= effects[i].base
  BY <1>1, <1>2 DEF Known
<1>5. releases[ReleaseRead].envs[effects[i].env].attempt > effects[i].base
  BY <1>1 DEF Since
<1> QED
  BY <1>3, <1>4, <1>5

(* A step that the reconciliation finds done has deployed what it was to   *)
LEMMA DoneIsDeployed ==
  ASSUME PlanAssumption, ExecutorInv, AloneInv, y.k \in DOMAIN steps, ReleaseRead # 0,
         Cardinality(Deployments) = Len(Stages), NewerOnes = Deployments, OpenOnes = {}, BadOnes = {}
  PROVE  Deployed(y.k)
<1>1. PICK f : f = [i \in Deployments |-> effects[i].env]
  OBVIOUS
<1>2. f \in [Deployments -> Selected]
  BY <1>1, DeploymentsAreOf
<1>3. \A i, j \in Deployments : f[i] = f[j] => i = j
  BY <1>1, DeploymentsDiffer
<1>4. ASSUME NEW e \in Selected
      PROVE  \E i \in Deployments : effects[i].env = e
  <2>1. \E i \in Deployments : f[i] = e
    BY <1>2, <1>3, AllDeployed
  <2> QED
    BY <1>1, <2>1
<1>5. \E e : e \in Selected
  BY DEF PlanAssumption, Selected
<1>6. ReleaseRead = steps[y.k].release /\ ReleaseRead \in DOMAIN releases /\ releases[ReleaseRead].target = steps[y.k].target
  BY <1>4, <1>5, DeploymentsAreOf DEF Sound
<1>7. ASSUME NEW e \in Selected
      PROVE  /\ releases[ReleaseRead].envs[e].run # 0 /\ releases[ReleaseRead].envs[e].status = "succeeded"
             /\ releases[ReleaseRead].envs[e].agreed
  <2>1. PICK i \in Deployments : effects[i].env = e
    BY <1>4
  <2>2. releases[ReleaseRead].envs[e].run = i /\ i # 0
    BY <2>1, DeploymentWasMade, DeploymentsAreOf, ReadIs
  <2>3. deployment_result(releases[ReleaseRead].envs[e]) \notin {"none", "failed"}
    BY <2>1 DEF OpenOnes, BadOnes
  <2> QED
    BY <2>2, <2>3 DEF deployment_result
<1> QED
  BY <1>6, <1>7 DEF Deployed

LEMMA ReadReleaseAlone ==
  ASSUME PlanAssumption, ExecutorInv, AloneInv, ReadRelease
  PROVE  AloneInv'
<1>1. /\ y.k \in DOMAIN steps /\ steps[y.k].kind # "build" /\ out = "unknown"
      /\ UNCHANGED <<op, builds, releases, flight, got, drift, steps, stop, out, x, faults>>
      /\ y'.k = y.k + 1
      /\ y'.done \subseteq y.done \cup {y.k}
      /\ (~y'.uncertain => /\ ~y.uncertain
                           /\ IF ReleaseRead = 0 THEN Creations = {} /\ Deployments = {}
                              ELSE NewerOnes = Deployments /\ OpenOnes = {})
      /\ (~y'.failed => ~y.failed /\ (ReleaseRead # 0 => BadOnes = {}))
      /\ (y.k \in y'.done => y.k \in y.done \/ (/\ ReleaseRead # 0 /\ Cardinality(Deployments) = Len(Stages)
                                              /\ NewerOnes = Deployments /\ OpenOnes = {}))
  BY ReleaseReadIs
<1>2. Types /\ Placed /\ Once /\ Read /\ y.k \in Nat
  BY <1>1, ReadIs DEF ExecutorInv, AloneInv
<1>3. /\ SameEffects
      /\ \A i \in DOMAIN effects :
           effects'[i] # effects[i] => ReleaseRead # 0 /\ i \in Creations \cup NewerOnes
  BY ReadReleaseEffects
<1>4. /\ \A i \in Creations : i \in DOMAIN effects /\ Kind(i) = "release_create"
      /\ \A i \in Deployments : i \in DOMAIN effects /\ Kind(i) = "env_deploy"
      /\ NewerOnes \subseteq Deployments
  BY DEF Creations, Deployments, NewerOnes, EffectsOf, Kind
<1>5. SamePlan /\ \A j \in DOMAIN steps : steps'[j].release = steps[j].release /\ steps'[j].status = steps[j].status
  BY <1>1 DEF SamePlan
<1>6. \A i \in DOMAIN effects : effects'[i] # effects[i] => Reached(i) /\ Kind(i) # "build_create"
  BY <1>1, <1>3, <1>4, ReleaseWasMade, DeploymentWasMade
<1>7. Read'
  <2>1. ASSUME ~y'.uncertain, NEW i \in DOMAIN effects, effects[i].step < y'.k
        PROVE  /\ Kind(i) = "build_create" => effects[i].remote # 0 /\ Completed(builds[effects[i].remote])
               /\ Kind(i) = "release_create" => Reached(i)
               /\ Kind(i) = "env_deploy" =>
                    Reached(i) /\ deployment_result(releases[effects[i].remote].envs[effects[i].env]) # "none"
    <3>1. effects[i].step < y.k \/ effects[i].step = y.k
      BY <1>1, <1>2, <2>1, EffectIs
    <3>2. CASE effects[i].step < y.k
      BY <1>1, <1>2, <2>1, <3>2 DEF Read
    <3>3. CASE effects[i].step = y.k
      <4>1. Kind(i) # "build_create"
        BY <1>1, <1>2, <3>3 DEF Placed
      <4>2. ASSUME Kind(i) = "release_create" PROVE Reached(i)
        <5>1. i \in Creations
          BY <3>3, <4>2 DEF Creations, EffectsOf, Kind
        <5>2. ReleaseRead # 0
          BY <1>1, <2>1, <5>1
        <5> QED
          BY <1>1, <5>1, <5>2, ReleaseWasMade
      <4>3. ASSUME Kind(i) = "env_deploy"
            PROVE  Reached(i) /\ deployment_result(releases[effects[i].remote].envs[effects[i].env]) # "none"
        <5>1. i \in Deployments
          BY <3>3, <4>3 DEF Deployments, EffectsOf, Kind
        <5>2. ReleaseRead # 0 /\ i \in NewerOnes /\ OpenOnes = {}
          BY <1>1, <2>1, <5>1
        <5>3. effects[i].remote = ReleaseRead
          BY <1>1, <5>1, DeploymentsAreOf
        <5>4. deployment_result(releases[ReleaseRead].envs[effects[i].env]) # "none"
          BY <5>2 DEF OpenOnes
        <5> QED
          BY <1>1, <5>2, <5>3, <5>4, DeploymentWasMade
      <4> QED
        BY <4>1, <4>2, <4>3
    <3> QED
      BY <3>1, <3>2, <3>3
  <2>2. ASSUME ~y'.uncertain /\ ~y'.failed, NEW j \in y'.done, steps[j].kind # "build"
        PROVE  Deployed(j)
    <3>1. CASE j \in y.done
      BY <1>1, <1>2, <2>2, <3>1 DEF Read
    <3>2. CASE j \notin y.done
      BY <1>1, <2>2, <3>2, DoneIsDeployed
    <3> QED
      BY <3>1, <3>2
  <2>3. \A j : Deployed(j) <=> Deployed(j)'
    BY <1>1 DEF Deployed
  <2>4. \A i \in DOMAIN effects : Kind(i) = "build_create" => effects'[i].remote = effects[i].remote
    BY <1>6
  <2> QED
    <3>1. /\ builds' = builds /\ releases' = releases /\ steps' = steps /\ got' = got
          /\ DOMAIN effects' = DOMAIN effects
          /\ \A i \in DOMAIN effects : /\ effects'[i].step = effects[i].step /\ effects'[i].kind = effects[i].kind
                                       /\ effects'[i].env = effects[i].env
                                       /\ Kind(i) = "env_deploy" => effects'[i].remote = effects[i].remote
      BY <1>1, <1>3 DEF SameEffects, Kind
    <3>2. \A i : Reached(i) <=> Reached(i)'
      BY <3>1 DEF Reached
    <3>3. ~y'.uncertain => \A i \in DOMAIN effects' : effects'[i].step < y'.k =>
            /\ effects'[i].kind = "build_create" =>
                 effects'[i].remote # 0 /\ Completed(builds'[effects'[i].remote])
            /\ effects'[i].kind = "release_create" => Reached(i)'
            /\ effects'[i].kind = "env_deploy" =>
                 /\ Reached(i)'
                 /\ deployment_result(releases'[effects'[i].remote].envs[effects'[i].env]) # "none"
      BY <2>1, <2>4, <3>1, <3>2 DEF Kind
    <3>4. ~y'.uncertain /\ ~y'.failed => \A j \in y'.done : steps'[j].kind # "build" => Deployed(j)'
      BY <2>2, <2>3, <3>1
    <3> QED
      BY <3>3, <3>4 DEF Read, Kind, Completed, deployment_result
<1>8. Succeeds'
  BY <1>1, <1>5, SucceedsStill
<1>9. DecidedIsQuiet'
  BY <1>1 DEF DecidedIsQuiet, Decided
<1> QED
  BY <1>1, <1>3, <1>5, <1>6, <1>7, <1>8, <1>9, ReadAlone

(* Nothing uncertain: everything that was asked for has come to its end    *)
LEMMA CertainIsQuiet ==
  ASSUME ExecutorInv, AloneInv, out = "unknown", y.k = Len(steps) + 1, ~y.uncertain
  PROVE  /\ \A i \in flight : Kind(i) = "build_cancel"
         /\ \A b \in DOMAIN builds : builds[b].by # 0 => builds[b].result # "none"
         /\ \A r \in DOMAIN releases, e \in Envs :
              releases[r].envs[e].run # 0 => releases[r].envs[e].status \in RELEASE_TERMINAL
<1>1. /\ Ours /\ Known /\ Read /\ Once /\ flight \subseteq DOMAIN effects
      /\ \A i \in DOMAIN effects : effects[i].step \in DOMAIN steps
  BY DEF AloneInv, ExecutorInv, ExecutorTypeOK, Placed
<1>2. \A i \in DOMAIN effects : effects[i].step < y.k
  BY <1>1, ReadIs
<1>3. \A i \in DOMAIN effects :
        /\ Kind(i) = "build_create" => effects[i].remote # 0 /\ Completed(builds[effects[i].remote])
        /\ Kind(i) = "release_create" => Reached(i)
        /\ Kind(i) = "env_deploy" =>
             Reached(i) /\ deployment_result(releases[effects[i].remote].envs[effects[i].env]) # "none"
  BY <1>1, <1>2 DEF Read
<1>4. ASSUME NEW i \in flight PROVE Kind(i) = "build_cancel"
  <2>1. i \in DOMAIN effects /\ ~Reached(i)
    BY <1>1 DEF Once
  <2>2. Kind(i) \in {"build_create", "build_cancel", "release_create", "env_deploy"}
    BY <2>1, ReadIs, EffectIs DEF EffectRecord, Kind
  <2> QED
    BY <1>1, <1>3, <2>1, <2>2 DEF Known
<1>5. ASSUME NEW b \in DOMAIN builds, builds[b].by # 0 PROVE builds[b].result # "none"
  <2>1. PICK i : i = builds[b].by
    OBVIOUS
  <2>2. i \in DOMAIN effects /\ Kind(i) = "build_create" /\ effects[i].remote \in {0, b}
    BY <1>1, <1>5, <2>1 DEF Ours
  <2> QED
    BY <1>3, <2>2 DEF Completed
<1>6. ASSUME NEW r \in DOMAIN releases, NEW e \in Envs, releases[r].envs[e].run # 0
      PROVE  releases[r].envs[e].status \in RELEASE_TERMINAL
  <2>1. PICK i : i = releases[r].envs[e].run
    OBVIOUS
  <2>2. i \in DOMAIN effects /\ Kind(i) = "env_deploy" /\ effects[i].remote = r /\ effects[i].env = e
    BY <1>1, <1>6, <2>1 DEF Ours
  <2>3. deployment_result(releases[r].envs[e]) # "none"
    BY <1>3, <2>2
  <2> QED
    BY <2>3 DEF deployment_result
<1> QED
  BY <1>4, <1>5, <1>6

LEMMA ConcludeAlone ==
  ASSUME ExecutorInv, AloneInv, Conclude
  PROVE  AloneInv'
<1>1. /\ out = "unknown" /\ y.k = Len(steps) + 1 /\ y' = NoRead /\ Types /\ Read /\ Succeeds
      /\ UNCHANGED <<op, builds, releases, flight, got, drift, effects>>
      /\ out' \in {"unknown", "succeeded", "failed", "cancelled"}
  BY DEF Conclude, server, ExecutorInv, AloneInv
<1>2. /\ SamePlan
      /\ \A j \in DOMAIN steps : steps'[j].release = steps[j].release
      /\ \/ \A j \in DOMAIN steps : steps'[j].status = steps[j].status
         \/ /\ ~y.uncertain /\ ~y.failed /\ Finished
            /\ \A j \in DOMAIN steps : steps'[j].status = "succeeded"
  <2>1. CASE steps' = steps
    BY <1>1, <2>1 DEF SamePlan
  <2>2. CASE /\ ~y.uncertain /\ ~y.failed /\ Finished
             /\ steps' = [j \in DOMAIN steps |-> [steps[j] EXCEPT !.status = "succeeded"]]
    BY <1>1, <2>2, AllSucceeded
  <2> QED
    BY <2>1, <2>2 DEF Conclude
<1>3. out' = "succeeded" => \A j \in DOMAIN steps : steps'[j].status = "succeeded"
  <2>1. out' = "succeeded" => steps' = [j \in DOMAIN steps |-> [steps[j] EXCEPT !.status = "succeeded"]]
    BY <1>1 DEF Conclude
  <2> QED
    BY <1>1, <2>1, AllSucceeded
<1>4. SameEffects
  BY <1>1 DEF SameEffects
<1>5. Succeeds'
  <2>1. ASSUME NEW j \in DOMAIN steps, steps[j].kind # "build", steps'[j].status = "succeeded"
        PROVE  Deployed(j)
    BY <1>1, <1>2, <2>1 DEF Succeeds, Read, Finished
  <2>2. \A j \in DOMAIN steps : Deployed(j) => Deployed(j)'
    BY <1>1, <1>2 DEF Deployed, SamePlan
  <2> QED
    BY <1>2, <1>3, <2>1, <2>2 DEF Succeeds, SamePlan
<1>6. Read'
  <2>1. y'.k = 0 /\ y'.done = {}
    BY <1>1 DEF NoRead
  <2> QED
    BY <1>4, <2>1, NotRead
<1>7. DecidedIsQuiet'
  <2>1. out' \in Decided => ~y.uncertain
    BY <1>1 DEF Conclude, Decided
  <2> QED
    BY <1>1, <2>1, CertainIsQuiet DEF DecidedIsQuiet, Kind
<1> QED
  BY <1>1, <1>2, <1>4, <1>5, <1>6, <1>7, ReadAlone

-----------------------------------------------------------------------------
LEMMA AloneAtFirst ==
  ASSUME PlanAssumption, ExecutorInit
  PROVE  AloneInv
<1>1. /\ op \in Operations /\ builds = Found(op) /\ releases = History(op) /\ steps = PlanOf(op)
      /\ flight = {} /\ got = <<>> /\ ~drift /\ effects = <<>> /\ out = "running"
      /\ x = [Idling EXCEPT !.pc = "target"] /\ y = NoRead
  BY DEF ExecutorInit
<1>2. /\ \A j \in DOMAIN steps : steps[j].status = "pending" /\ steps[j].release = 0
      /\ \A b \in DOMAIN builds : builds[b].result = "succeeded" /\ builds[b].by = 0
      /\ \A r \in DOMAIN releases : /\ releases[r].by = 0
                                    /\ \A e \in Envs : releases[r].envs[e].trigger = "manual" /\ releases[r].envs[e].run = 0
      /\ Len(steps) \in Nat /\ DOMAIN steps = 1..Len(steps)
  BY <1>1, PlanTyped, Indexed
<1>3. x.pc = "target" /\ x.k = 1
  BY <1>1, IdlingIs DEF ExecutorRecord
<1>4. Ours
  BY <1>1, <1>2 DEF Ours, Completed, Envs
<1>5. Known /\ ConfirmedWasDelivered
  BY <1>1 DEF Known, ConfirmedWasDelivered
<1>6. Succeeds
  BY <1>1, <1>2 DEF Succeeds
<1>7. OnlyHere
  <2>1. \A j \in DOMAIN steps : ~(j < x.k)
    BY <1>2, <1>3
  <2> QED
    BY <1>1, <1>2, <1>3, <2>1 DEF OnlyHere, Completed, Deploying, Doing
<1>8. DecidedIsQuiet
  BY <1>1 DEF DecidedIsQuiet, Decided
<1> QED
  BY <1>1, <1>4, <1>5, <1>6, <1>7, <1>8 DEF AloneInv

LEMMA NextAlone ==
  ASSUME PlanAssumption, ~Outsiders, ExecutorInv, AloneInv, ExecutorInv', [ExecutorNext]_evars
  PROVE  AloneInv'
<1>1. CASE Executor
  BY <1>1, ExecutorAlone
<1>2. CASE Reconcile
  BY <1>2, BeginReadingAlone, ReadBuildAlone, ReadReleaseAlone, ConcludeAlone DEF Reconcile
<1>3. CASE Progress
  BY <1>3, BuildEndsAlone, DeploymentAlone DEF Progress
<1>4. CASE Others
  <2>1. \E r \in DOMAIN releases, e \in Envs : AutoDeploys(r, e)
    BY <1>4 DEF Others, OtherBuild, OtherDeployment, Drifts
  <2> QED
    BY <2>1, AutoAlone
<1>5. CASE Transport
  BY <1>5, ArrivesAlone, VanishesAlone DEF Transport
<1>6. CASE Faulty
  <2>1. TimesOut \/ Fails \/ Crash => Running
    BY DEF TimesOut, Fails, Crash, At
  <2> QED
    BY <1>6, <2>1, ReadFailsAlone, EndsAlone DEF Faulty
<1>7. CASE Cancel
  BY <1>7, CancelAlone
<1>8. CASE Over \/ UNCHANGED evars
  <2>1. UNCHANGED <<op, builds, releases, flight, got, drift, steps, effects, stop, out, x, y, faults>>
    BY <1>8 DEF Over, evars
  <2>2. Grown /\ EnvsKept /\ \A i : Reached(i) <=> Reached(i)'
    BY <2>1 DEF Grown, EnvsKept, Reached
  <2>3. Ours' /\ Known' /\ DecidedIsQuiet'
    <3>1. Ours /\ Known /\ DecidedIsQuiet
      BY DEF AloneInv
    <3>2. Ours'
      BY <2>1, <2>2, <3>1 DEF Ours, Kind
    <3>3. Known'
      BY <2>1, <2>2, <3>1 DEF Known, Kind
    <3>4. DecidedIsQuiet'
      BY <2>1, <3>1 DEF DecidedIsQuiet
    <3> QED
      BY <3>2, <3>3, <3>4
  <2>4. ASSUME out = "running" PROVE OnlyHere'
    <3>1. OnlyHere
      BY <2>4 DEF AloneInv
    <3> QED
      BY <2>1, <3>1 DEF OnlyHere, Building, Releasing, Deploying, Doing, Kind, Last
  <2> QED
    BY <2>1, <2>2, <2>3, <2>4, ServerAlone
<1> QED
  BY <1>1, <1>2, <1>3, <1>4, <1>5, <1>6, <1>7, <1>8 DEF ExecutorNext

LEMMA SuccessIsDeployed ==
  ASSUME PlanAssumption, ExecutorInv, AloneInv
  PROVE  SucceededIsDeployed
<1>1. SUFFICES ASSUME out = "succeeded", NEW t \in 1..N
               PROVE  \E r \in DOMAIN releases :
                        /\ releases[r].target = t
                        /\ \A e \in Selected : LET v == releases[r].envs[e] IN
                             v.run # 0 /\ v.status = "succeeded" /\ v.agreed
  BY DEF SucceededIsDeployed
<1>2. Planned /\ op \in Operations /\ steps \in Seq(StepRecord) /\ Succeeds
  BY DEF ExecutorInv, ExecutorTypeOK, Types, AloneInv
<1>3. PICK j \in DOMAIN steps : steps[j].kind # "build" /\ steps[j].target = t
  BY <1>2, PlanIs
<1>4. Deployed(j)
  BY <1>1, <1>2, <1>3 DEF Succeeds
<1> QED
  BY <1>3, <1>4 DEF Deployed

(* No request is carried out twice, and nothing is deployed that was not   *)
(* built from the plan; and where nobody else deploys, a run is decided    *)
(* only when all it asked for has ended, a success is a deployment of      *)
(* every selected environment of every target, and a deployment that the   *)
(* journal holds for confirmed was made (AdoTaskExecutor.execute, write,   *)
(* reconcile).                                                             *)
THEOREM ExecutorIsSafe == PlanAssumption => (ExecutorSpec => []ExecutorSafe)
<1> SUFFICES ASSUME PlanAssumption PROVE ExecutorSpec => []ExecutorSafe
  OBVIOUS
<1>1. ExecutorInit => Inv
  BY InitHolds, AloneAtFirst DEF Inv
<1>2. Inv /\ [ExecutorNext]_evars => Inv'
  <2> SUFFICES ASSUME ExecutorInv, ~Outsiders => AloneInv, [ExecutorNext]_evars PROVE Inv'
    BY DEF Inv
  <2>1. ExecutorInv'
    BY NextKeeps
  <2>2. ~Outsiders => AloneInv'
    BY <2>1, NextAlone
  <2> QED
    BY <2>1, <2>2 DEF Inv
<1>3. Inv => ExecutorSafe
  <2> SUFFICES ASSUME ExecutorInv, ~Outsiders => AloneInv PROVE ExecutorSafe
    BY DEF Inv
  <2>1. ExecutorTypeOK /\ SingleDelivery /\ DeployedIsBuilt
    BY DeliversOnce
  <2>2. ~Outsiders => DecidedIsQuiet /\ SucceededIsDeployed /\ ConfirmedWasDelivered
    BY SuccessIsDeployed DEF AloneInv
  <2> QED
    BY <2>1, <2>2 DEF ExecutorSafe
<1> QED
  BY <1>1, <1>2, <1>3, PTL DEF ExecutorSpec
=============================================================================

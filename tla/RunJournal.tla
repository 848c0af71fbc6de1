----------------------------- MODULE RunJournal -----------------------------
(***************************************************************************)
(* The run journal, adapters/run_store.py: the durable SQLite store of the *)
(* task runs, their steps, their remote side effects and the resources     *)
(* they reserve.  Every operation of RunStore that writes is one           *)
(* transaction under one lock, so it is one action here; the durable       *)
(* variables survive Crash because a transaction commits or rolls back.    *)
(*                                                                         *)
(* The callers are left unconstrained: any operation may be called at any  *)
(* time with any argument, and a call whose guard is false raises and      *)
(* changes nothing.  RunService says which calls the program makes.        *)
(*                                                                         *)
(* state_version is a counter that every write of a run increments and     *)
(* that Transition compares with the value its caller read.  A comparison  *)
(* of equal numbers is all the code does with it, so the model keeps, for  *)
(* each run, the callers whose last read is still the stored version.      *)
(***************************************************************************)
EXTENDS Naturals, FiniteSets

CONSTANTS
  Runs,         \* run ids that may be allocated
  Tasks,        \* task ids
  Requests,     \* client request ids
  Hashes,       \* digests of the request bodies
  Keys,         \* resource keys a run may reserve
  Steps,        \* step numbers of a plan
  IntentKeys,   \* <step, kind, resource> triples, as records
  Ids,          \* remote identities (builds, pipelines, releases)
  Callers,      \* code paths that read a run and then transition it
  QueueLimit,   \* most runs that may be queued (100 in the code)
  Nobody,       \* no run
  NoId,         \* no remote identity
  None          \* no task, no request, no hash

EffectKinds == {"git_push", "build_create", "build_cancel", "release_create", "env_deploy"}

ASSUME NobodyAssumption == Nobody \notin Runs
ASSUME NoIdAssumption   == NoId \notin Ids
ASSUME NoneAssumption   == None \notin Tasks \cup Requests \cup Hashes
ASSUME KeysAssumption   ==
  IntentKeys \subseteq [step: Steps, kind: EffectKinds, resource: {"-", "a", "b"}]
ASSUME LimitAssumption  == QueueLimit \in Nat \ {0}

Active       == {"queued", "running", "cancelling", "unknown"}
Terminal     == {"succeeded", "failed", "cancelled"}
Status       == Active \cup Terminal
Reasons      == {"user", "timeout", "shutdown"}
StepStatus   == {"pending", "running", "succeeded", "failed", "skipped", "unknown"}
FinishStatus == {"succeeded", "failed", "skipped", "unknown"}
EffectState  == {"none", "intent", "confirmed", "rejected", "unknown"}
ReceiptState == {"confirmed", "rejected", "unknown"}
Recovery     == {"none", "pending", "manual_required"}

(* TRANSITIONS: the status changes _transition accepts.                    *)
Transitions ==
  ({"queued"} \X {"running", "cancelled", "failed"})
    \cup ({"running"} \X {"cancelling", "succeeded", "failed", "unknown"})
    \cup ({"cancelling"} \X {"cancelled", "failed", "unknown", "succeeded"})
    \cup ({"unknown"} \X ({"unknown"} \cup Terminal))

VARIABLES
  store,        \* the connection: "closed", "open", "failed" or "refused"
  status,       \* run -> its status, "absent" when the run does not exist
  task,         \* run -> the task it was created for
  request,      \* run -> [id, hash] of the request that created it
  stop,         \* run -> stop_reason, "none" until a stop is requested
  recovery,     \* run -> recovery_state
  step,         \* run -> step -> status, "absent" when not in the plan
  seen,         \* run -> step -> remote ids its checkpoint records
  effect,       \* run -> intent key -> [state, remote, owned]
  holder,       \* resource key -> the run that reserves it, or Nobody
  fresh         \* run -> callers whose read of the run is still current

journal == <<status, task, request, stop, recovery, step, seen, effect, holder>>
jvars   == <<store, journal, fresh>>

NoRequest == [id |-> None, hash |-> None]
NoEffect  == [state |-> "none", remote |-> NoId, owned |-> FALSE]

TypeOK ==
  /\ store \in {"closed", "open", "failed", "refused"}
  /\ status \in [Runs -> Status \cup {"absent"}]
  /\ task \in [Runs -> Tasks \cup {None}]
  /\ request \in [Runs -> [id: Requests \cup {None}, hash: Hashes \cup {None}]]
  /\ stop \in [Runs -> Reasons \cup {"none"}]
  /\ recovery \in [Runs -> Recovery]
  /\ step \in [Runs -> [Steps -> StepStatus \cup {"absent"}]]
  /\ seen \in [Runs -> [Steps -> SUBSET Ids]]
  /\ effect \in [Runs -> [IntentKeys ->
                   [state: EffectState, remote: Ids \cup {NoId}, owned: BOOLEAN]]]
  /\ holder \in [Keys -> Runs \cup {Nobody}]
  /\ fresh \in [Runs -> SUBSET Callers]

Init ==
  /\ store = "closed"
  /\ status = [r \in Runs |-> "absent"]
  /\ task = [r \in Runs |-> None]
  /\ request = [r \in Runs |-> NoRequest]
  /\ stop = [r \in Runs |-> "none"]
  /\ recovery = [r \in Runs |-> "none"]
  /\ step = [r \in Runs |-> [s \in Steps |-> "absent"]]
  /\ seen = [r \in Runs |-> [s \in Steps |-> {}]]
  /\ effect = [r \in Runs |-> [k \in IntentKeys |-> NoEffect]]
  /\ holder = [k \in Keys |-> Nobody]
  /\ fresh = [r \in Runs |-> {}]

-----------------------------------------------------------------------------
Readable == store \in {"open", "failed"}
Writable == store = "open"

ActiveRun(r)   == status[r] \in Active
TerminalRun(r) == status[r] \in Terminal
QueuedRuns     == {r \in Runs : status[r] = "queued"}
Stopped(r)     == stop[r] # "none"
Effects(r)     == {k \in IntentKeys : effect[r][k].state # "none"}
Unsettled(r)   == {k \in IntentKeys : effect[r][k].state \in {"intent", "unknown"}}
Settled(r)     == Effects(r) \ Unsettled(r)
PlanDone(r)    == \A s \in Steps : step[r][s] \in {"absent", "succeeded", "skipped"}
Prior(q)       == {r \in Runs : request[r].id = q}

(* Every write increments state_version: no earlier read is current.       *)
Touch(r) == fresh' = [fresh EXCEPT ![r] = {}]

(* Mutant: the DELETE without its WHERE.                                   *)
ReleaseAll(r) == [k \in Keys |-> Nobody]

(* DELETE FROM run_reservations WHERE run_id = r                           *)
Release(r) == [k \in Keys |-> IF holder[k] = r THEN Nobody ELSE holder[k]]

-----------------------------------------------------------------------------
(* _initialize: the lock file, the version and the integrity checks are    *)
(* passed, or the store is refused for the life of the process.            *)
Initialize ==
  /\ store = "closed"
  /\ store' \in {"open", "refused"}
  /\ UNCHANGED <<journal, fresh>>

(* _close and process exit: what a caller has read is gone with it.        *)
Crash ==
  /\ store # "closed"
  /\ store' = "closed"
  /\ fresh' = [r \in Runs |-> {}]
  /\ UNCHANGED journal

(* _call: a write meets an I/O error, is rolled back, and disables writes. *)
WriteFault ==
  /\ store = "open"
  /\ store' = "failed"
  /\ UNCHANGED <<journal, fresh>>

(* _get by a caller that will transition the run it read.                  *)
Get(c, r) ==
  /\ Readable
  /\ status[r] # "absent"
  /\ fresh' = [fresh EXCEPT ![r] = @ \cup {c}]
  /\ UNCHANGED <<store, journal>>

-----------------------------------------------------------------------------
(* Mutants: unknown does not count as active; the request is not looked up *)
(* under the lock; the reservations of others are not.                     *)
CreateBesideUnknownOK(t, q, ks) ==
  /\ Writable /\ Prior(q) = {} /\ Cardinality(QueuedRuns) < QueueLimit
  /\ \A x \in Runs : task[x] = t => status[x] \notin {"queued", "running", "cancelling"}
  /\ \A k \in ks : holder[k] = Nobody

CreateRepeatedOK(t, q, ks) ==
  /\ Writable /\ Cardinality(QueuedRuns) < QueueLimit
  /\ \A x \in Runs : task[x] = t => ~ActiveRun(x)
  /\ \A k \in ks : holder[k] = Nobody

CreateSharedOK(t, q, ks) ==
  /\ Writable /\ Prior(q) = {} /\ Cardinality(QueuedRuns) < QueueLimit
  /\ \A x \in Runs : task[x] = t => ~ActiveRun(x)

(* _create: a request already served (same hash) returns its run and       *)
(* changes nothing; a refusal raises and changes nothing.                  *)
CreateOK(t, q, ks) ==
  /\ Writable
  /\ Prior(q) = {}
  /\ \A x \in Runs : task[x] = t => ~ActiveRun(x)
  /\ Cardinality(QueuedRuns) < QueueLimit
  /\ \A k \in ks : holder[k] = Nobody

Create(r, t, q, h, ks, plan) ==
  /\ CreateOK(t, q, ks)
  /\ status[r] = "absent"
  /\ status' = [status EXCEPT ![r] = "queued"]
  /\ task' = [task EXCEPT ![r] = t]
  /\ request' = [request EXCEPT ![r] = [id |-> q, hash |-> h]]
  /\ step' = [step EXCEPT ![r] = [s \in Steps |-> IF s \in plan THEN "pending" ELSE "absent"]]
  /\ holder' = [k \in Keys |-> IF k \in ks THEN r ELSE holder[k]]
  /\ Touch(r)
  /\ UNCHANGED <<store, stop, recovery, seen, effect>>

(* Mutant: a run may be closed with open effects.                          *)
TransitionUnsettledOK(r, s) ==
  /\ <<status[r], s>> \in Transitions
  /\ s = "succeeded" => PlanDone(r)

(* _transition, without the compare-and-swap on the caller's version.      *)
TransitionOK(r, s) ==
  /\ <<status[r], s>> \in Transitions
  /\ s \in Terminal => Unsettled(r) = {}
  /\ s = "succeeded" => PlanDone(r)

SetStatus(r, s, rec) ==
  /\ TransitionOK(r, s)
  /\ status' = [status EXCEPT ![r] = s]
  /\ recovery' = [recovery EXCEPT ![r] = IF rec = "keep" THEN @ ELSE rec]
  /\ holder' = IF s \in Terminal THEN Release(r) ELSE holder
  /\ Touch(r)
  /\ UNCHANGED <<task, request, stop, step, seen, effect>>

Transition(c, r, s, rec) ==
  /\ Writable
  /\ c \in fresh[r]
  /\ SetStatus(r, s, rec)
  /\ UNCHANGED store

(* Mutants: a finished run can be stopped; the status has another name     *)
(* than the rest of the code uses.                                         *)
CancelFinishedOK(r) == Writable /\ status[r] # "absent" /\ ~Stopped(r)
CancelStatusMisnamed(s) ==
  IF s = "queued" THEN "cancelled" ELSE IF s = "running" THEN "stopping" ELSE s

(* _cancel: a terminal run, or one already asked to stop, is left alone.   *)
CancelOK(r) ==
  /\ Writable
  /\ ActiveRun(r)
  /\ ~Stopped(r)

CancelStatus(s) ==
  IF s = "queued" THEN "cancelled" ELSE IF s = "running" THEN "cancelling" ELSE s

Cancel(r, why) ==
  /\ CancelOK(r)
  /\ status' = [status EXCEPT ![r] = CancelStatus(@)]
  /\ stop' = [stop EXCEPT ![r] = why]
  /\ holder' = IF status[r] = "queued" THEN Release(r) ELSE holder
  /\ Touch(r)
  /\ UNCHANGED <<store, task, request, recovery, step, seen, effect>>

-----------------------------------------------------------------------------
(* Mutant: finished runs are not refused.                                  *)
RecordFinishedOK(r) == Writable /\ status[r] # "absent"

(* _record: the four journal mutations, refused on a terminal run.         *)
RecordOK(r) ==
  /\ Writable
  /\ ActiveRun(r)

(* kind = "checkpoint": the new checkpoint replaces the step's old one.    *)
Checkpoint(r, s, ids) ==
  /\ RecordOK(r)
  /\ step[r][s] # "absent"
  /\ step' = [step EXCEPT ![r][s] = "running"]
  /\ seen' = [seen EXCEPT ![r][s] = ids]
  /\ Touch(r)
  /\ UNCHANGED <<store, status, task, request, stop, recovery, effect, holder>>

(* kind = "step_finished": keeps what the checkpoint recorded.             *)
FinishStep(r, s, st) ==
  /\ RecordOK(r)
  /\ step[r][s] # "absent"
  /\ step' = [step EXCEPT ![r][s] = st]
  /\ Touch(r)
  /\ UNCHANGED <<store, status, task, request, stop, recovery, seen, effect, holder>>

OwnedCreates(r, s) ==
  {k \in IntentKeys : /\ k.step = s
                      /\ k.kind = "build_create"
                      /\ effect[r][k].state = "confirmed"
                      /\ effect[r][k].owned}

(* The build identities this run may ask the server to cancel in step s.   *)
CancellableIds(r, s) ==
  IF OwnedCreates(r, s) = {}
    THEN {}
    ELSE ({effect[r][k].remote : k \in OwnedCreates(r, s)} \ {NoId}) \cup seen[r][s]

(* Mutants: the same effect may begin again; a stopped run may begin one.  *)
IntentAgainOK(r, k, ids) ==
  /\ RecordOK(r)
  /\ step[r][k.step] # "absent"
  /\ IF k.kind = "build_cancel"
       THEN status[r] = "cancelling" /\ ids # {} /\ ids \subseteq CancellableIds(r, k.step)
       ELSE status[r] = "running" /\ ~Stopped(r)

IntentStoppedOK(r, k, ids) ==
  /\ RecordOK(r)
  /\ step[r][k.step] # "absent"
  /\ effect[r][k].state = "none"
  /\ status[r] \in {"running", "cancelling"}

(* kind = "intent": a build_cancel only while cancelling and only of an    *)
(* owned build, any other effect only while running and not stopped.       *)
IntentOK(r, k, ids) ==
  /\ RecordOK(r)
  /\ step[r][k.step] # "absent"
  /\ effect[r][k].state = "none"
  /\ IF k.kind = "build_cancel"
       THEN status[r] = "cancelling" /\ ids # {} /\ ids \subseteq CancellableIds(r, k.step)
       ELSE status[r] = "running" /\ ~Stopped(r)

Intent(r, k, ids) ==
  /\ IntentOK(r, k, ids)
  /\ effect' = [effect EXCEPT ![r][k] = [state |-> "intent", remote |-> NoId, owned |-> FALSE]]
  /\ Touch(r)
  /\ UNCHANGED <<store, status, task, request, stop, recovery, step, seen, holder>>

(* kind = "receipt": only an unsettled effect may be settled.              *)
ReceiptOK(r, k) ==
  /\ RecordOK(r)
  /\ k \in Unsettled(r)

Receipt(r, k, st, id, own) ==
  /\ ReceiptOK(r, k)
  /\ effect' = [effect EXCEPT ![r][k] = [state |-> st, remote |-> id, owned |-> own]]
  /\ Touch(r)
  /\ UNCHANGED <<store, status, task, request, stop, recovery, step, seen, holder>>

(* log: an event and a new state_version, on any run that exists; nothing  *)
(* once the log of the run has reached its limit.                          *)
Log(r) ==
  /\ Writable
  /\ status[r] # "absent"
  /\ Touch(r) \/ UNCHANGED fresh
  /\ UNCHANGED <<store, journal>>

-----------------------------------------------------------------------------
(* Mutant: whatever was active becomes unknown.                            *)
RecoverToUnknown(r) == "unknown"

(* _recover_runs for one run, read and transitioned under one lock: a      *)
(* queued run without an effect never reached the remote side.             *)
RecoverTo(r) ==
  IF status[r] = "queued" /\ Effects(r) = {} THEN "cancelled" ELSE "unknown"

(* _recover: the only operation that may lift the guard a write fault set, *)
(* by committing; when the read after the commit fails, the guard stays.   *)
Recover(r) ==
  /\ Readable
  /\ ActiveRun(r)
  /\ SetStatus(r, RecoverTo(r), IF RecoverTo(r) = "unknown" THEN "pending" ELSE "keep")
  /\ store' \in {"open", store}

-----------------------------------------------------------------------------
CreateAny ==
  \E r \in Runs, t \in Tasks, q \in Requests, h \in Hashes,
     ks \in SUBSET Keys, plan \in SUBSET Steps : Create(r, t, q, h, ks, plan)

TransitionAny ==
  \E c \in Callers, r \in Runs, s \in Status, rec \in Recovery \cup {"keep"} :
    Transition(c, r, s, rec)

RecordAny ==
  \E r \in Runs :
    \/ \E s \in Steps, ids \in SUBSET Ids : Checkpoint(r, s, ids)
    \/ \E s \in Steps, st \in FinishStatus : FinishStep(r, s, st)
    \/ \E k \in IntentKeys, ids \in SUBSET Ids : Intent(r, k, ids)
    \/ \E k \in IntentKeys, st \in ReceiptState, id \in Ids \cup {NoId}, own \in BOOLEAN :
         Receipt(r, k, st, id, own)

Next ==
  \/ Initialize
  \/ Crash
  \/ WriteFault
  \/ \E c \in Callers, r \in Runs : Get(c, r)
  \/ CreateAny
  \/ TransitionAny
  \/ \E r \in Runs, why \in Reasons : Cancel(r, why)
  \/ RecordAny
  \/ \E r \in Runs : Log(r)
  \/ \E r \in Runs : Recover(r)

Spec == Init /\ [][Next]_jvars

-----------------------------------------------------------------------------
(* Reservations and the status are kept by different statements of five    *)
(* operations; a key reserved by a finished run would block its resource   *)
(* for ever, as only that run's transition deletes the row.                *)
ReservedByActive ==
  \A k \in Keys : holder[k] # Nobody => ActiveRun(holder[k])

(* The active_task index: two runs of a task never overlap, an unknown run *)
(* of which nobody knows the outcome included.                             *)
OneActivePerTask ==
  \A r, x \in Runs : /\ ActiveRun(r)
                     /\ ActiveRun(x)
                     /\ task[r] = task[x]
                     => r = x

(* A request id creates one run however often it is retried.               *)
RequestOnce ==
  \A r, x \in Runs : status[r] # "absent" /\ request[r].id = request[x].id => r = x

(* No run is closed while the outcome of one of its remote writes is open, *)
(* across crashes, recovery, cancellation and late receipts.               *)
TerminalSettled ==
  \A r \in Runs : TerminalRun(r) => Unsettled(r) = {}

(* A run that reports success has finished every step of its plan.         *)
SucceededComplete ==
  \A r \in Runs : status[r] = "succeeded" => PlanDone(r)

(* A queued run has nothing on the remote side and was not stopped: hence  *)
(* _recover may cancel it, and never meets the refused queued -> unknown.  *)
QueuedUntouched ==
  \A r \in Runs : status[r] = "queued" => Effects(r) = {} /\ ~Stopped(r)

(* Recovery cannot get stuck: whatever was journalled before the crash,    *)
(* the transition _recover_runs chooses for an active run is accepted.     *)
RecoveryAccepted ==
  \A r \in Runs : ActiveRun(r) => TransitionOK(r, RecoverTo(r))

-----------------------------------------------------------------------------
(* A finished run, its steps and its effects never change again.           *)
TerminalFinal ==
  [][\A r \in Runs : TerminalRun(r) =>
       /\ status'[r] = status[r]
       /\ step'[r] = step[r]
       /\ effect'[r] = effect[r]
       /\ stop'[r] = stop[r]]_jvars

(* An effect is recorded once and a settled one is never reopened.         *)
EffectForward ==
  [][\A r \in Runs, k \in IntentKeys :
       /\ effect[r][k].state # "none" => effect'[r][k].state # "none"
       /\ effect[r][k].state \in {"confirmed", "rejected"} => effect'[r][k] = effect[r][k]]_jvars

(* Once a stop is requested the run begins no remote write but the         *)
(* cancellation of a build it created itself.                              *)
NoEffectAfterStop ==
  [][\A r \in Runs, k \in IntentKeys :
       (Stopped(r) /\ effect[r][k].state = "none" /\ effect'[r][k].state # "none") =>
         k.kind = "build_cancel" /\ OwnedCreates(r, k.step) # {}]_jvars

(* A resource leaves a run only by the transaction that closes the run.    *)
ReleasedByClosing ==
  [][\A k \in Keys : (holder[k] # Nobody /\ holder'[k] # holder[k]) =>
       holder'[k] = Nobody /\ status'[holder[k]] \in Terminal]_jvars

-----------------------------------------------------------------------------
(* The lease a run holds: its task while it is active (the unique index    *)
(* active_task), and the rows of run_reservations.                         *)
LeasePhase(r) ==
  IF status[r] = "absent" THEN "idle" ELSE IF ActiveRun(r) THEN "open" ELSE "closed"

LeaseHeld(r) ==
  IF ActiveRun(r)
    THEN {<<"task", task[r]>>} \cup {<<"key", k>> : k \in {x \in Keys : holder[x] = r}}
    ELSE {}

Lease == INSTANCE RunLease WITH
  Locks   <- {<<"task", t>> : t \in Tasks} \cup {<<"key", k>> : k \in Keys},
  Ops     <- IntentKeys,
  phase   <- [r \in Runs |-> LeasePhase(r)],
  held    <- [r \in Runs |-> LeaseHeld(r)],
  pending <- [r \in Runs |-> Unsettled(r)],
  settled <- [r \in Runs |-> Settled(r)]

(* The journal is a lease table: locks are taken together, never shared,   *)
(* kept through crashes and unknown outcomes, and given back only by the   *)
(* transition that closes a run with nothing left open on the remote side. *)
ImplementsLease == Lease!LeaseSpec
=============================================================================

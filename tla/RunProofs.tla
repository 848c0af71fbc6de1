----------------------------- MODULE RunProofs -----------------------------
(***************************************************************************)
(* The journal's invariants, what no step of it does, and that it          *)
(* implements the lease of RunLease: for any number of runs, tasks,        *)
(* resources, steps and effects, and any sequence of calls, faults and     *)
(* crashes.                                                                *)
(*                                                                         *)
(* The service implements the journal: every step of the process is one    *)
(* operation of the journal, called with what it requires, or leaves the   *)
(* journal alone.  What is proved of the journal then holds of the whole   *)
(* service, for every number of clients, workers, failures and crashes.    *)
(* Then its types and the permits of its semaphore, what it guarantees of  *)
(* the remote writes, and who answers for a run.                           *)
(***************************************************************************)
EXTENDS RunService, FiniteSetTheorems, TLAPS

-----------------------------------------------------------------------------
(* The journal                                                             *)

(* A run that was never created has left nothing behind: what Create needs *)
(* to establish QueuedUntouched for the run id it allocates.               *)
AbsentBlank ==
  \A r \in Runs : status[r] = "absent" => Effects(r) = {} /\ ~Stopped(r)

(* The inductive invariant.  Only AbsentBlank is not a property in itself. *)
IInv ==
  /\ TypeOK
  /\ AbsentBlank
  /\ ReservedByActive
  /\ OneActivePerTask
  /\ RequestOnce
  /\ TerminalSettled
  /\ SucceededComplete
  /\ QueuedUntouched

-----------------------------------------------------------------------------
(* Facts about the status graph.                                           *)
LEMMA StatusFacts ==
  /\ Active \cap Terminal = {}
  /\ "absent" \notin Status
  /\ \A s, n \in Status \cup {"absent"} :
       <<s, n>> \in Transitions => s \in Active /\ n \in Status \ {"queued"}
BY DEF Active, Terminal, Status, Transitions

LEMMA InitIInv == Init => IInv
<1> SUFFICES ASSUME Init PROVE IInv
  OBVIOUS
<1> USE DEF Init
<1>1. TypeOK
  <2>1. NoEffect \in [state: EffectState, remote: Ids \cup {NoId}, owned: BOOLEAN]
    BY DEF NoEffect, EffectState
  <2>2. NoRequest \in [id: Requests \cup {None}, hash: Hashes \cup {None}]
    BY DEF NoRequest
  <2> QED
    BY <2>1, <2>2 DEF TypeOK, Recovery
<1>2. \A r \in Runs : status[r] = "absent" /\ Effects(r) = {} /\ ~Stopped(r)
  BY DEF Effects, NoEffect, Stopped
<1>3. \A r \in Runs : ~ActiveRun(r) /\ ~TerminalRun(r) /\ status[r] # "queued"
  BY <1>2, StatusFacts DEF ActiveRun, TerminalRun, Status, Active
<1>4. AbsentBlank /\ TerminalSettled /\ QueuedUntouched /\ OneActivePerTask /\ RequestOnce
  BY <1>2, <1>3 DEF AbsentBlank, TerminalSettled, QueuedUntouched, OneActivePerTask, RequestOnce
<1>5. SucceededComplete
  BY <1>2 DEF SucceededComplete
<1>6. ReservedByActive
  BY DEF ReservedByActive
<1> QED
  BY <1>1, <1>4, <1>5, <1>6 DEF IInv

-----------------------------------------------------------------------------
(* What one step may change, and what a step that touches one run leaves.  *)
LEMMA CreateStep ==
  ASSUME IInv, NEW r \in Runs, NEW t \in Tasks, NEW q \in Requests, NEW h \in Hashes,
         NEW ks \in SUBSET Keys, NEW plan \in SUBSET Steps,
         Create(r, t, q, h, ks, plan)
  PROVE  IInv'
<1> USE DEF IInv, Create, CreateOK, Touch
<1>1. TypeOK'
  <2>1. "queued" \in Status \cup {"absent"}
    BY DEF Status, Active
  <2>2. [id |-> q, hash |-> h] \in [id: Requests \cup {None}, hash: Hashes \cup {None}]
    OBVIOUS
  <2>3. [s \in Steps |-> IF s \in plan THEN "pending" ELSE "absent"]
          \in [Steps -> StepStatus \cup {"absent"}]
    BY DEF StepStatus
  <2> QED
    BY <2>1, <2>2, <2>3 DEF TypeOK
<1>2. /\ status' = [status EXCEPT ![r] = "queued"]
      /\ status[r] = "absent"
      /\ effect' = effect /\ stop' = stop
  OBVIOUS
<1>3. \A x \in Runs : Effects(x)' = Effects(x) /\ Unsettled(x)' = Unsettled(x)
                      /\ Stopped(x)' = Stopped(x)
  BY <1>2 DEF Effects, Unsettled, Stopped
<1>4. \A x \in Runs \ {r} : status'[x] = status[x] /\ task'[x] = task[x]
                            /\ request'[x] = request[x] /\ step'[x] = step[x]
  BY DEF TypeOK
<1>5. status'[r] = "queued" /\ task'[r] = t /\ request'[r] = [id |-> q, hash |-> h]
  BY DEF TypeOK
<1>6. Effects(r) = {} /\ ~Stopped(r)
  BY <1>2 DEF AbsentBlank
<1>7. AbsentBlank'
  BY <1>3, <1>4, <1>5 DEF AbsentBlank
<1>8. QueuedUntouched'
  BY <1>3, <1>4, <1>6 DEF QueuedUntouched
<1>9. TerminalSettled'
  BY <1>3, <1>4, <1>5 DEF TerminalSettled, TerminalRun, Terminal
<1>10. SucceededComplete'
  BY <1>4, <1>5 DEF SucceededComplete, PlanDone
<1>11. OneActivePerTask'
  BY <1>4, <1>5 DEF OneActivePerTask, ActiveRun
<1>12. RequestOnce'
  <2>1. request'[r].id = q /\ \A x \in Runs : request[x].id # q
    BY <1>5 DEF Prior
  <2> QED
    BY <2>1, <1>4, <1>5 DEF RequestOnce
<1>13. ReservedByActive'
  <2>1. \A k \in Keys : holder'[k] = IF k \in ks THEN r ELSE holder[k]
    OBVIOUS
  <2>2. \A k \in Keys : holder[k] # Nobody => holder[k] \in Runs \ {r}
    BY <1>2 DEF ReservedByActive, TypeOK, ActiveRun, Active
  <2> QED
    BY <2>1, <2>2, <1>4, <1>5, NobodyAssumption DEF ReservedByActive, ActiveRun, Active
<1> QED
  BY <1>1, <1>7, <1>8, <1>9, <1>10, <1>11, <1>12, <1>13

LEMMA SetStatusStep ==
  ASSUME IInv, NEW r \in Runs, NEW s \in Status, NEW rec \in Recovery \cup {"keep"},
         SetStatus(r, s, rec), store' \in {"closed", "open", "failed", "refused"}
  PROVE  IInv'
<1> USE DEF IInv, SetStatus, Touch
<1>1. status[r] \in Active /\ s # "queued"
  BY StatusFacts DEF TransitionOK, TypeOK, Status
<1>2. TypeOK'
  BY DEF TypeOK, Release
<1>3. \A x \in Runs : Effects(x)' = Effects(x) /\ Unsettled(x)' = Unsettled(x)
                      /\ Stopped(x)' = Stopped(x) /\ PlanDone(x)' = PlanDone(x)
  BY DEF Effects, Unsettled, Stopped, PlanDone
<1>4. \A x \in Runs \ {r} : status'[x] = status[x]
  BY DEF TypeOK
<1>5. status'[r] = s
  BY DEF TypeOK
<1>6. AbsentBlank'
  BY <1>3, <1>4, <1>5, StatusFacts DEF AbsentBlank
<1>7. QueuedUntouched'
  BY <1>1, <1>3, <1>4, <1>5 DEF QueuedUntouched
<1>8. TerminalSettled'
  BY <1>3, <1>4, <1>5 DEF TerminalSettled, TerminalRun, TransitionOK
<1>9. SucceededComplete'
  BY <1>3, <1>4, <1>5 DEF SucceededComplete, TransitionOK
<1>10. OneActivePerTask'
  BY <1>1, <1>4 DEF OneActivePerTask, ActiveRun
<1>11. RequestOnce'
  BY <1>1, <1>4, StatusFacts DEF RequestOnce, Active
<1>12. ReservedByActive'
  <2>1. CASE s \in Terminal
    <3>1. \A k \in Keys : holder'[k] = IF holder[k] = r THEN Nobody ELSE holder[k]
      BY <2>1 DEF Release
    <3> QED
      BY <3>1, <1>4, NobodyAssumption DEF ReservedByActive, ActiveRun, TypeOK
  <2>2. CASE s \notin Terminal
    BY <2>2, <1>4, <1>5 DEF ReservedByActive, ActiveRun, TypeOK, Status
  <2> QED
    BY <2>1, <2>2
<1> QED
  BY <1>2, <1>6, <1>7, <1>8, <1>9, <1>10, <1>11, <1>12

(* A step that leaves the status, task, request and reservation of every   *)
(* run alone, changes steps and effects of active runs only, and stays     *)
(* within the types, preserves the invariant.                              *)
LEMMA RecordStep ==
  ASSUME IInv, NEW r \in Runs,
         ActiveRun(r), TypeOK',
         status[r] = "queued" => Effects(r)' = {},
         UNCHANGED <<status, task, request, stop, holder>>,
         \A x \in Runs \ {r} : effect'[x] = effect[x] /\ step'[x] = step[x]
  PROVE  IInv'
<1> USE DEF IInv
<1>1. \A x \in Runs \ {r} : Effects(x)' = Effects(x) /\ Unsettled(x)' = Unsettled(x)
                             /\ PlanDone(x)' = PlanDone(x)
  BY DEF Effects, Unsettled, PlanDone
<1>2. \A x \in Runs : Stopped(x)' = Stopped(x)
  BY DEF Stopped
<1>3. status[r] \notin Terminal \cup {"absent"}
  BY StatusFacts DEF ActiveRun, Status
<1>4. AbsentBlank'
  BY <1>1, <1>2, <1>3 DEF AbsentBlank
<1>5. QueuedUntouched'
  BY <1>1, <1>2 DEF QueuedUntouched
<1>6. TerminalSettled'
  BY <1>1, <1>3 DEF TerminalSettled, TerminalRun
<1>7. SucceededComplete'
  BY <1>1, <1>3 DEF SucceededComplete, Terminal
<1>8. OneActivePerTask' /\ RequestOnce' /\ ReservedByActive'
  BY DEF OneActivePerTask, RequestOnce, ReservedByActive, ActiveRun
<1> QED
  BY <1>4, <1>5, <1>6, <1>7, <1>8

LEMMA CheckpointStep ==
  ASSUME IInv, NEW r \in Runs, NEW s \in Steps, NEW ids \in SUBSET Ids, Checkpoint(r, s, ids)
  PROVE  IInv'
<1> USE DEF Checkpoint, RecordOK, Touch
<1>1. TypeOK'
  BY DEF IInv, TypeOK, StepStatus
<1>2. Effects(r)' = Effects(r)
  BY DEF Effects
<1>3. status[r] = "queued" => Effects(r)' = {}
  BY <1>2 DEF IInv, QueuedUntouched
<1>4. \A x \in Runs \ {r} : effect'[x] = effect[x] /\ step'[x] = step[x]
  BY DEF IInv, TypeOK
<1> QED
  BY <1>1, <1>3, <1>4, RecordStep

LEMMA FinishStepStep ==
  ASSUME IInv, NEW r \in Runs, NEW s \in Steps, NEW st \in FinishStatus, FinishStep(r, s, st)
  PROVE  IInv'
<1> USE DEF FinishStep, RecordOK, Touch
<1>1. TypeOK'
  BY DEF IInv, TypeOK, StepStatus, FinishStatus
<1>2. Effects(r)' = Effects(r)
  BY DEF Effects
<1>3. status[r] = "queued" => Effects(r)' = {}
  BY <1>2 DEF IInv, QueuedUntouched
<1>4. \A x \in Runs \ {r} : effect'[x] = effect[x] /\ step'[x] = step[x]
  BY DEF IInv, TypeOK
<1> QED
  BY <1>1, <1>3, <1>4, RecordStep

LEMMA IntentStep ==
  ASSUME IInv, NEW r \in Runs, NEW k \in IntentKeys, NEW ids \in SUBSET Ids, Intent(r, k, ids)
  PROVE  IInv'
<1> USE DEF Intent, IntentOK, RecordOK, Touch
<1>1. [state |-> "intent", remote |-> NoId, owned |-> FALSE]
        \in [state: EffectState, remote: Ids \cup {NoId}, owned: BOOLEAN]
  BY DEF NoEffect, EffectState
<1>2. TypeOK'
  BY <1>1 DEF IInv, TypeOK
<1>3. status[r] # "queued"
  OBVIOUS
<1>4. \A x \in Runs \ {r} : effect'[x] = effect[x] /\ step'[x] = step[x]
  BY DEF IInv, TypeOK
<1> QED
  BY <1>2, <1>3, <1>4, RecordStep

LEMMA ReceiptStep ==
  ASSUME IInv, NEW r \in Runs, NEW k \in IntentKeys, NEW st \in ReceiptState,
         NEW id \in Ids \cup {NoId}, NEW own \in BOOLEAN, Receipt(r, k, st, id, own)
  PROVE  IInv'
<1> USE DEF Receipt, ReceiptOK, RecordOK, Touch
<1>1. [state |-> st, remote |-> id, owned |-> own]
        \in [state: EffectState, remote: Ids \cup {NoId}, owned: BOOLEAN]
  BY DEF ReceiptState, EffectState
<1>2. TypeOK'
  BY <1>1 DEF IInv, TypeOK
<1>3. status[r] # "queued"
  BY DEF IInv, QueuedUntouched, Effects, Unsettled
<1>4. \A x \in Runs \ {r} : effect'[x] = effect[x] /\ step'[x] = step[x]
  BY DEF IInv, TypeOK
<1> QED
  BY <1>2, <1>3, <1>4, RecordStep

LEMMA CancelStep ==
  ASSUME IInv, NEW r \in Runs, NEW why \in Reasons, Cancel(r, why)
  PROVE  IInv'
<1> USE DEF IInv, Cancel, CancelOK, CancelStatus, Touch
<1>1. CancelStatus(status[r]) \in Status \ {"queued", "succeeded"}
  BY DEF ActiveRun, Active, Status, Terminal
<1>2. TypeOK'
  BY <1>1 DEF TypeOK, Release
<1>3. \A x \in Runs : Effects(x)' = Effects(x) /\ Unsettled(x)' = Unsettled(x)
                      /\ PlanDone(x)' = PlanDone(x)
  BY DEF Effects, Unsettled, PlanDone
<1>4. \A x \in Runs \ {r} : status'[x] = status[x] /\ stop'[x] = stop[x]
  BY DEF TypeOK
<1>5. status'[r] = CancelStatus(status[r]) /\ ActiveRun(r)
  BY DEF TypeOK
<1>6. AbsentBlank'
  BY <1>1, <1>3, <1>4, <1>5, StatusFacts DEF AbsentBlank, Stopped
<1>7. QueuedUntouched'
  BY <1>1, <1>3, <1>4, <1>5 DEF QueuedUntouched, Stopped
<1>8. TerminalSettled'
  <2>1. TerminalRun(r)' => status[r] = "queued"
    BY <1>5 DEF TerminalRun, Terminal, ActiveRun, Active
  <2>2. Unsettled(r) \subseteq Effects(r)
    BY DEF Unsettled, Effects
  <2> QED
    BY <2>1, <2>2, <1>3, <1>4 DEF TerminalSettled, TerminalRun, QueuedUntouched
<1>9. SucceededComplete'
  BY <1>1, <1>3, <1>4, <1>5 DEF SucceededComplete
<1>10. OneActivePerTask'
  BY <1>4, <1>5 DEF OneActivePerTask, ActiveRun
<1>11. RequestOnce'
  BY <1>4, <1>5, StatusFacts DEF RequestOnce, ActiveRun, Status
<1>12. ReservedByActive'
  <2>1. CASE status[r] = "queued"
    <3>1. \A k \in Keys : holder'[k] = IF holder[k] = r THEN Nobody ELSE holder[k]
      BY <2>1 DEF Release
    <3> QED
      BY <3>1, <1>4, NobodyAssumption DEF ReservedByActive, ActiveRun, TypeOK
  <2>2. CASE status[r] # "queued"
    BY <2>2, <1>4, <1>5 DEF ReservedByActive, ActiveRun, Active
  <2> QED
    BY <2>1, <2>2
<1> QED
  BY <1>2, <1>6, <1>7, <1>8, <1>9, <1>10, <1>11, <1>12

(* A step that changes only the connection and what callers have read.     *)
LEMMA QuietStep ==
  ASSUME IInv, UNCHANGED journal,
         store' \in {"closed", "open", "failed", "refused"},
         fresh' \in [Runs -> SUBSET Callers]
  PROVE  IInv'
BY DEF IInv, journal, TypeOK, AbsentBlank, ReservedByActive, OneActivePerTask, RequestOnce,
       TerminalSettled, SucceededComplete, QueuedUntouched, ActiveRun, TerminalRun,
       Effects, Unsettled, Stopped, PlanDone

LEMMA NextIInv == IInv /\ [Next]_jvars => IInv'
<1> SUFFICES ASSUME IInv, [Next]_jvars PROVE IInv'
  OBVIOUS
<1>0. TypeOK
  BY DEF IInv
<1>1. CASE Initialize
  BY <1>0, <1>1, QuietStep DEF Initialize, TypeOK
<1>2. CASE Crash
  BY <1>0, <1>2, QuietStep DEF Crash, TypeOK
<1>3. CASE WriteFault
  BY <1>0, <1>3, QuietStep DEF WriteFault, TypeOK
<1>4. CASE \E c \in Callers, r \in Runs : Get(c, r)
  BY <1>0, <1>4, QuietStep DEF Get, TypeOK
<1>5. CASE CreateAny
  BY <1>5, CreateStep DEF CreateAny
<1>6. CASE TransitionAny
  BY <1>0, <1>6, SetStatusStep DEF TransitionAny, Transition, TypeOK
<1>7. CASE \E r \in Runs, why \in Reasons : Cancel(r, why)
  BY <1>7, CancelStep
<1>8. CASE RecordAny
  BY <1>8, CheckpointStep, FinishStepStep, IntentStep, ReceiptStep DEF RecordAny
<1>9. CASE \E r \in Runs : Log(r)
  BY <1>0, <1>9, QuietStep DEF Log, Touch, TypeOK
<1>10. CASE \E r \in Runs : Recover(r)
  <2>1. PICK r \in Runs : Recover(r)
    BY <1>10
  <2>2. RecoverTo(r) \in Status
    BY DEF RecoverTo, Status, Active, Terminal
  <2>3. \E rec \in Recovery \cup {"keep"} : SetStatus(r, RecoverTo(r), rec)
    BY <2>1 DEF Recover, Recovery
  <2>4. store' \in {"closed", "open", "failed", "refused"}
    BY <1>0, <2>1 DEF Recover, TypeOK
  <2> QED
    BY <2>1, <2>2, <2>3, <2>4, SetStatusStep DEF Recover
<1>11. CASE UNCHANGED jvars
  BY <1>0, <1>11, QuietStep DEF jvars, TypeOK
<1> QED
  BY <1>1, <1>2, <1>3, <1>4, <1>5, <1>6, <1>7, <1>8, <1>9, <1>10, <1>11 DEF Next

(* The inductive invariant holds in every state of the journal.            *)
THEOREM Invariance == Spec => []IInv
<1>1. Init => IInv
  BY InitIInv
<1>2. IInv /\ [Next]_jvars => IInv'
  BY NextIInv
<1> QED
  BY <1>1, <1>2, PTL DEF Spec

-----------------------------------------------------------------------------
(* Every variable of the journal keeps its type.                           *)
THEOREM TypeCorrect == Spec => []TypeOK
<1>1. IInv => TypeOK
  BY DEF IInv
<1> QED
  BY <1>1, Invariance, PTL

(* A reserved resource always belongs to a run that is still active.       *)
THEOREM Reserved == Spec => []ReservedByActive
<1>1. IInv => ReservedByActive
  BY DEF IInv
<1> QED
  BY <1>1, Invariance, PTL

(* Two active runs are never of the same task.                             *)
THEOREM TaskExclusion == Spec => []OneActivePerTask
<1>1. IInv => OneActivePerTask
  BY DEF IInv
<1> QED
  BY <1>1, Invariance, PTL

(* One request never creates two runs.                                     *)
THEOREM Idempotence == Spec => []RequestOnce
<1>1. IInv => RequestOnce
  BY DEF IInv
<1> QED
  BY <1>1, Invariance, PTL

(* A closed run has no remote write of unknown outcome.                    *)
THEOREM Settlement == Spec => []TerminalSettled
<1>1. IInv => TerminalSettled
  BY DEF IInv
<1> QED
  BY <1>1, Invariance, PTL

(* A run that succeeded has finished its whole plan.                       *)
THEOREM Completeness == Spec => []SucceededComplete
<1>1. IInv => SucceededComplete
  BY DEF IInv
<1> QED
  BY <1>1, Invariance, PTL

(* Restart recovery is never refused: it always accepts every active run.  *)
THEOREM Recoverability == Spec => []RecoveryAccepted
<1>1. IInv => RecoveryAccepted
  <2> SUFFICES ASSUME IInv, NEW r \in Runs, ActiveRun(r)
               PROVE  TransitionOK(r, RecoverTo(r))
    BY DEF RecoveryAccepted
  <2>1. Unsettled(r) \subseteq Effects(r)
    BY DEF Unsettled, Effects
  <2>2. CASE status[r] = "queued"
    BY <2>1, <2>2 DEF IInv, QueuedUntouched, RecoverTo, TransitionOK, Transitions
  <2>3. CASE status[r] # "queued"
    BY <2>3 DEF ActiveRun, Active, Terminal, RecoverTo, TransitionOK, Transitions
  <2> QED
    BY <2>2, <2>3
<1> QED
  BY <1>1, Invariance, PTL

-----------------------------------------------------------------------------
(* What no step does.                                                      *)

(* A step is quiet, or it changes the rows of one run.                     *)
QuietNext ==
  \/ Initialize \/ Crash \/ WriteFault
  \/ \E c \in Callers, r \in Runs : Get(c, r)
  \/ \E r \in Runs : Log(r)
  \/ UNCHANGED jvars

Creates(r) ==
  \E t \in Tasks, q \in Requests, h \in Hashes, ks \in SUBSET Keys, plan \in SUBSET Steps :
    Create(r, t, q, h, ks, plan)

Moves(r) ==
  \E s \in Status \ {"queued"}, rec \in Recovery \cup {"keep"} : SetStatus(r, s, rec)

Cancels(r) == \E why \in Reasons : Cancel(r, why)

StepChanges(r) ==
  \/ \E s \in Steps, ids \in SUBSET Ids : Checkpoint(r, s, ids)
  \/ \E s \in Steps, st \in FinishStatus : FinishStep(r, s, st)

EffectBegins(r) == \E k \in IntentKeys, ids \in SUBSET Ids : Intent(r, k, ids)

EffectSettles(r) ==
  \E k \in IntentKeys, st \in ReceiptState, id \in Ids \cup {NoId}, own \in BOOLEAN :
    Receipt(r, k, st, id, own)

LEMMA StepCases ==
  ASSUME IInv, [Next]_jvars
  PROVE  \/ UNCHANGED journal
         \/ \E r \in Runs : \/ Creates(r) \/ Moves(r) \/ Cancels(r)
                            \/ StepChanges(r) \/ EffectBegins(r) \/ EffectSettles(r)
<1>1. CASE QuietNext
  BY <1>1 DEF QuietNext, Initialize, Crash, WriteFault, Get, Log, jvars
<1>2. CASE CreateAny
  BY <1>2 DEF CreateAny, Creates
<1>3. CASE TransitionAny
  <2>1. PICK r \in Runs, s \in Status, rec \in Recovery \cup {"keep"} : SetStatus(r, s, rec)
    BY <1>3 DEF TransitionAny, Transition
  <2>2. s # "queued"
    BY <2>1, StatusFacts DEF SetStatus, TransitionOK, IInv, TypeOK, Status
  <2> QED
    BY <2>1, <2>2 DEF Moves
<1>4. CASE \E r \in Runs, why \in Reasons : Cancel(r, why)
  BY <1>4 DEF Cancels
<1>5. CASE RecordAny
  BY <1>5 DEF RecordAny, StepChanges, EffectBegins, EffectSettles
<1>6. CASE \E r \in Runs : Recover(r)
  <2>1. PICK r \in Runs : \E rec \in Recovery \cup {"keep"} : SetStatus(r, RecoverTo(r), rec)
    BY <1>6 DEF Recover, Recovery
  <2>2. RecoverTo(r) \in Status \ {"queued"}
    BY DEF RecoverTo, Status, Active, Terminal
  <2> QED
    BY <2>1, <2>2 DEF Moves
<1> QED
  BY <1>1, <1>2, <1>3, <1>4, <1>5, <1>6 DEF Next, QuietNext

(* A step that changes the rows of x leaves the rows of every other run.   *)
LEMMA OthersKept ==
  ASSUME IInv, NEW x \in Runs,
         Creates(x) \/ Moves(x) \/ Cancels(x) \/ StepChanges(x) \/ EffectBegins(x)
           \/ EffectSettles(x)
  PROVE  \A r \in Runs \ {x} : /\ status'[r] = status[r]
                               /\ task'[r] = task[r]
                               /\ step'[r] = step[r]
                               /\ effect'[r] = effect[r]
                               /\ stop'[r] = stop[r]
<1> USE DEF IInv, TypeOK
<1>1. CASE Creates(x)
  BY <1>1 DEF Creates, Create
<1>2. CASE Moves(x)
  BY <1>2 DEF Moves, SetStatus
<1>3. CASE Cancels(x)
  BY <1>3 DEF Cancels, Cancel
<1>4. CASE StepChanges(x)
  BY <1>4 DEF StepChanges, Checkpoint, FinishStep
<1>5. CASE EffectBegins(x)
  BY <1>5 DEF EffectBegins, Intent
<1>6. CASE EffectSettles(x)
  BY <1>6 DEF EffectSettles, Receipt
<1> QED
  BY <1>1, <1>2, <1>3, <1>4, <1>5, <1>6

(* Only an active run changes, but for the creation of an absent one.      *)
LEMMA ChangesActive ==
  ASSUME IInv, NEW x \in Runs,
         Moves(x) \/ Cancels(x) \/ StepChanges(x) \/ EffectBegins(x) \/ EffectSettles(x)
  PROVE  ActiveRun(x)
<1>1. CASE Moves(x)
  BY <1>1, StatusFacts
     DEF Moves, SetStatus, TransitionOK, ActiveRun, IInv, TypeOK
<1>2. CASE ~Moves(x)
  BY <1>2 DEF Cancels, Cancel, CancelOK, StepChanges, Checkpoint, FinishStep, EffectBegins,
              Intent, IntentOK, EffectSettles, Receipt, ReceiptOK, RecordOK
<1> QED
  BY <1>1, <1>2

-----------------------------------------------------------------------------
TerminalKept ==
  \A r \in Runs : TerminalRun(r) =>
       /\ status'[r] = status[r]
       /\ step'[r] = step[r]
       /\ effect'[r] = effect[r]
       /\ stop'[r] = stop[r]

LEMMA TerminalKeptStep == IInv /\ [Next]_jvars => [TerminalKept]_jvars
<1> SUFFICES ASSUME IInv, [Next]_jvars PROVE TerminalKept
  OBVIOUS
<1>1. CASE UNCHANGED journal
  BY <1>1 DEF journal, TerminalKept
<1>2. ASSUME NEW x \in Runs,
             Creates(x) \/ Moves(x) \/ Cancels(x) \/ StepChanges(x) \/ EffectBegins(x)
               \/ EffectSettles(x)
      PROVE  TerminalKept
  <2>1. ~TerminalRun(x)
    BY <1>2, ChangesActive, StatusFacts
       DEF Creates, Create, TerminalRun, ActiveRun, Status
  <2> QED
    BY <2>1, <1>2, OthersKept DEF TerminalKept
<1> QED
  BY <1>1, <1>2, StepCases

(* A finished run is final: its status, steps, effects and stop reason are *)
(* never changed again by a late call, a retry or a recovery.              *)
THEOREM FinishedIsFinal == Spec => TerminalFinal
<1>1. IInv /\ [Next]_jvars => [TerminalKept]_jvars
  BY TerminalKeptStep
<1> QED
  BY <1>1, Invariance, PTL DEF Spec, TerminalFinal, TerminalKept

-----------------------------------------------------------------------------
EffectKept ==
  \A r \in Runs, k \in IntentKeys :
       /\ effect[r][k].state # "none" => effect'[r][k].state # "none"
       /\ effect[r][k].state \in {"confirmed", "rejected"} => effect'[r][k] = effect[r][k]

(* The only steps that touch an effect record one that was not there, or   *)
(* settle one that is open.                                                *)
LEMMA EffectChange ==
  ASSUME IInv, [Next]_jvars
  PROVE  \/ effect' = effect
         \/ \E r \in Runs, k \in IntentKeys, ids \in SUBSET Ids :
              Intent(r, k, ids)
         \/ \E r \in Runs, k \in IntentKeys, st \in ReceiptState, id \in Ids \cup {NoId},
               own \in BOOLEAN : Receipt(r, k, st, id, own)
<1>1. CASE UNCHANGED journal
  BY <1>1 DEF journal
<1>2. CASE \E r \in Runs : Creates(r) \/ Moves(r) \/ Cancels(r) \/ StepChanges(r)
  BY <1>2 DEF Creates, Create, Moves, SetStatus, Cancels, Cancel, StepChanges, Checkpoint,
              FinishStep
<1>3. CASE \E r \in Runs : EffectBegins(r) \/ EffectSettles(r)
  BY <1>3 DEF EffectBegins, EffectSettles
<1> QED
  BY <1>1, <1>2, <1>3, StepCases

LEMMA EffectKeptStep == IInv /\ [Next]_jvars => [EffectKept]_jvars
<1> SUFFICES ASSUME IInv, [Next]_jvars PROVE EffectKept
  OBVIOUS
<1> USE DEF EffectKept
<1>1. CASE effect' = effect
  BY <1>1
<1>2. CASE \E r \in Runs, k \in IntentKeys, ids \in SUBSET Ids : Intent(r, k, ids)
  <2>1. PICK r \in Runs, k \in IntentKeys :
          /\ effect[r][k].state = "none"
          /\ effect' = [effect EXCEPT ![r][k] =
                         [state |-> "intent", remote |-> NoId, owned |-> FALSE]]
    BY <1>2 DEF Intent, IntentOK
  <2> QED
    BY <2>1 DEF IInv, TypeOK
<1>3. CASE \E r \in Runs, k \in IntentKeys, st \in ReceiptState, id \in Ids \cup {NoId},
             own \in BOOLEAN : Receipt(r, k, st, id, own)
  <2>1. PICK r \in Runs, k \in IntentKeys, st \in ReceiptState, id \in Ids \cup {NoId},
             own \in BOOLEAN : Receipt(r, k, st, id, own)
    BY <1>3
  <2>2. effect[r][k].state \in {"intent", "unknown"} /\ st # "none"
    BY <2>1 DEF Receipt, ReceiptOK, Unsettled, ReceiptState
  <2>3. effect' = [effect EXCEPT ![r][k] = [state |-> st, remote |-> id, owned |-> own]]
    BY <2>1 DEF Receipt
  <2> QED
    BY <2>2, <2>3 DEF IInv, TypeOK
<1> QED
  BY <1>1, <1>2, <1>3, EffectChange

(* A remote write is journalled once: its record is never taken back, and  *)
(* a receipt, however late or repeated, never changes a settled outcome.   *)
THEOREM EffectsMoveForward == Spec => EffectForward
<1>1. IInv /\ [Next]_jvars => [EffectKept]_jvars
  BY EffectKeptStep
<1> QED
  BY <1>1, Invariance, PTL DEF Spec, EffectForward, EffectKept

-----------------------------------------------------------------------------
StopObeyed ==
  \A r \in Runs, k \in IntentKeys :
       (Stopped(r) /\ effect[r][k].state = "none" /\ effect'[r][k].state # "none") =>
         k.kind = "build_cancel" /\ OwnedCreates(r, k.step) # {}

LEMMA StopObeyedStep == IInv /\ [Next]_jvars => [StopObeyed]_jvars
<1> SUFFICES ASSUME IInv, [Next]_jvars,
                    NEW r \in Runs, NEW k \in IntentKeys,
                    Stopped(r), effect[r][k].state = "none", effect'[r][k].state # "none"
             PROVE  k.kind = "build_cancel" /\ OwnedCreates(r, k.step) # {}
  BY DEF StopObeyed
<1>1. ~(effect' = effect)
  OBVIOUS
<1>2. CASE \E x \in Runs, y \in IntentKeys, ids \in SUBSET Ids : Intent(x, y, ids)
  <2>1. PICK x \in Runs, y \in IntentKeys, ids \in SUBSET Ids : Intent(x, y, ids)
    BY <1>2
  <2>2. x = r /\ y = k
    BY <2>1 DEF Intent, IInv, TypeOK
  <2> QED
    BY <2>1, <2>2 DEF Intent, IntentOK, CancellableIds
<1>3. CASE \E x \in Runs, y \in IntentKeys, st \in ReceiptState, id \in Ids \cup {NoId},
             own \in BOOLEAN : Receipt(x, y, st, id, own)
  <2>1. PICK x \in Runs, y \in IntentKeys, st \in ReceiptState, id \in Ids \cup {NoId},
             own \in BOOLEAN : Receipt(x, y, st, id, own)
    BY <1>3
  <2>2. x = r /\ y = k
    BY <2>1 DEF Receipt, IInv, TypeOK
  <2> QED
    BY <2>1, <2>2 DEF Receipt, ReceiptOK, Unsettled
<1> QED
  BY <1>1, <1>2, <1>3, EffectChange

(* After a stop request no remote write begins but the cancellation of a   *)
(* build that the run itself created.                                      *)
THEOREM StopIsObeyed == Spec => NoEffectAfterStop
<1>1. IInv /\ [Next]_jvars => [StopObeyed]_jvars
  BY StopObeyedStep
<1> QED
  BY <1>1, Invariance, PTL DEF Spec, NoEffectAfterStop, StopObeyed

-----------------------------------------------------------------------------
KeysKept ==
  \A k \in Keys : (holder[k] # Nobody /\ holder'[k] # holder[k]) =>
       holder'[k] = Nobody /\ status'[holder[k]] \in Terminal

LEMMA KeysKeptStep == IInv /\ [Next]_jvars => [KeysKept]_jvars
<1> SUFFICES ASSUME IInv, [Next]_jvars,
                    NEW k \in Keys, holder[k] # Nobody, holder'[k] # holder[k]
             PROVE  holder'[k] = Nobody /\ status'[holder[k]] \in Terminal
  BY DEF KeysKept
<1> USE DEF IInv, TypeOK
<1>1. CASE UNCHANGED journal
  BY <1>1 DEF journal
<1>2. ASSUME NEW r \in Runs, Creates(r)
      PROVE  FALSE
  BY <1>2 DEF Creates, Create, CreateOK
<1>3. ASSUME NEW r \in Runs, Moves(r)
      PROVE  holder'[k] = Nobody /\ status'[holder[k]] \in Terminal
  <2>1. PICK s \in Status \ {"queued"}, rec \in Recovery \cup {"keep"} : SetStatus(r, s, rec)
    BY <1>3 DEF Moves
  <2>2. s \in Terminal /\ holder' = Release(r)
    BY <2>1 DEF SetStatus
  <2>3. holder[k] = r /\ holder'[k] = Nobody
    BY <2>2 DEF Release
  <2> QED
    BY <2>1, <2>2, <2>3 DEF SetStatus
<1>4. ASSUME NEW r \in Runs, Cancels(r)
      PROVE  holder'[k] = Nobody /\ status'[holder[k]] \in Terminal
  <2>1. status[r] = "queued" /\ holder' = Release(r)
    BY <1>4 DEF Cancels, Cancel
  <2>2. holder[k] = r /\ holder'[k] = Nobody
    BY <2>1 DEF Release
  <2>3. status'[r] = "cancelled"
    BY <1>4, <2>1 DEF Cancels, Cancel, CancelStatus
  <2> QED
    BY <2>2, <2>3 DEF Terminal
<1>5. ASSUME NEW r \in Runs, StepChanges(r) \/ EffectBegins(r) \/ EffectSettles(r)
      PROVE  FALSE
  BY <1>5 DEF StepChanges, Checkpoint, FinishStep, EffectBegins, Intent, EffectSettles, Receipt
<1> QED
  BY <1>1, <1>2, <1>3, <1>4, <1>5, StepCases

(* A reserved resource is given back only by the transaction that closes   *)
(* the run that held it.                                                   *)
THEOREM ReleasedOnlyByClosing == Spec => ReleasedByClosing
<1>1. IInv /\ [Next]_jvars => [KeysKept]_jvars
  BY KeysKeptStep
<1> QED
  BY <1>1, Invariance, PTL DEF Spec, ReleasedByClosing, KeysKept

-----------------------------------------------------------------------------
(* The journal implements the lease.                                       *)

LeaseNextOf(r) ==
  \/ \E L \in SUBSET ({<<"task", t>> : t \in Tasks} \cup {<<"key", k>> : k \in Keys}) :
       Lease!Open(r, L)
  \/ \E k \in IntentKeys : Lease!Begin(r, k) \/ Lease!Settle(r, k)
  \/ Lease!Close(r)

(* What the lease sees of a run depends on its own rows and reservations.  *)
LEMMA LeaseView ==
  ASSUME IInv, [Next]_jvars, NEW r \in Runs,
         status'[r] = status[r], task'[r] = task[r],
         \A k \in Keys : holder'[k] = r <=> holder[k] = r
  PROVE  LeasePhase(r)' = LeasePhase(r) /\ LeaseHeld(r)' = LeaseHeld(r)
<1>1. {x \in Keys : holder[x] = r}' = {x \in Keys : holder[x] = r}
  OBVIOUS
<1> QED
  BY <1>1 DEF LeasePhase, LeaseHeld, ActiveRun

LEMMA EffectView ==
  ASSUME NEW r \in Runs, effect'[r] = effect[r]
  PROVE  Unsettled(r)' = Unsettled(r) /\ Settled(r)' = Settled(r)
BY DEF Unsettled, Settled, Effects

LEMMA LeaseInitHolds == Init => Lease!LeaseInit
<1> SUFFICES ASSUME Init PROVE Lease!LeaseInit
  OBVIOUS
<1>1. \A r \in Runs : /\ LeasePhase(r) = "idle" /\ LeaseHeld(r) = {}
                       /\ Unsettled(r) = {} /\ Settled(r) = {}
  BY DEF Init, LeasePhase, LeaseHeld, ActiveRun, Active, Unsettled, Settled, Effects, NoEffect
<1> QED
  BY <1>1 DEF Lease!LeaseInit

LEMMA QuietLease == IInv /\ UNCHANGED journal => UNCHANGED Lease!lvars
BY DEF journal, Lease!lvars, LeasePhase, LeaseHeld, ActiveRun, Unsettled, Settled, Effects

LEMMA CreateOpens ==
  ASSUME IInv, [Next]_jvars, NEW r \in Runs, Creates(r)
  PROVE  LeaseNextOf(r)
<1>1. PICK t \in Tasks, q \in Requests, h \in Hashes, ks \in SUBSET Keys,
           plan \in SUBSET Steps : Create(r, t, q, h, ks, plan)
  BY DEF Creates
<1> USE DEF IInv, TypeOK
<1> DEFINE L == {<<"task", t>>} \cup {<<"key", k>> : k \in ks}
<1>2. /\ status[r] = "absent"
      /\ status' = [status EXCEPT ![r] = "queued"]
      /\ task' = [task EXCEPT ![r] = t]
      /\ holder' = [k \in Keys |-> IF k \in ks THEN r ELSE holder[k]]
      /\ effect' = effect
  BY <1>1 DEF Create
<1>3. \A k \in Keys : holder[k] # r
  BY <1>2, NobodyAssumption DEF ReservedByActive, ActiveRun, Active
<1>4. /\ \A x \in Runs : ActiveRun(x) => task[x] # t
      /\ \A k \in ks : holder[k] = Nobody
  BY <1>1 DEF Create, CreateOK
<1>5. \A x \in Runs : LeaseHeld(x) \cap L = {}
  BY <1>4, NobodyAssumption DEF LeaseHeld
<1>6. \A x \in Runs \ {r} : LeasePhase(x)' = LeasePhase(x) /\ LeaseHeld(x)' = LeaseHeld(x)
  <2> TAKE x \in Runs \ {r}
  <2>1. status'[x] = status[x] /\ task'[x] = task[x]
    BY <1>2
  <2>2. \A k \in Keys : holder'[k] = x <=> holder[k] = x
    BY <1>2, <1>4, NobodyAssumption
  <2> QED
    BY <2>1, <2>2, LeaseView
<1>7. LeasePhase(r) = "idle" /\ LeasePhase(r)' = "open"
  BY <1>2 DEF LeasePhase, ActiveRun, Active
<1>8. LeaseHeld(r)' = L
  <2>1. {k \in Keys : holder'[k] = r} = ks
    BY <1>2, <1>3
  <2>2. task'[r] = t /\ ActiveRun(r)'
    BY <1>2 DEF ActiveRun, Active
  <2> QED
    BY <2>1, <2>2 DEF LeaseHeld
<1>9. \A x \in Runs : Unsettled(x)' = Unsettled(x) /\ Settled(x)' = Settled(x)
  BY <1>2, EffectView
<1>10. Lease!Open(r, L)
  BY <1>5, <1>6, <1>7, <1>8, <1>9 DEF Lease!Open
<1> QED
  BY <1>10 DEF LeaseNextOf

(* A run that keeps its effects and leaves the active states gives back    *)
(* what it held, and closes its lease.                                     *)
LEMMA ReleaseCloses ==
  ASSUME IInv, [Next]_jvars, NEW r \in Runs,
         ActiveRun(r), status'[r] \in Terminal, Unsettled(r) = {},
         \A x \in Runs \ {r} : status'[x] = status[x],
         UNCHANGED <<task, effect>>, holder' = Release(r)
  PROVE  LeaseNextOf(r)
<1> USE DEF IInv, TypeOK
<1>1. \A k \in Keys : holder'[k] = IF holder[k] = r THEN Nobody ELSE holder[k]
  BY DEF Release
<1>2. \A x \in Runs \ {r} : LeasePhase(x)' = LeasePhase(x) /\ LeaseHeld(x)' = LeaseHeld(x)
  <2> TAKE x \in Runs \ {r}
  <2>1. \A k \in Keys : holder'[k] = x <=> holder[k] = x
    BY <1>1, NobodyAssumption
  <2> QED
    BY <2>1, LeaseView
<1>3. LeasePhase(r) = "open" /\ LeasePhase(r)' = "closed" /\ LeaseHeld(r)' = {}
  BY StatusFacts DEF LeasePhase, LeaseHeld, ActiveRun, Status, Terminal, Active
<1>4. \A x \in Runs : Unsettled(x)' = Unsettled(x) /\ Settled(x)' = Settled(x)
  BY EffectView
<1>5. Lease!Close(r)
  BY <1>2, <1>3, <1>4 DEF Lease!Close
<1> QED
  BY <1>5 DEF LeaseNextOf

(* A step that leaves the holders alone and keeps an active run active     *)
(* does not show in the lease.                                             *)
LEMMA KeepsLease ==
  ASSUME IInv, [Next]_jvars, NEW r \in Runs,
         ActiveRun(r), ActiveRun(r)',
         \A x \in Runs \ {r} : status'[x] = status[x],
         UNCHANGED <<task, holder>>
  PROVE  \A x \in Runs : LeasePhase(x)' = LeasePhase(x) /\ LeaseHeld(x)' = LeaseHeld(x)
<1>1. \A x \in Runs \ {r} : LeasePhase(x)' = LeasePhase(x) /\ LeaseHeld(x)' = LeaseHeld(x)
  BY LeaseView
<1>2. LeasePhase(r)' = LeasePhase(r)
  BY DEF LeasePhase, ActiveRun, Active
<1>3. LeaseHeld(r)' = LeaseHeld(r)
  BY DEF LeaseHeld
<1> QED
  BY <1>1, <1>2, <1>3

LEMMA MoveLeases ==
  ASSUME IInv, [Next]_jvars, NEW r \in Runs, Moves(r)
  PROVE  LeaseNextOf(r) \/ UNCHANGED Lease!lvars
<1>1. PICK s \in Status \ {"queued"}, rec \in Recovery \cup {"keep"} : SetStatus(r, s, rec)
  BY DEF Moves
<1>2. /\ status' = [status EXCEPT ![r] = s]
      /\ UNCHANGED <<task, effect>>
      /\ holder' = IF s \in Terminal THEN Release(r) ELSE holder
      /\ s \in Terminal => Unsettled(r) = {}
  BY <1>1 DEF SetStatus, TransitionOK
<1>3. ActiveRun(r)
  BY ChangesActive
<1>4. status'[r] = s /\ \A x \in Runs \ {r} : status'[x] = status[x]
  BY <1>2 DEF IInv, TypeOK
<1>5. CASE s \in Terminal
  BY <1>2, <1>3, <1>4, <1>5, ReleaseCloses
<1>6. CASE s \notin Terminal
  <2>1. ActiveRun(r)'
    BY <1>4, <1>6 DEF ActiveRun, Status
  <2>2. \A x \in Runs : LeasePhase(x)' = LeasePhase(x) /\ LeaseHeld(x)' = LeaseHeld(x)
    BY <1>2, <1>3, <1>4, <1>6, <2>1, KeepsLease
  <2>3. \A x \in Runs : Unsettled(x)' = Unsettled(x) /\ Settled(x)' = Settled(x)
    BY <1>2, EffectView
  <2> QED
    BY <2>2, <2>3 DEF Lease!lvars
<1> QED
  BY <1>5, <1>6

LEMMA CancelLeases ==
  ASSUME IInv, [Next]_jvars, NEW r \in Runs, Cancels(r)
  PROVE  LeaseNextOf(r) \/ UNCHANGED Lease!lvars
<1>1. /\ ActiveRun(r)
      /\ status' = [status EXCEPT ![r] = CancelStatus(@)]
      /\ UNCHANGED <<task, effect>>
      /\ holder' = IF status[r] = "queued" THEN Release(r) ELSE holder
  BY DEF Cancels, Cancel, CancelOK
<1>2. status'[r] = CancelStatus(status[r]) /\ \A x \in Runs \ {r} : status'[x] = status[x]
  BY <1>1 DEF IInv, TypeOK
<1>3. CASE status[r] = "queued"
  <2>1. Unsettled(r) = {}
    BY <1>3 DEF IInv, QueuedUntouched, Unsettled, Effects
  <2>2. status'[r] \in Terminal
    BY <1>2, <1>3 DEF CancelStatus, Terminal
  <2> QED
    BY <1>1, <1>2, <1>3, <2>1, <2>2, ReleaseCloses
<1>4. CASE status[r] # "queued"
  <2>1. ActiveRun(r)'
    BY <1>1, <1>2, <1>4 DEF CancelStatus, ActiveRun, Active
  <2>2. \A x \in Runs : LeasePhase(x)' = LeasePhase(x) /\ LeaseHeld(x)' = LeaseHeld(x)
    BY <1>1, <1>2, <1>4, <2>1, KeepsLease
  <2>3. \A x \in Runs : Unsettled(x)' = Unsettled(x) /\ Settled(x)' = Settled(x)
    BY <1>1, EffectView
  <2> QED
    BY <2>2, <2>3 DEF Lease!lvars
<1> QED
  BY <1>3, <1>4

-----------------------------------------------------------------------------
(* A record of an active run changes neither its phase nor what it holds.  *)
LEMMA RecordView ==
  ASSUME IInv, [Next]_jvars, NEW r \in Runs,
         StepChanges(r) \/ EffectBegins(r) \/ EffectSettles(r)
  PROVE  \A x \in Runs : LeasePhase(x)' = LeasePhase(x) /\ LeaseHeld(x)' = LeaseHeld(x)
<1>1. UNCHANGED <<status, task, holder>>
  BY DEF StepChanges, Checkpoint, FinishStep, EffectBegins, Intent, EffectSettles, Receipt
<1> QED
  BY <1>1, LeaseView

LEMMA BeginLeases ==
  ASSUME IInv, [Next]_jvars, NEW r \in Runs, EffectBegins(r)
  PROVE  LeaseNextOf(r)
<1>1. PICK k \in IntentKeys, ids \in SUBSET Ids : Intent(r, k, ids)
  BY DEF EffectBegins
<1>2. /\ ActiveRun(r) /\ effect[r][k].state = "none"
      /\ effect' = [effect EXCEPT ![r][k] =
                      [state |-> "intent", remote |-> NoId, owned |-> FALSE]]
  BY <1>1 DEF Intent, IntentOK, RecordOK
<1>3. \A x \in Runs \ {r} : Unsettled(x)' = Unsettled(x) /\ Settled(x)' = Settled(x)
  BY <1>2, EffectView DEF IInv, TypeOK
<1>4. effect'[r] = [effect[r] EXCEPT ![k] =
                      [state |-> "intent", remote |-> NoId, owned |-> FALSE]]
  BY <1>2 DEF IInv, TypeOK
<1>5. k \notin Unsettled(r) \cup Settled(r)
  BY <1>2 DEF Unsettled, Settled, Effects
<1>6. Unsettled(r)' = Unsettled(r) \cup {k} /\ Settled(r)' = Settled(r)
  BY <1>2, <1>4 DEF Unsettled, Settled, Effects, IInv, TypeOK
<1>7. LeasePhase(r) = "open"
  BY <1>2 DEF LeasePhase, ActiveRun, Active
<1>8. Lease!Begin(r, k)
  BY <1>3, <1>5, <1>6, <1>7, RecordView DEF Lease!Begin
<1> QED
  BY <1>8 DEF LeaseNextOf

LEMMA SettleLeases ==
  ASSUME IInv, [Next]_jvars, NEW r \in Runs, EffectSettles(r)
  PROVE  LeaseNextOf(r) \/ UNCHANGED Lease!lvars
<1>1. PICK k \in IntentKeys, st \in ReceiptState, id \in Ids \cup {NoId}, own \in BOOLEAN :
        Receipt(r, k, st, id, own)
  BY DEF EffectSettles
<1>2. /\ ActiveRun(r) /\ k \in Unsettled(r)
      /\ effect' = [effect EXCEPT ![r][k] = [state |-> st, remote |-> id, owned |-> own]]
  BY <1>1 DEF Receipt, ReceiptOK, RecordOK
<1>3. \A x \in Runs \ {r} : Unsettled(x)' = Unsettled(x) /\ Settled(x)' = Settled(x)
  BY <1>2, EffectView DEF IInv, TypeOK
<1>4. effect'[r] = [effect[r] EXCEPT ![k] = [state |-> st, remote |-> id, owned |-> own]]
  BY <1>2 DEF IInv, TypeOK
<1>5. CASE st = "unknown"
  <2>1. Unsettled(r)' = Unsettled(r) /\ Settled(r)' = Settled(r)
    BY <1>2, <1>4, <1>5 DEF Unsettled, Settled, Effects, IInv, TypeOK
  <2> QED
    BY <1>3, <2>1, RecordView DEF Lease!lvars
<1>6. CASE st # "unknown"
  <2>1. st \in {"confirmed", "rejected"}
    BY <1>6 DEF ReceiptState
  <2>2. Unsettled(r)' = Unsettled(r) \ {k} /\ Settled(r)' = Settled(r) \cup {k}
    BY <1>2, <1>4, <2>1 DEF Unsettled, Settled, Effects, IInv, TypeOK
  <2>3. LeasePhase(r) = "open"
    BY <1>2 DEF LeasePhase, ActiveRun, Active
  <2>4. Lease!Settle(r, k)
    BY <1>2, <1>3, <2>2, <2>3, RecordView DEF Lease!Settle
  <2> QED
    BY <2>4 DEF LeaseNextOf
<1> QED
  BY <1>5, <1>6

LEMMA StepChangeLeases ==
  ASSUME IInv, [Next]_jvars, NEW r \in Runs, StepChanges(r)
  PROVE  UNCHANGED Lease!lvars
<1>1. effect' = effect
  BY DEF StepChanges, Checkpoint, FinishStep
<1>2. \A x \in Runs : Unsettled(x)' = Unsettled(x) /\ Settled(x)' = Settled(x)
  BY <1>1, EffectView
<1> QED
  BY <1>2, RecordView DEF Lease!lvars

LEMMA NextLeases == IInv /\ [Next]_jvars => [Lease!LeaseNext]_(Lease!lvars)
<1> SUFFICES ASSUME IInv, [Next]_jvars
             PROVE  Lease!LeaseNext \/ UNCHANGED Lease!lvars
  OBVIOUS
<1>1. CASE UNCHANGED journal
  BY <1>1, QuietLease
<1>2. ASSUME NEW r \in Runs,
             Creates(r) \/ Moves(r) \/ Cancels(r) \/ StepChanges(r) \/ EffectBegins(r)
               \/ EffectSettles(r)
      PROVE  LeaseNextOf(r) \/ UNCHANGED Lease!lvars
  BY <1>2, CreateOpens, MoveLeases, CancelLeases, StepChangeLeases, BeginLeases, SettleLeases
<1>3. ASSUME NEW r \in Runs, LeaseNextOf(r)
      PROVE  Lease!LeaseNext
  BY <1>3 DEF LeaseNextOf, Lease!LeaseNext
<1> QED
  BY <1>1, <1>2, <1>3, StepCases

(* The journal implements the lease: however calls, faults and crashes     *)
(* interleave, a run's task and resources are taken together, never        *)
(* shared, and given back once, when nothing of it is left open.           *)
THEOREM JournalImplementsLease == Spec => ImplementsLease
<1>1. Init => Lease!LeaseInit
  BY LeaseInitHolds
<1>2. IInv /\ [Next]_jvars => [Lease!LeaseNext]_(Lease!lvars)
  BY NextLeases
<1> QED
  BY <1>1, <1>2, Invariance, PTL DEF Spec, ImplementsLease, Lease!LeaseSpec

-----------------------------------------------------------------------------
(* The service                                                             *)

(* One operation of the journal, or none.                                  *)
JournalStep == Next \/ UNCHANGED jvars

LEMMA ReadsIsStep == Reads => JournalStep
BY DEF Reads, JournalStep

LEMMA GetIsStep ==
  ASSUME NEW c \in Callers, NEW r \in Runs, Get(c, r)
  PROVE  JournalStep
BY DEF JournalStep, Next

LEMMA LogIsStep ==
  ASSUME NEW r \in Runs, Log(r)
  PROVE  JournalStep
BY DEF JournalStep, Next

LEMMA StopIsStep ==
  ASSUME NEW r \in Runs, NEW why \in Reasons, StopRun(r, why)
  PROVE  JournalStep
<1>1. CASE NoNeedToStop(r)
  BY <1>1 DEF StopRun, JournalStep
<1>2. CASE ~NoNeedToStop(r)
  BY <1>2 DEF StopRun, JournalStep, Next
<1> QED
  BY <1>1, <1>2

LEMMA TransitionIsStep ==
  ASSUME NEW c \in Callers, NEW r \in Runs, NEW s \in Status,
         NEW rec \in Recovery \cup {"keep"}, Transition(c, r, s, rec)
  PROVE  JournalStep
BY DEF JournalStep, Next, TransitionAny

LEMMA RecoverIsStep ==
  ASSUME NEW r \in Runs, Recover(r)
  PROVE  JournalStep
BY DEF JournalStep, Next

LEMMA RecordIsStep == RecordAny => JournalStep
BY DEF JournalStep, Next

-----------------------------------------------------------------------------
LEMMA ClientIsStep ==
  ASSUME NEW a \in Clients, Lookup(a) \/ Enter(a) \/ Accept(a) \/ Spawn(a)
  PROVE  JournalStep
<1>1. CASE Lookup(a)
  BY <1>1, ReadsIsStep DEF Lookup
<1>2. CASE Enter(a)
  BY <1>2, ReadsIsStep DEF Enter
<1>3. CASE AcceptRefused(a)
  BY <1>3, ReadsIsStep DEF AcceptRefused
<1>4. CASE AcceptServed(a)
  BY <1>4, ReadsIsStep DEF AcceptServed
<1>5. CASE AcceptCreates(a)
  <2>1. Asks[a].task \in Tasks /\ Asks[a].request \in Requests /\ Asks[a].hash \in Hashes
        /\ Asks[a].keys \in SUBSET Keys /\ Asks[a].plan \in SUBSET Steps
    BY AsksAssumption
  <2> QED
    BY <1>5, <2>1 DEF AcceptCreates, JournalStep, Next, CreateAny
<1>6. CASE Spawn(a)
  BY <1>6, ReadsIsStep DEF Spawn
<1> QED
  BY <1>1, <1>2, <1>3, <1>4, <1>5, <1>6 DEF Accept

LEMMA CloseIsStep == CloseStep \/ CloseBegins => JournalStep
<1>1. CloseBegins \/ CloseGathers \/ CloseDrains => JournalStep
  BY ReadsIsStep DEF CloseBegins, CloseGathers, CloseDrains
<1>2. CloseDone => JournalStep
  BY DEF CloseDone, Vanishes, JournalStep, Next
<1>3. ASSUME NEW r \in Runs, CloseStops(r) PROVE JournalStep
  <2>1. StopRun(r, "shutdown") => JournalStep
    BY StopIsStep DEF Reasons
  <2> QED
    BY <1>3, <2>1 DEF CloseStops, Call, JournalStep
<1>4. ASSUME NEW r \in Runs, CloseCancels(r) \/ CloseCancelsObserver(r) PROVE JournalStep
  BY <1>4, ReadsIsStep DEF CloseCancels, CloseCancelsObserver
<1> QED
  BY <1>1, <1>2, <1>3, <1>4 DEF CloseStep

LEMMA BootIsStep == BootStep \/ Kill \/ StoreFails => JournalStep
<1>1. Boot => JournalStep
  BY DEF Boot, JournalStep, Next
<1>2. BootDone => JournalStep
  BY ReadsIsStep DEF BootDone
<1>3. BootFails \/ Kill => JournalStep
  BY DEF BootFails, Kill, Vanishes, JournalStep, Next
<1>4. ASSUME NEW r \in Runs, BootRecovers(r) PROVE JournalStep
  BY <1>4, RecoverIsStep DEF BootRecovers
<1>5. StoreFails => JournalStep
  BY DEF StoreFails, JournalStep, Next
<1> QED
  BY <1>1, <1>2, <1>3, <1>4, <1>5 DEF BootStep

LEMMA LoopIsStep ==
  ASSUME NEW r \in Runs,
         LoopStep(r) \/ ApiCancel(r) \/ Ring(r) \/ ApiReconcile(r) \/ Ages(r)
  PROVE  JournalStep
<1>1. CASE LoopRecovers(r)
  BY <1>1, RecoverIsStep, ReadsIsStep DEF LoopRecovers, Call, JournalStep
<1>2. CASE LoopLists(r)
  BY <1>2, GetIsStep, CallersAssumption DEF LoopLists
<1>3. CASE LoopEscalates(r)
  <2>1. Transition("loop", r, "unknown", "manual_required") => JournalStep
    BY TransitionIsStep, CallersAssumption DEF Status, Active, Recovery
  <2> QED
    BY <1>3, <2>1 DEF LoopEscalates, Call, JournalStep
<1>4. CASE LoopReconciles(r) \/ Ring(r) \/ ApiReconcile(r) \/ Ages(r)
  BY <1>4, ReadsIsStep DEF LoopReconciles, Ring, ApiReconcile, Ages
<1>5. CASE ApiCancel(r)
  <2>1. StopRun(r, "user") => JournalStep
    BY StopIsStep DEF Reasons
  <2> QED
    BY <1>5, <2>1 DEF ApiCancel, Call, JournalStep
<1> QED
  BY <1>1, <1>2, <1>3, <1>4, <1>5 DEF LoopStep

-----------------------------------------------------------------------------
LEMMA ExecutorIsStep ==
  ASSUME NEW r \in Runs, ExecutorStep(r)
  PROVE  JournalStep
<1>1. ASSUME NEW s \in Steps, NEW ids \in SUBSET Ids, ExecCheckpoint(r, s, ids)
      PROVE  JournalStep
  <2>1. Checkpoint(r, s, ids) => JournalStep
    BY RecordIsStep DEF RecordAny
  <2> QED
    BY <1>1, <2>1 DEF ExecCheckpoint, Call, JournalStep
<1>2. ASSUME NEW s \in Steps, NEW st \in Results, ExecFinishStep(r, s, st)
      PROVE  JournalStep
  <2>1. FinishStep(r, s, st) => JournalStep
    BY RecordIsStep, ResultsAssumption DEF RecordAny, FinishStatus
  <2> QED
    BY <1>2, <2>1 DEF ExecFinishStep, Call, JournalStep
<1>3. ASSUME NEW k \in IntentKeys, NEW ids \in SUBSET Ids, ExecIntent(r, k, ids)
      PROVE  JournalStep
  <2>1. Intent(r, k, ids) => JournalStep
    BY RecordIsStep DEF RecordAny
  <2> QED
    BY <1>3, <2>1 DEF ExecIntent, Call, JournalStep
<1>4. CASE ExecSend(r)
  BY <1>4, ReadsIsStep DEF ExecSend
<1>5. ASSUME NEW st \in ReceiptState, NEW id \in Ids \cup {NoId}, ExecReceipt(r, st, id)
      PROVE  JournalStep
  <2> DEFINE k == w[r].key
  <2>1. ASSUME ReceiptOK(r, k), Receipt(r, k, st, id, OwnedKind(k, st))
        PROVE  JournalStep
    <3>1. k \in IntentKeys
      BY <2>1 DEF ReceiptOK, Unsettled
    <3>2. OwnedKind(k, st) \in BOOLEAN
      BY DEF OwnedKind
    <3> QED
      BY <2>1, <3>1, <3>2, RecordIsStep DEF RecordAny
  <2> QED
    BY <1>5, <2>1 DEF ExecReceipt, Call, JournalStep
<1>6. ASSUME NEW why \in {"user", "timeout"}, ExecStop(r, why)
      PROVE  JournalStep
  <2>1. StopRun(r, why) => JournalStep
    BY StopIsStep DEF Reasons
  <2> QED
    BY <1>6, <2>1 DEF ExecStop, Call, JournalStep
<1>7. ASSUME NEW out \in Verdicts, ExecReturns(r, out) \/ ExecGitFails(r, out)
      PROVE  JournalStep
  BY <1>7, ReadsIsStep DEF ExecReturns, ExecGitFails
<1>8. CASE ExecRaises(r)
  BY <1>8, ReadsIsStep DEF ExecRaises
<1> QED
  BY <1>1, <1>2, <1>3, <1>4, <1>5, <1>6, <1>7, <1>8 DEF ExecutorStep

(* A transition to an outcome, with the recovery state that goes with it.  *)
LEMMA OutcomeIsStep ==
  ASSUME NEW c \in Callers, NEW r \in Runs, NEW out,
         CanMove(c, r, out), Transition(c, r, out, RecoveryOf(out))
  PROVE  JournalStep
<1>1. out \in Status
  BY StatusFacts DEF CanMove, TransitionOK, Transitions, Status, Active, Terminal
<1>2. RecoveryOf(out) \in Recovery \cup {"keep"}
  BY DEF RecoveryOf, Recovery
<1> QED
  BY <1>1, <1>2, TransitionIsStep

LEMMA WorkerIsStep ==
  ASSUME NEW r \in Runs, WorkerStep(r)
  PROVE  JournalStep
<1>1. CASE Acquire(r) \/ SlotCancelled(r) \/ SlotTimeout(r) \/ Deadline(r)
  BY <1>1, ReadsIsStep DEF Acquire, SlotCancelled, SlotTimeout, Deadline
<1>2. CASE Read(r)
  BY <1>2, GetIsStep, ReadsIsStep, CallersAssumption DEF Read, Call, JournalStep
<1>3. CASE Claim(r)
  <2>1. Transition("worker", r, "running", "keep") => JournalStep
    BY TransitionIsStep, CallersAssumption DEF Status, Active
  <2> QED
    BY <1>3, <2>1 DEF Claim, Call, JournalStep
<1>4. CASE StopFirst(r)
  <2> DEFINE why == IF w[r].pc = "stopGit" THEN "user"
                    ELSE IF phase \in {"gather", "stop", "drain"} THEN "shutdown" ELSE "timeout"
  <2>1. StopRun(r, why) => JournalStep
    BY StopIsStep DEF Reasons
  <2> QED
    BY <1>4, <2>1 DEF StopFirst, Call, JournalStep
<1>5. CASE Assess(r)
  BY <1>5, ReadsIsStep DEF Assess, Call, JournalStep
<1>6. CASE Finish(r)
  BY <1>6, GetIsStep, ReadsIsStep, CallersAssumption DEF Finish, Call, JournalStep
<1>7. CASE Decide(r)
  <2>1. /\ CanMove("worker", r, w[r].out)
        /\ Transition("worker", r, w[r].out, RecoveryOf(w[r].out))
        => JournalStep
    BY OutcomeIsStep, CallersAssumption
  <2> QED
    BY <1>7, <2>1, ReadsIsStep DEF Decide, Call, JournalStep
<1>8. CASE Note(r)
  BY <1>8, LogIsStep DEF Note, Call, JournalStep
<1> QED
  BY <1>1, <1>2, <1>3, <1>4, <1>5, <1>6, <1>7, <1>8 DEF WorkerStep

LEMMA ObserverIsStep ==
  ASSUME NEW r \in Runs, ObserverStep(r) \/ QueryStep(r)
  PROVE  JournalStep
<1>1. CASE ObsBegins(r) \/ ObsTimeout(r)
  BY <1>1, ReadsIsStep DEF ObsBegins, ObsTimeout
<1>2. CASE ObsOpens(r) \/ ObsNotes(r) \/ ObsApologises(r)
  BY <1>2, LogIsStep DEF ObsOpens, ObsNotes, ObsApologises, Call, JournalStep
<1>3. CASE ObsReads(r)
  BY <1>3, GetIsStep, ReadsIsStep, CallersAssumption DEF ObsReads, Call, JournalStep
<1>4. CASE ObsDecides(r)
  <2>1. /\ CanMove("observer", r, o[r].out)
        /\ Transition("observer", r, o[r].out, RecoveryOf(o[r].out))
        => JournalStep
    BY OutcomeIsStep, CallersAssumption
  <2> QED
    BY <1>4, <2>1, ReadsIsStep DEF ObsDecides, Call, JournalStep
<1>5. ASSUME NEW k \in IntentKeys, NEW id \in Ids \cup {NoId}, ObsReceipt(r, k, id)
      PROVE  JournalStep
  <2>1. Receipt(r, k, "confirmed", id, k.kind = "release_create") => JournalStep
    BY RecordIsStep DEF RecordAny, ReceiptState
  <2> QED
    BY <1>5, <2>1 DEF ObsReceipt, Call, JournalStep
<1>6. ASSUME NEW s \in Steps, ObsFinishStep(r, s)
      PROVE  JournalStep
  <2>1. FinishStep(r, s, "succeeded") => JournalStep
    BY RecordIsStep DEF RecordAny, FinishStatus
  <2> QED
    BY <1>6, <2>1 DEF ObsFinishStep, Call, JournalStep
<1>7. ASSUME NEW out \in Findings, ObsReturns(r, out)
      PROVE  JournalStep
  BY <1>7, ReadsIsStep DEF ObsReturns
<1> QED
  BY <1>1, <1>2, <1>3, <1>4, <1>5, <1>6, <1>7 DEF ObserverStep, QueryStep

-----------------------------------------------------------------------------
(* Every behaviour of the service is one of the journal: services/runs.py  *)
(* never leaves what adapters/run_store.py allows.                         *)
THEOREM ServiceImplementsJournal == ServiceSpec => ImplementsJournal
<1>1. ServiceInit => Init
  BY DEF ServiceInit
<1>2. [ServiceNext]_svars => [Next]_jvars
  <2>1. ServiceNext => JournalStep
    BY ClientIsStep, CloseIsStep, BootIsStep, LoopIsStep, WorkerIsStep, ExecutorIsStep,
       ObserverIsStep DEF ServiceNext, ClientStep
  <2>2. UNCHANGED svars => UNCHANGED jvars
    BY DEF svars
  <2> QED
    BY <2>1, <2>2 DEF JournalStep
<1> QED
  BY <1>1, <1>2, PTL DEF ServiceSpec, ImplementsJournal, Spec

(* What the journal guarantees, of the whole service: a run is closed only *)
(* when every remote write it began is settled, whatever the workers, the  *)
(* observers, the recovery and the shutdown did in between.                *)
THEOREM ServiceSettles == ServiceSpec => []TerminalSettled
BY ServiceImplementsJournal, Settlement, PTL DEF ImplementsJournal

(* Two clients, a retry and a recovery never run the same task twice.      *)
THEOREM ServiceExcludes == ServiceSpec => []OneActivePerTask
BY ServiceImplementsJournal, TaskExclusion, PTL DEF ImplementsJournal

-----------------------------------------------------------------------------
(***************************************************************************)
(* What the whole service guarantees of the remote writes: each is sent at *)
(* most once and only after its intent is durable, and a run is closed     *)
(* only when the journal confirms every write that was sent.               *)
(*                                                                         *)
(* AtMostOnce is not inductive.  A worker about to send must hold a key    *)
(* whose intent it has journalled and whose write was not sent yet; it got *)
(* there by an intent that the journal accepted, which it does once for a  *)
(* key; and no effect is ever forgotten, by the journal's EffectForward.   *)
(***************************************************************************)
Worker == [pc: WorkerPc, permit: BOOLEAN, out: Outcomes \cup {"-"}, tries: Nat,
           key: IntentKeys \cup {NoKey}]

Typed ==
  /\ w \in [Runs -> Worker]
  /\ delivered \in [Runs -> [IntentKeys -> 0..1]]

(* A worker about to send has journalled the intent, and nobody has sent.  *)
Announced ==
  \A r \in Runs : w[r].pc = "send" =>
    /\ w[r].key \in IntentKeys
    /\ delivered[r][w[r].key] = 0
    /\ effect[r][w[r].key].state # "none"

Sent ==
  \A r \in Runs, k \in IntentKeys : delivered[r][k] = 1 => effect[r][k].state # "none"

(* Nothing in the program records a refusal of the remote side.            *)
Unrefused ==
  \A r \in Runs, k \in IntentKeys : effect[r][k].state # "rejected"

SendInv == Typed /\ Announced /\ Sent /\ Unrefused

-----------------------------------------------------------------------------
(* A step after which no worker is about to send that was not before.      *)
Turned ==
  /\ w' \in [Runs -> Worker]
  /\ \A x \in Runs : w'[x].pc = "send" => w[x].pc = "send" /\ w'[x].key = w[x].key

(* A step that records no refusal.                                         *)
Kept ==
  \A x \in Runs, k \in IntentKeys :
    effect'[x][k].state = "rejected" => effect[x][k].state = "rejected"

Calm == Turned /\ delivered' = delivered /\ Kept

LEMMA NoJobIsWorker == NoJob \in Worker /\ NoJob.pc = "none"
BY DEF NoJob, Job, Worker, WorkerPc

LEMMA WorkersTurned ==
  ASSUME Typed, UNCHANGED w
  PROVE  Turned
BY DEF Typed, Turned

LEMMA TurnTurned ==
  ASSUME Typed, NEW r \in Runs, NEW pc \in WorkerPc \ {"send"}, Turn(r, pc)
  PROVE  Turned
BY DEF Typed, Turned, Turn, Sets, Becomes, Worker

LEMMA HandledTurned ==
  ASSUME Typed, NEW r \in Runs, NEW pc \in WorkerPc \ {"send"}, NEW out \in Outcomes \cup {"-"},
         Handled(r, pc, out)
  PROVE  Turned
BY DEF Typed, Turned, Handled, Sets, Becomes, Worker, Job

LEMMA LeavesTurned ==
  ASSUME Typed, NEW r \in Runs, Leaves(r) \/ Lost(r)
  PROVE  Turned
BY NoJobIsWorker DEF Typed, Turned, Leaves, Lost, Sets, Becomes

LEMMA RaisesTurned ==
  ASSUME Typed, NEW r \in Runs, Raises(r)
  PROVE  Turned
BY HandledTurned, LeavesTurned DEF Raises, WorkerPc, Outcomes

-----------------------------------------------------------------------------
LEMMA QuietKept == UNCHANGED effect => Kept
BY DEF Kept

LEMMA ReadsKept == Reads => Kept
BY QuietKept DEF Reads, jvars, journal

LEMMA GetKept ==
  ASSUME NEW c \in Callers, NEW r \in Runs, Get(c, r)
  PROVE  Kept
BY QuietKept DEF Get, journal

LEMMA LogKept ==
  ASSUME NEW r \in Runs, Log(r)
  PROVE  Kept
BY QuietKept DEF Log, journal

LEMMA StopKept ==
  ASSUME NEW r \in Runs, NEW why \in Reasons, StopRun(r, why)
  PROVE  Kept
BY QuietKept, ReadsKept DEF StopRun, Reads, Cancel

LEMMA RecoverKept ==
  ASSUME NEW r \in Runs, Recover(r)
  PROVE  Kept
BY QuietKept DEF Recover, SetStatus

LEMMA MoveKept ==
  ASSUME NEW c \in Callers, NEW r \in Runs,
         \/ Transition(c, r, "running", "keep")
         \/ Transition(c, r, "unknown", "manual_required")
         \/ Transition(c, r, w[r].out, RecoveryOf(w[r].out))
         \/ Transition(c, r, o[r].out, RecoveryOf(o[r].out))
  PROVE  Kept
BY QuietKept DEF Transition, SetStatus

LEMMA StepKept ==
  ASSUME NEW r \in Runs, NEW s \in Steps, NEW ids, NEW st,
         Checkpoint(r, s, ids) \/ FinishStep(r, s, st)
  PROVE  Kept
BY QuietKept DEF Checkpoint, FinishStep

LEMMA ReceiptKept ==
  ASSUME Typed, TypeOK, NEW r \in Runs, NEW k \in IntentKeys, NEW st, NEW id,
         st # "rejected", \E own : Receipt(r, k, st, id, own)
  PROVE  Kept
BY DEF Receipt, Kept, TypeOK

-----------------------------------------------------------------------------
LEMMA ClientCalm ==
  ASSUME Typed, NEW a \in Clients, Lookup(a) \/ Enter(a) \/ Accept(a) \/ Spawn(a)
  PROVE  Calm
<1>1. CASE Lookup(a) \/ Enter(a) \/ AcceptRefused(a) \/ AcceptServed(a)
  BY <1>1, ReadsKept, WorkersTurned
     DEF Calm, Lookup, Enter, AcceptRefused, AcceptServed, OtherThanClients, workers
<1>2. CASE AcceptCreates(a)
  <2>1. UNCHANGED effect
    BY <1>2 DEF AcceptCreates, Create
  <2> QED
    BY <1>2, <2>1, QuietKept, WorkersTurned DEF Calm, AcceptCreates, OtherThanClients, workers
<1>3. CASE Spawn(a)
  <2>1. Turned
    <3>1. CASE UNCHANGED workers
      BY <3>1, WorkersTurned DEF workers
    <3>2. CASE w' = [w EXCEPT ![client[a].run] = Job("slot", FALSE, "-")]
      <4>1. Job("slot", FALSE, "-") \in Worker /\ Job("slot", FALSE, "-").pc = "slot"
        BY DEF Job, Worker, WorkerPc
      <4> QED
        BY <3>2, <4>1 DEF Turned, Typed
    <3> QED
      BY <1>3, <3>1, <3>2 DEF Spawn
  <2> QED
    BY <1>3, <2>1, ReadsKept DEF Calm, Spawn, OtherThanClients
<1> QED
  BY <1>1, <1>2, <1>3 DEF Accept

LEMMA AroundCalm ==
  ASSUME Typed, NEW r \in Runs, ApiCancel(r) \/ Ring(r) \/ ApiReconcile(r) \/ Ages(r)
  PROVE  Calm
<1>1. StopRun(r, "user") => Kept
  BY StopKept DEF Reasons
<1>2. CASE ApiCancel(r)
  BY <1>1, <1>2, ReadsKept, WorkersTurned DEF Calm, ApiCancel, Call, Reads, workers
<1>3. CASE Ring(r)
  BY <1>3, ReadsKept, WorkersTurned DEF Calm, Ring
<1>4. CASE ApiReconcile(r) \/ Ages(r)
  BY <1>4, ReadsKept, WorkersTurned DEF Calm, ApiReconcile, Ages, workers
<1> QED
  BY <1>2, <1>3, <1>4

LEMMA LoopCalm ==
  ASSUME Typed, NEW r \in Runs, LoopStep(r)
  PROVE  Calm
<1>1. CASE LoopRecovers(r)
  BY <1>1, RecoverKept, ReadsKept, WorkersTurned DEF Calm, LoopRecovers, Call, Reads
<1>2. CASE LoopLists(r)
  BY <1>2, GetKept, CallersAssumption, WorkersTurned DEF Calm, LoopLists, workers
<1>3. CASE LoopEscalates(r)
  BY <1>3, MoveKept, ReadsKept, CallersAssumption, WorkersTurned
     DEF Calm, LoopEscalates, Call, Reads, workers
<1>4. CASE LoopReconciles(r)
  BY <1>4, ReadsKept, WorkersTurned DEF Calm, LoopReconciles, workers
<1> QED
  BY <1>1, <1>2, <1>3, <1>4 DEF LoopStep

LEMMA ObserverCalm ==
  ASSUME Typed, TypeOK, NEW r \in Runs, ObserverStep(r) \/ QueryStep(r)
  PROVE  Calm
<1>0. Aside => Turned /\ delivered' = delivered
  BY WorkersTurned DEF Aside, workers
<1>1. CASE ObsBegins(r)
  BY <1>1, ReadsKept, WorkersTurned DEF Calm, ObsBegins, workers
<1>2. CASE ObsOpens(r) \/ ObsNotes(r) \/ ObsApologises(r)
  BY <1>0, <1>2, LogKept, ReadsKept DEF Calm, ObsOpens, ObsNotes, ObsApologises, Call, Reads
<1>3. CASE ObsReads(r)
  BY <1>0, <1>3, GetKept, ReadsKept, CallersAssumption DEF Calm, ObsReads, Call, Reads
<1>4. CASE ObsDecides(r)
  BY <1>0, <1>4, MoveKept, ReadsKept, CallersAssumption DEF Calm, ObsDecides, Call, Reads
<1>5. CASE ObsTimeout(r)
  BY <1>0, <1>5, ReadsKept DEF Calm, ObsTimeout
<1>6. ASSUME NEW k \in IntentKeys, NEW id \in Ids \cup {NoId}, ObsReceipt(r, k, id)
      PROVE  Calm
  BY <1>0, <1>6, ReceiptKept, ReadsKept DEF Calm, ObsReceipt, Call, Reads
<1>7. ASSUME NEW s \in Steps, ObsFinishStep(r, s)
      PROVE  Calm
  BY <1>0, <1>7, StepKept, ReadsKept DEF Calm, ObsFinishStep, Call, Reads
<1>8. ASSUME NEW out \in Findings, ObsReturns(r, out)
      PROVE  Calm
  BY <1>0, <1>8, ReadsKept DEF Calm, ObsReturns
<1> QED
  BY <1>1, <1>2, <1>3, <1>4, <1>5, <1>6, <1>7, <1>8 DEF ObserverStep, QueryStep

LEMMA ProcessCalm ==
  ASSUME Typed, BootStep \/ CloseStep \/ Kill \/ StoreFails \/ CloseBegins
  PROVE  Calm
<1>1. Vanishes => Calm
  <2>1. Vanishes => Kept /\ delivered' = delivered
    BY QuietKept DEF Vanishes, Crash, journal
  <2>2. Vanishes => Turned
    BY NoJobIsWorker DEF Vanishes, Turned
  <2> QED
    BY <2>1, <2>2 DEF Calm
<1>2. CASE Boot \/ BootDone \/ StoreFails
  BY <1>2, QuietKept, WorkersTurned, ReadsKept
     DEF Calm, Boot, BootDone, StoreFails, Initialize, WriteFault, journal, workers
<1>3. ASSUME NEW r \in Runs, BootRecovers(r)
      PROVE  Calm
  BY <1>3, RecoverKept, WorkersTurned DEF Calm, BootRecovers, workers
<1>4. CASE BootFails \/ CloseDone \/ Kill
  BY <1>1, <1>4 DEF BootFails, CloseDone, Kill
<1>5. CASE CloseBegins \/ CloseGathers \/ CloseDrains
  BY <1>5, ReadsKept, WorkersTurned DEF Calm, CloseBegins, CloseGathers, CloseDrains, workers
<1>6. ASSUME NEW r \in Runs, CloseStops(r)
      PROVE  Calm
  <2>1. StopRun(r, "shutdown") => Kept
    BY StopKept DEF Reasons
  <2> QED
    BY <1>6, <2>1, ReadsKept, WorkersTurned DEF Calm, CloseStops, Call, Reads, workers
<1>7. ASSUME NEW r \in Runs, CloseCancels(r)
      PROVE  Calm
  <2>1. Interrupted(r) \/ Lost(r) => Turned
    BY HandledTurned, LeavesTurned DEF Interrupted, WorkerPc, Outcomes
  <2> QED
    BY <1>7, <2>1, ReadsKept DEF Calm, CloseCancels
<1>8. ASSUME NEW r \in Runs, CloseCancelsObserver(r)
      PROVE  Calm
  BY <1>8, ReadsKept, WorkersTurned DEF Calm, CloseCancelsObserver, Aside, workers
<1> QED
  BY <1>2, <1>3, <1>4, <1>5, <1>6, <1>7, <1>8 DEF BootStep, CloseStep

LEMMA WorkerCalm ==
  ASSUME Typed, NEW r \in Runs, WorkerStep(r)
  PROVE  Calm
<1> USE DEF Calm
<1>1. CASE Acquire(r)
  <2>1. Job("read", TRUE, "-") \in Worker /\ Job("read", TRUE, "-").pc = "read"
    BY DEF Job, Worker, WorkerPc
  <2>2. Turned
    BY <1>1, <2>1 DEF Acquire, Turned, Typed
  <2> QED
    BY <1>1, <2>2, ReadsKept DEF Acquire
<1>2. CASE SlotCancelled(r) \/ SlotTimeout(r) \/ Deadline(r)
  <2>1. Handled(r, "stopGit", "cancelled") \/ Handled(r, "finish", "failed") \/ Interrupted(r)
        => Turned
    BY HandledTurned DEF Interrupted, WorkerPc, Outcomes
  <2> QED
    BY <1>2, <2>1, ReadsKept DEF SlotCancelled, SlotTimeout, Deadline
<1>3. CASE Read(r)
  <2>1. Turn(r, "claim") => Turned
    BY TurnTurned DEF WorkerPc
  <2> QED
    BY <1>3, <2>1, LeavesTurned, RaisesTurned, GetKept, ReadsKept, CallersAssumption
       DEF Read, Call, Reads
<1>4. CASE Claim(r)
  <2>1. Turn(r, "run") => Turned
    BY TurnTurned DEF WorkerPc
  <2> QED
    BY <1>4, <2>1, RaisesTurned, MoveKept, ReadsKept, CallersAssumption DEF Claim, Call, Reads
<1>5. CASE StopFirst(r)
  <2> DEFINE why == IF w[r].pc = "stopGit" THEN "user"
                    ELSE IF phase \in {"gather", "stop", "drain"} THEN "shutdown" ELSE "timeout"
  <2>1. StopRun(r, why) => Kept
    BY StopKept DEF Reasons
  <2>2. Turn(r, IF w[r].pc = "stopGit" THEN "finish" ELSE "assess") => Turned
    BY TurnTurned DEF WorkerPc
  <2> QED
    BY <1>5, <2>1, <2>2, RaisesTurned, ReadsKept DEF StopFirst, Call, Reads
<1>6. CASE Assess(r)
  <2> DEFINE out == IF Remote(r) THEN "unknown" ELSE w[r].out
  <2>0. out \in Outcomes \cup {"-"}
    BY DEF Typed, Worker, Outcomes
  <2> HIDE DEF out
  <2>1. Sets(r, Job("finish", FALSE, out)) => Turned
    BY <2>0, HandledTurned DEF Handled, WorkerPc
  <2>2. Sets(r, Job("finish", FALSE, IF Remote(r) THEN "unknown" ELSE w[r].out)) => Turned
    BY <2>1 DEF out
  <2> QED
    BY <1>6, <2>2, RaisesTurned, ReadsKept DEF Assess, Call, Reads
<1>7. CASE Finish(r)
  <2>1. Turn(r, "decide") => Turned
    BY TurnTurned DEF WorkerPc
  <2> QED
    BY <1>7, <2>1, LeavesTurned, RaisesTurned, GetKept, ReadsKept, CallersAssumption
       DEF Finish, Call, Reads
<1>8. CASE Decide(r)
  <2>1. Sets(r, Job("note", w[r].permit, "-")) => Turned
    BY DEF Sets, Becomes, Turned, Typed, Job, Worker, WorkerPc, Outcomes
  <2>2. Sets(r, [w[r] EXCEPT !.pc = "finish", !.tries = @ + 1]) => Turned
    <3> DEFINE job == [w[r] EXCEPT !.pc = "finish", !.tries = @ + 1]
    <3>1. w[r].tries \in Nat /\ w[r].tries + 1 \in Nat
      BY DEF Typed, Worker
    <3>2. job \in Worker /\ job.pc = "finish"
      BY <3>1 DEF Typed, Worker, WorkerPc
    <3> QED
      BY <3>2 DEF Sets, Becomes, Turned, Typed
  <2> QED
    BY <1>8, <2>1, <2>2, RaisesTurned, MoveKept, ReadsKept, CallersAssumption
       DEF Decide, Call, Reads
<1>9. CASE Note(r)
  BY <1>9, LeavesTurned, RaisesTurned, LogKept, ReadsKept DEF Note, Call, Reads
<1> QED
  BY <1>1, <1>2, <1>3, <1>4, <1>5, <1>6, <1>7, <1>8, <1>9 DEF WorkerStep

LEMMA ExecutorCalm ==
  ASSUME Typed, TypeOK, NEW r \in Runs,
         \/ \E s \in Steps, ids \in SUBSET Ids : ExecCheckpoint(r, s, ids)
         \/ \E s \in Steps, st \in Results : ExecFinishStep(r, s, st)
         \/ \E st \in ReceiptState, id \in Ids \cup {NoId} : ExecReceipt(r, st, id)
         \/ \E why \in {"user", "timeout"} : ExecStop(r, why)
         \/ \E out \in Verdicts : ExecReturns(r, out) \/ ExecGitFails(r, out)
         \/ ExecRaises(r)
  PROVE  Calm
<1> USE DEF Calm
<1>1. ASSUME NEW s \in Steps, NEW ids \in SUBSET Ids, ExecCheckpoint(r, s, ids)
      PROVE  Calm
  BY <1>1, StepKept, RaisesTurned, WorkersTurned, ReadsKept
     DEF ExecCheckpoint, Call, Reads, workers
<1>2. ASSUME NEW s \in Steps, NEW st \in Results, ExecFinishStep(r, s, st)
      PROVE  Calm
  BY <1>2, StepKept, RaisesTurned, WorkersTurned, ReadsKept
     DEF ExecFinishStep, Call, Reads, workers
<1>3. ASSUME NEW st \in ReceiptState, NEW id \in Ids \cup {NoId}, ExecReceipt(r, st, id)
      PROVE  Calm
  <2> DEFINE k == w[r].key
  <2>1. Turn(r, "run") => Turned
    BY TurnTurned DEF WorkerPc
  <2>2. ASSUME Receipt(r, k, st, id, OwnedKind(k, st))
        PROVE  Kept
    <3>1. k \in IntentKeys
      BY <2>2 DEF Receipt, ReceiptOK, Unsettled
    <3>2. st # "rejected"
      BY <1>3 DEF ExecReceipt, AnswerOf
    <3> QED
      BY <2>2, <3>1, <3>2, ReceiptKept
  <2> QED
    BY <1>3, <2>1, <2>2, RaisesTurned, ReadsKept DEF ExecReceipt, Call, Reads
<1>4. ASSUME NEW why \in {"user", "timeout"}, ExecStop(r, why)
      PROVE  Calm
  <2>1. StopRun(r, why) => Kept
    BY StopKept DEF Reasons
  <2> QED
    BY <1>4, <2>1, RaisesTurned, WorkersTurned, ReadsKept DEF ExecStop, Call, Reads
<1>5. ASSUME NEW out \in Verdicts, ExecReturns(r, out)
      PROVE  Calm
  <2>1. out \in Outcomes
    BY ResultsAssumption DEF Outcomes
  <2>2. Sets(r, Job("finish", TRUE, out)) => Turned
    BY <2>1 DEF Sets, Becomes, Turned, Typed, Job, Worker, WorkerPc
  <2> QED
    BY <1>5, <2>2, ReadsKept DEF ExecReturns
<1>6. ASSUME NEW out \in Verdicts, ExecGitFails(r, out)
      PROVE  Calm
  <2>1. Handled(r, "stopGit", "cancelled") \/ Handled(r, "finish", out) => Turned
    BY HandledTurned, ResultsAssumption DEF WorkerPc, Outcomes
  <2> QED
    BY <1>6, <2>1, ReadsKept DEF ExecGitFails
<1>7. CASE ExecRaises(r)
  BY <1>7, RaisesTurned, ReadsKept DEF ExecRaises
<1> QED
  BY <1>1, <1>2, <1>3, <1>4, <1>5, <1>6, <1>7

-----------------------------------------------------------------------------
(* The two steps that a write takes: its intent, and its sending.          *)
LEMMA IntentSends ==
  ASSUME SendInv, TypeOK, EffectKept, NEW r \in Runs, NEW k \in IntentKeys, NEW ids,
         ExecIntent(r, k, ids), ~Calm
  PROVE  SendInv'
<1>1. Kept
  <2>1. Intent(r, k, ids) => Kept
    BY DEF Intent, Kept, TypeOK
  <2> QED
    BY <2>1, ReadsKept DEF ExecIntent, Call, Reads
<1>2. /\ Intent(r, k, ids)
      /\ w' = [w EXCEPT ![r] = [w[r] EXCEPT !.pc = "send", !.key = k]]
      /\ delivered' = delivered
  BY <1>1, RaisesTurned DEF ExecIntent, Call, Calm, SendInv, Sets, Becomes
<1>3. delivered[r][k] = 0 /\ effect[r][k].state = "none"
  BY <1>2 DEF Intent, IntentOK, SendInv, Sent, Typed
<1>4. effect'[r][k].state = "intent"
  BY <1>2 DEF Intent, TypeOK
<1>5. Typed'
  <2>1. w[r] \in Worker
    BY DEF SendInv, Typed
  <2>2. [w[r] EXCEPT !.pc = "send", !.key = k] \in Worker
    BY <2>1 DEF Worker, WorkerPc
  <2> QED
    BY <1>2, <2>2 DEF SendInv, Typed
<1>6. Announced'
  BY <1>2, <1>3, <1>4 DEF SendInv, Announced, EffectKept, Typed
<1>7. Sent' /\ Unrefused'
  BY <1>1, <1>2 DEF SendInv, Sent, Unrefused, EffectKept, Kept
<1> QED
  BY <1>5, <1>6, <1>7 DEF SendInv

LEMMA SendSends ==
  ASSUME SendInv, NEW r \in Runs, ExecSend(r)
  PROVE  SendInv'
<1> DEFINE k == w[r].key
<1>1. k \in IntentKeys /\ delivered[r][k] = 0 /\ effect[r][k].state # "none"
  BY DEF ExecSend, SendInv, Announced
<1>2. /\ delivered' = [delivered EXCEPT ![r][k] = @ + 1]
      /\ w' = [w EXCEPT ![r] = [w[r] EXCEPT !.pc = "answer"]]
      /\ effect' = effect
  BY DEF ExecSend, Turn, Sets, Becomes, Reads, jvars, journal
<1> HIDE DEF k
<1>3. Typed'
  <2>0. w[r] \in Worker
    BY DEF SendInv, Typed
  <2>a. [w[r] EXCEPT !.pc = "answer"] \in Worker
    BY <2>0 DEF Worker, WorkerPc
  <2>1. w' \in [Runs -> Worker]
    BY <1>2, <2>a DEF SendInv, Typed
  <2>2. delivered' = [delivered EXCEPT ![r] = [delivered[r] EXCEPT ![k] = 1]]
    BY <1>1, <1>2 DEF SendInv, Typed
  <2>3. [delivered[r] EXCEPT ![k] = 1] \in [IntentKeys -> 0..1]
    <3>1. 1 \in 0..1 /\ delivered[r] \in [IntentKeys -> 0..1]
      BY DEF SendInv, Typed
    <3> QED
      BY <3>1
  <2> QED
    BY <2>1, <2>2, <2>3 DEF SendInv, Typed
<1>4. Announced'
  BY <1>1, <1>2 DEF SendInv, Announced, Typed
<1>5. Sent' /\ Unrefused'
  BY <1>1, <1>2 DEF SendInv, Sent, Unrefused, Typed
<1> QED
  BY <1>3, <1>4, <1>5 DEF SendInv

LEMMA CalmKeeps ==
  ASSUME SendInv, EffectKept, Calm
  PROVE  SendInv'
<1>1. Typed'
  BY DEF SendInv, Typed, Calm, Turned
<1>2. Announced'
  BY DEF SendInv, Announced, Calm, Turned, EffectKept
<1>3. Sent' /\ Unrefused'
  BY DEF SendInv, Sent, Unrefused, Calm, Kept, EffectKept
<1> QED
  BY <1>1, <1>2, <1>3 DEF SendInv

LEMMA StepSends ==
  ASSUME SendInv, TypeOK, EffectKept, ServiceNext
  PROVE  SendInv'
<1> USE DEF SendInv
<1>1. ASSUME NEW r \in Runs, ExecutorStep(r)
      PROVE  SendInv'
  <2>1. ASSUME NEW k \in IntentKeys, NEW ids \in SUBSET Ids, ExecIntent(r, k, ids)
        PROVE  SendInv'
    BY <2>1, IntentSends, CalmKeeps
  <2>2. CASE ExecSend(r)
    BY <2>2, SendSends
  <2>3. CASE ~(\/ ExecSend(r)
               \/ \E k \in IntentKeys, ids \in SUBSET Ids : ExecIntent(r, k, ids))
    BY <1>1, <2>3, ExecutorCalm, CalmKeeps DEF ExecutorStep
  <2> QED
    BY <2>1, <2>2, <2>3
<1>2. ASSUME NEW r \in Runs, \/ ApiCancel(r) \/ Ring(r) \/ ApiReconcile(r) \/ Ages(r)
                             \/ WorkerStep(r) \/ ObserverStep(r) \/ QueryStep(r)
                             \/ LoopStep(r)
      PROVE  SendInv'
  BY <1>2, AroundCalm, WorkerCalm, ObserverCalm, LoopCalm, CalmKeeps
<1>3. CASE ClientStep
  BY <1>3, ClientCalm, CalmKeeps DEF ClientStep
<1>4. CASE BootStep \/ CloseStep \/ Kill \/ StoreFails \/ CloseBegins
  BY <1>4, ProcessCalm, CalmKeeps
<1> QED
  BY <1>1, <1>2, <1>3, <1>4 DEF ServiceNext

LEMMA SendInvariance == ServiceSpec => []SendInv
<1>1. ServiceInit => SendInv
  BY NoJobIsWorker
     DEF ServiceInit, Init, NoEffect, SendInv, Typed, Announced, Sent, Unrefused
<1>2. SendInv /\ IInv /\ [Next]_jvars /\ [ServiceNext]_svars => SendInv'
  <2> SUFFICES ASSUME SendInv, IInv, [Next]_jvars, [ServiceNext]_svars
               PROVE  SendInv'
    OBVIOUS
  <2>1. EffectKept
    BY EffectKeptStep DEF EffectKept, jvars, journal
  <2>2. CASE ServiceNext
    BY <2>1, <2>2, StepSends DEF IInv
  <2>3. CASE UNCHANGED svars
    BY <2>3 DEF svars, jvars, journal, workers, SendInv, Typed, Announced, Sent, Unrefused
  <2> QED
    BY <2>2, <2>3
<1>3. ServiceSpec => [][Next]_jvars /\ []IInv
  BY ServiceImplementsJournal, Invariance, PTL DEF ImplementsJournal, Spec
<1> QED
  BY <1>1, <1>2, <1>3, PTL DEF ServiceSpec

-----------------------------------------------------------------------------
(* Whatever crash, timeout, lost answer or retry comes between them, a     *)
(* remote write is sent at most once, after its intent was journalled.     *)
THEOREM SentAtMostOnce == ServiceSpec => []AtMostOnce
<1>1. SendInv => AtMostOnce
  BY DEF SendInv, Typed, Sent, AtMostOnce, Effects
<1> QED
  BY <1>1, SendInvariance, PTL

(* A run that its worker, an observer or the recovery has closed has a     *)
(* confirming receipt for each write that reached the remote side.         *)
THEOREM ClosedIsVerified == ServiceSpec => []VerifiedEnd
<1>1. SendInv /\ IInv /\ TerminalSettled => VerifiedEnd
  <2> SUFFICES ASSUME SendInv, TypeOK, TerminalSettled,
                      NEW r \in Runs, NEW k \in IntentKeys,
                      TerminalRun(r), delivered[r][k] > 0
               PROVE  effect[r][k].state = "confirmed"
    BY DEF IInv, VerifiedEnd
  <2>1. delivered[r][k] = 1
    BY DEF SendInv, Typed
  <2>2. effect[r][k].state \notin {"none", "intent", "unknown", "rejected"}
    BY <2>1 DEF SendInv, Sent, Unrefused, TerminalSettled, Unsettled
  <2>3. effect[r][k].state \in EffectState
    BY DEF TypeOK
  <2> QED
    BY <2>2, <2>3 DEF EffectState
<1>2. ServiceSpec => []IInv
  BY ServiceImplementsJournal, Invariance, PTL DEF ImplementsJournal
<1> QED
  BY <1>1, <1>2, SendInvariance, ServiceSettles, PTL

-----------------------------------------------------------------------------
(* The types and the permits.  A permit is counted in free or held by one  *)
(* worker; the holders are finitely many because each took one.            *)
JobRecord == [pc: WorkerPc, permit: BOOLEAN, out: Outcomes \cup {"-"}, tries: 0..Attempts,
              key: IntentKeys \cup {NoKey}]

Holders == {r \in Runs : w[r].permit}
Body == {"read", "claim", "run", "send", "answer"}

WorkersOK ==
  /\ w \in [Runs -> JobRecord]
  /\ \A r \in Runs : w[r].pc \in {"none", "slot"} => ~w[r].permit
  /\ \A r \in Runs : w[r].pc \in Body => w[r].permit
  /\ signal \subseteq Runs /\ lost \subseteq Runs
  /\ free \in 0..Permits
  /\ IsFiniteSet(Holders)
  /\ free + Cardinality(Holders) = Permits

ProcessOK ==
  /\ phase \in {"down", "recover", "up", "gather", "stop", "drain"}
  /\ restarts \in 0..Restarts
  /\ todo \subseteq Runs /\ killed \subseteq Runs

RequestsOK ==
  /\ client \in [Clients -> [pc: {"idle", "planned", "accepting", "made", "done"},
                             run: Runs \cup {Nobody}, queued: BOOLEAN]]
  /\ alarm \subseteq Runs
  /\ queries \in 0..Queries

WatchOK ==
  /\ page \subseteq Runs /\ asked \subseteq Runs
  /\ o \in [Runs -> [pc: ObserverPc, out: Outcomes \cup {"-"}, tries: 0..Attempts]]
  /\ aged \in [Runs -> BOOLEAN]

BudgetOK == budget \in 0..Budget
SendsOK == delivered \in [Runs -> [IntentKeys -> 0..2]]

TypesInv == WorkersOK /\ ProcessOK /\ RequestsOK /\ WatchOK /\ BudgetOK /\ SendsOK

LEMMA TypesGive == TypesInv => ServiceTypeOK /\ PermitsConserved
BY DEF TypesInv, WorkersOK, ProcessOK, RequestsOK, WatchOK, BudgetOK, SendsOK, JobRecord,
       Holders, ServiceTypeOK, PermitsConserved

-----------------------------------------------------------------------------
(* What a step leaves alone keeps its type.                                *)
LEMMA StillWorkers == WorkersOK /\ UNCHANGED workers => WorkersOK'
BY DEF WorkersOK, Holders, workers

LEMMA StillProcess == ProcessOK /\ UNCHANGED process => ProcessOK'
BY DEF ProcessOK, process

LEMMA StillRequests == RequestsOK /\ UNCHANGED requests => RequestsOK'
BY DEF RequestsOK, requests

LEMMA StillWatch == WatchOK /\ UNCHANGED watch => WatchOK'
BY DEF WatchOK, watch

LEMMA StillBudget == BudgetOK /\ (Sound \/ Fault) => BudgetOK'
BY BoundsAssumption DEF BudgetOK, Sound, Fault

LEMMA StillSends == SendsOK /\ UNCHANGED delivered => SendsOK'
BY DEF SendsOK

(* A worker that changes gives its permit back once, when it leaves the    *)
(* body that holds it.                                                     *)
LEMMA BecomesOK ==
  ASSUME WorkersOK, NEW r \in Runs, NEW job \in JobRecord, Becomes(r, job),
         job.permit => w[r].permit /\ job.pc \notin {"none", "slot"},
         job.pc \in Body => job.permit, lost' \subseteq Runs
  PROVE  WorkersOK'
<1>1. w' = [w EXCEPT ![r] = job] /\ w' \in [Runs -> JobRecord]
  BY DEF WorkersOK, Becomes
<1>2. signal' \subseteq Runs
  BY DEF WorkersOK, Becomes
<1>3. Cardinality(Holders) \in Nat
  BY FS_CardinalityType DEF WorkersOK
<1>4. CASE w[r].permit /\ ~job.permit
  <2>1. Holders' = Holders \ {r} /\ r \in Holders
    BY <1>1, <1>4 DEF Holders, WorkersOK, JobRecord
  <2>2. IsFiniteSet(Holders \ {r}) /\ Cardinality(Holders \ {r}) = Cardinality(Holders) - 1
    BY <2>1, FS_RemoveElement DEF WorkersOK
  <2>3. free' = free + 1
    BY <1>4 DEF Becomes
  <2>4. free' + Cardinality(Holders') = Permits
    BY <1>3, <2>1, <2>2, <2>3, BoundsAssumption DEF WorkersOK
  <2>5. Cardinality(Holders \ {r}) \in Nat
    BY <2>2, FS_CardinalityType
  <2>6. free' \in 0..Permits
    BY <2>1, <2>3, <2>4, <2>5, BoundsAssumption DEF WorkersOK
  <2> QED
    BY <1>1, <1>2, <2>1, <2>2, <2>4, <2>6 DEF WorkersOK
<1>5. CASE ~(w[r].permit /\ ~job.permit)
  <2>1. Holders' = Holders
    BY <1>1, <1>5 DEF Holders, WorkersOK, JobRecord
  <2>2. free' = free
    BY <1>5 DEF Becomes
  <2> QED
    BY <1>1, <1>2, <2>1, <2>2 DEF WorkersOK
<1> QED
  BY <1>4, <1>5

(* A permit that is taken leaves the free ones.                            *)
LEMMA AcquireOK ==
  ASSUME TypesInv, NEW r \in Runs, Acquire(r)
  PROVE  WorkersOK'
<1> DEFINE job == Job("read", TRUE, "-")
<1>0. job \in JobRecord /\ job.permit /\ job.pc = "read" /\ ~w[r].permit
  BY BoundsAssumption DEF Job, JobRecord, WorkerPc, Acquire, TypesInv, WorkersOK
<1>1. w' = [w EXCEPT ![r] = job] /\ w' \in [Runs -> JobRecord]
  BY <1>0 DEF TypesInv, WorkersOK, Acquire
<1>. w \in [Runs -> JobRecord]
  BY DEF TypesInv, WorkersOK
<1>2. Holders' = Holders \cup {r} /\ r \notin Holders
  BY <1>0, <1>1 DEF Holders
<1>3. /\ IsFiniteSet(Holders \cup {r})
      /\ Cardinality(Holders \cup {r}) = Cardinality(Holders) + 1
      /\ Cardinality(Holders) \in Nat
  BY <1>2, FS_AddElement, FS_CardinalityType DEF TypesInv, WorkersOK
<1>4. free' = free - 1 /\ free > 0 /\ UNCHANGED <<signal, lost>>
  BY DEF Acquire
<1>5. free' \in 0..Permits /\ free' + Cardinality(Holders') = Permits
  BY <1>2, <1>3, <1>4, BoundsAssumption DEF TypesInv, WorkersOK
<1>6. /\ \A x \in Runs : w'[x].pc \in {"none", "slot"} => ~w'[x].permit
      /\ \A x \in Runs : w'[x].pc \in Body => w'[x].permit
  BY <1>0, <1>1 DEF TypesInv, WorkersOK
<1>7. signal' \subseteq Runs /\ lost' \subseteq Runs
  BY <1>4 DEF TypesInv, WorkersOK
<1>8. IsFiniteSet(Holders')
  BY <1>2, <1>3
<1> QED
  BY <1>1, <1>5, <1>6, <1>7, <1>8, Zenon DEF WorkersOK

LEMMA HandledOK ==
  ASSUME WorkersOK, NEW r \in Runs, NEW pc \in WorkerPc \ Body, NEW out \in Outcomes \cup {"-"},
         Handled(r, pc, out)
  PROVE  WorkersOK'
<1>1. /\ Job(pc, FALSE, out) \in JobRecord /\ ~Job(pc, FALSE, out).permit
      /\ Job(pc, FALSE, out).pc = pc
  BY BoundsAssumption DEF Job, JobRecord
<1> QED
  BY <1>1, BecomesOK DEF Handled, Sets, WorkersOK

LEMMA TurnOK ==
  ASSUME WorkersOK, NEW r \in Runs, NEW pc \in WorkerPc \ {"none", "slot"}, Turn(r, pc),
         pc \in Body => w[r].pc \in Body
  PROVE  WorkersOK'
<1>1. [w[r] EXCEPT !.pc = pc] \in JobRecord
  BY DEF WorkersOK, JobRecord
<1>2. /\ [w[r] EXCEPT !.pc = pc].permit = w[r].permit
      /\ [w[r] EXCEPT !.pc = pc].pc = pc
  BY DEF WorkersOK, JobRecord
<1> QED
  BY <1>1, <1>2, BecomesOK DEF Turn, Sets, WorkersOK

LEMMA NoJobRecord == NoJob \in JobRecord /\ ~NoJob.permit /\ NoJob.pc = "none"
BY BoundsAssumption DEF NoJob, Job, JobRecord, WorkerPc

LEMMA GoneOK ==
  ASSUME WorkersOK, NEW r \in Runs, Leaves(r) \/ Lost(r)
  PROVE  WorkersOK'
<1>1. Becomes(r, NoJob) /\ lost' \subseteq Runs
  BY DEF Leaves, Lost, Sets, WorkersOK
<1> QED
  BY <1>1, NoJobRecord, BecomesOK DEF Body

LEMMA RaisesOK ==
  ASSUME WorkersOK, NEW r \in Runs, Raises(r)
  PROVE  WorkersOK'
BY HandledOK, GoneOK DEF Raises, WorkerPc, Outcomes, Body

-----------------------------------------------------------------------------
(* The types of a step that only moves workers.                            *)
LEMMA WorkerOnly ==
  ASSUME TypesInv, WorkersOK', Apart, Sound \/ Fault, SendsOK'
  PROVE  TypesInv'
BY StillProcess, StillRequests, StillWatch, StillBudget DEF TypesInv, Apart

LEMMA WorkerTypes ==
  ASSUME TypesInv, NEW r \in Runs, WorkerStep(r)
  PROVE  TypesInv'
<1>0. WorkersOK /\ SendsOK
  BY DEF TypesInv
<1> USE <1>0, WorkerOnly, StillSends, RaisesOK
<1>1. CASE Acquire(r)
  BY <1>1, AcquireOK DEF Acquire
<1>2. CASE SlotCancelled(r) \/ SlotTimeout(r) \/ Deadline(r)
  <2>1. Handled(r, "stopGit", "cancelled") \/ Handled(r, "finish", "failed") \/ Interrupted(r)
        => WorkersOK'
    BY HandledOK DEF Interrupted, WorkerPc, Outcomes, Body
  <2> QED
    BY <1>2, <2>1 DEF SlotCancelled, SlotTimeout, Deadline
<1>3. CASE Read(r)
  <2>1. Turn(r, "claim") => WorkersOK'
    BY <1>3, TurnOK DEF WorkerPc, Read, Body
  <2> QED
    BY <1>3, <2>1, GoneOK DEF Read, Call
<1>4. CASE Claim(r)
  <2>1. Turn(r, "run") => WorkersOK'
    BY <1>4, TurnOK DEF WorkerPc, Claim, Body
  <2> QED
    BY <1>4, <2>1 DEF Claim, Call
<1>5. CASE StopFirst(r)
  <2>1. Turn(r, IF w[r].pc = "stopGit" THEN "finish" ELSE "assess") => WorkersOK'
    BY TurnOK DEF WorkerPc, Body
  <2> QED
    BY <1>5, <2>1 DEF StopFirst, Call
<1>6. CASE Assess(r)
  <2>1. (IF Remote(r) THEN "unknown" ELSE w[r].out) \in Outcomes \cup {"-"}
    BY DEF WorkersOK, JobRecord, Outcomes
  <2>2. Sets(r, Job("finish", FALSE, IF Remote(r) THEN "unknown" ELSE w[r].out)) => WorkersOK'
    BY <2>1, HandledOK DEF Handled, WorkerPc, Body
  <2> QED
    BY <1>6, <2>2 DEF Assess, Call
<1>7. CASE Finish(r)
  <2>1. Turn(r, "decide") => WorkersOK'
    BY TurnOK DEF WorkerPc, Body
  <2> QED
    BY <1>7, <2>1, GoneOK DEF Finish, Call
<1>8. CASE Decide(r)
  <2>1. Sets(r, Job("note", w[r].permit, "-")) => WorkersOK'
    <3> DEFINE job == Job("note", w[r].permit, "-")
    <3>1. job \in JobRecord /\ job.permit = w[r].permit /\ job.pc = "note"
      BY BoundsAssumption DEF Job, JobRecord, WorkersOK, WorkerPc
    <3> QED
      BY <3>1, BecomesOK DEF Sets, WorkersOK, Body
  <2>2. /\ w[r].tries + 1 < Attempts
        /\ Sets(r, [w[r] EXCEPT !.pc = "finish", !.tries = @ + 1])
        => WorkersOK'
    <3> DEFINE job == [w[r] EXCEPT !.pc = "finish", !.tries = @ + 1]
    <3>0. w[r] \in JobRecord
      BY DEF WorkersOK
    <3>1. w[r].tries + 1 < Attempts => w[r].tries + 1 \in 0..Attempts
      BY <3>0, BoundsAssumption DEF JobRecord
    <3>2. job.permit = w[r].permit /\ job.pc = "finish"
      BY <3>0 DEF JobRecord
    <3>3. w[r].tries + 1 < Attempts => job \in JobRecord
      BY <3>0, <3>1 DEF JobRecord, WorkerPc
    <3> QED
      BY <3>2, <3>3, BecomesOK DEF Sets, WorkersOK, Body
  <2> QED
    BY <1>8, <2>1, <2>2 DEF Decide, Call
<1>9. CASE Note(r)
  BY <1>9, GoneOK DEF Note, Call
<1> QED
  BY <1>1, <1>2, <1>3, <1>4, <1>5, <1>6, <1>7, <1>8, <1>9 DEF WorkerStep

LEMMA ExecutorTypes ==
  ASSUME TypesInv, NEW r \in Runs, ExecutorStep(r)
  PROVE  TypesInv'
<1>0. WorkersOK /\ SendsOK
  BY DEF TypesInv
<1> USE <1>0, WorkerOnly, StillSends, StillWorkers, RaisesOK
<1>1. ASSUME NEW s \in Steps, NEW ids \in SUBSET Ids, ExecCheckpoint(r, s, ids)
      PROVE  TypesInv'
  BY <1>1 DEF ExecCheckpoint, Call
<1>2. ASSUME NEW s \in Steps, NEW st \in Results, ExecFinishStep(r, s, st)
      PROVE  TypesInv'
  BY <1>2 DEF ExecFinishStep, Call
<1>3. ASSUME NEW k \in IntentKeys, NEW ids \in SUBSET Ids, ExecIntent(r, k, ids)
      PROVE  TypesInv'
  <2> DEFINE job == [w[r] EXCEPT !.pc = "send", !.key = k]
  <2>1. w[r] \in JobRecord /\ w[r].permit
    BY <1>3 DEF ExecIntent, WorkersOK, Body
  <2>3. job \in JobRecord /\ job.permit /\ job.pc = "send"
    BY <2>1 DEF JobRecord, WorkerPc
  <2>2. Sets(r, job) => WorkersOK'
    BY <2>1, <2>3, BecomesOK DEF Sets, WorkersOK
  <2> QED
    BY <1>3, <2>2 DEF ExecIntent, Call
<1>4. CASE ExecSend(r)
  <2>1. WorkersOK'
    BY <1>4, TurnOK DEF ExecSend, WorkerPc, Body
  <2>2. SendsOK'
    <3> DEFINE k == w[r].key
    <3>1. delivered' = [delivered EXCEPT ![r][k] = @ + 1] /\ delivered[r][k] < 2
      BY <1>4 DEF ExecSend
    <3> HIDE DEF k
    <3>2. CASE k \in IntentKeys
      <4>1. delivered[r][k] + 1 \in 0..2 /\ delivered[r] \in [IntentKeys -> 0..2]
        BY <3>1, <3>2 DEF SendsOK
      <4>2. [delivered[r] EXCEPT ![k] = @ + 1] \in [IntentKeys -> 0..2]
        BY <3>2, <4>1
      <4> QED
        BY <3>1, <4>2 DEF SendsOK
    <3>3. CASE k \notin IntentKeys
      <4>1. [delivered[r] EXCEPT ![k] = @ + 1] = delivered[r] /\ delivered[r] \in [IntentKeys -> 0..2]
        BY <3>3 DEF SendsOK
      <4> QED
        BY <3>1, <4>1 DEF SendsOK
    <3> QED
      BY <3>2, <3>3
  <2> QED
    BY <1>4, <2>1, <2>2 DEF ExecSend
<1>5. ASSUME NEW st \in ReceiptState, NEW id \in Ids \cup {NoId}, ExecReceipt(r, st, id)
      PROVE  TypesInv'
  <2>1. Turn(r, "run") => WorkersOK'
    BY <1>5, TurnOK DEF ExecReceipt, WorkerPc, Body
  <2> QED
    BY <1>5, <2>1 DEF ExecReceipt, Call
<1>6. ASSUME NEW why \in {"user", "timeout"}, ExecStop(r, why)
      PROVE  TypesInv'
  <2>1. signal' = signal \cup {r} /\ UNCHANGED <<w, free, lost>> => WorkersOK'
    BY DEF WorkersOK, Holders
  <2> QED
    BY <1>6, <2>1 DEF ExecStop, Call
<1>7. ASSUME NEW out \in Verdicts, ExecReturns(r, out)
      PROVE  TypesInv'
  <2> DEFINE job == Job("finish", TRUE, out)
  <2>1. out \in Outcomes
    BY ResultsAssumption DEF Outcomes
  <2>2. job \in JobRecord /\ job.permit /\ job.pc = "finish"
    BY <2>1, BoundsAssumption DEF Job, JobRecord, WorkerPc
  <2>3. w[r].permit /\ Becomes(r, job) /\ lost' \subseteq Runs
    BY <1>7 DEF ExecReturns, Sets, WorkersOK, Body
  <2> QED
    BY <1>7, <2>2, <2>3, BecomesOK DEF ExecReturns
<1>8. ASSUME NEW out \in Verdicts, ExecGitFails(r, out)
      PROVE  TypesInv'
  <2>1. Handled(r, IF out = "cancelled" THEN "stopGit" ELSE "finish", out) => WorkersOK'
    BY HandledOK, ResultsAssumption DEF WorkerPc, Outcomes, Body
  <2> QED
    BY <1>8, <2>1 DEF ExecGitFails
<1>9. CASE ExecRaises(r) 
  BY <1>9 DEF ExecRaises
<1> QED
  BY <1>1, <1>2, <1>3, <1>4, <1>5, <1>6, <1>7, <1>8, <1>9 DEF ExecutorStep

LEMMA ClientTypes == TypesInv /\ ClientStep => TypesInv'
<1> SUFFICES ASSUME TypesInv, NEW a \in Clients,
                    Lookup(a) \/ Enter(a) \/ Accept(a) \/ Spawn(a)
             PROVE  TypesInv'
  BY DEF ClientStep
<1>0. WorkersOK /\ RequestsOK
  BY DEF TypesInv
<1>1. /\ UNCHANGED <<process, watch, delivered, alarm, queries>> /\ (Sound \/ Fault)
      /\ UNCHANGED workers \/ Spawn(a)
  BY DEF Lookup, Enter, Accept, AcceptRefused, AcceptServed, AcceptCreates, Spawn,
         OtherThanClients
<1>3. RequestsOK'
  <2>1. ASSUME NEW pc \in {"planned", "accepting", "made", "done"}, Goes(a, pc)
        PROVE  RequestsOK'
    BY <1>0, <1>1, <2>1 DEF RequestsOK, Goes
  <2>2. ASSUME NEW r \in Runs, NEW b \in BOOLEAN, Made(a, r, b)
        PROVE  RequestsOK'
    BY <1>0, <1>1, <2>2 DEF RequestsOK, Made
  <2>3. CASE Lookup(a) \/ Enter(a) \/ Spawn(a) \/ AcceptRefused(a)
    BY <2>1, <2>3 DEF Lookup, Enter, Spawn, AcceptRefused
  <2>4. CASE AcceptServed(a)
    BY <2>1, <2>2, <2>4 DEF AcceptServed, Prior
  <2>5. CASE AcceptCreates(a)
    BY <2>1, <2>2, <2>5 DEF AcceptCreates
  <2> QED
    BY <2>3, <2>4, <2>5 DEF Accept
<1>4. WorkersOK'
  <2>1. CASE UNCHANGED workers
    BY <1>0, <2>1, StillWorkers
  <2>2. CASE Spawn(a) /\ ~UNCHANGED workers
    <3> DEFINE r == client[a].run
    <3>1. /\ ~Alive(r)
          /\ w' = [w EXCEPT ![r] = Job("slot", FALSE, "-")]
          /\ UNCHANGED <<free, signal, lost>>
      BY <2>2 DEF Spawn
    <3>2. Job("slot", FALSE, "-") \in JobRecord
      BY BoundsAssumption DEF Job, JobRecord, WorkerPc
    <3> HIDE DEF r
    <3>3. w \in [Runs -> JobRecord] /\ w' \in [Runs -> JobRecord]
      BY <1>0, <3>1, <3>2 DEF WorkersOK
    <3>4. r \in Runs => ~w[r].permit
      BY <1>0, <3>1 DEF WorkersOK, Alive
    <3>5. \A x \in Runs : w'[x] = w[x] \/ (x = r /\ w'[x] = Job("slot", FALSE, "-"))
      BY <3>1, <3>3
    <3>6. r \in Runs => ~w[r].permit /\ ~Job("slot", FALSE, "-").permit
      BY <3>4 DEF Job
    <3>7. Holders' = Holders
      BY <3>5, <3>6 DEF Holders
    <3>8. /\ \A x \in Runs : w'[x].pc \in {"none", "slot"} => ~w'[x].permit
          /\ \A x \in Runs : w'[x].pc \in Body => w'[x].permit
      BY <1>0, <3>5 DEF WorkersOK, Job, Body
    <3>9. /\ free' \in 0..Permits /\ IsFiniteSet(Holders')
          /\ free' + Cardinality(Holders') = Permits
          /\ signal' \subseteq Runs /\ lost' \subseteq Runs
      BY <1>0, <3>1, <3>7 DEF WorkersOK
    <3> QED
      BY <3>3, <3>8, <3>9, Zenon DEF WorkersOK
  <2> QED
    BY <1>1, <2>1, <2>2
<1>5. ProcessOK' /\ WatchOK' /\ BudgetOK' /\ SendsOK'
  BY <1>1, StillProcess, StillWatch, StillBudget, StillSends DEF TypesInv
<1> QED
  BY <1>3, <1>4, <1>5 DEF TypesInv

(* The steps of the API, of the recovery loop, of the observers and of the *)
(* executors' queries leave the workers alone.                             *)
LEMMA RecoveryTypes ==
  ASSUME TypesInv, NEW r \in Runs,
         ApiCancel(r) \/ Ring(r) \/ ApiReconcile(r) \/ Ages(r) \/ LoopStep(r)
  PROVE  TypesInv'
<1> USE DEF TypesInv
<1>1. CASE ApiCancel(r)
  BY <1>1, StillProcess, StillWorkers, StillWatch, StillBudget, StillSends
     DEF ApiCancel, Call, RaiseAlarm, RequestsOK
<1>2. CASE Ring(r)
  <2>1. WorkersOK' /\ RequestsOK'
    BY <1>2 DEF Ring, WorkersOK, RequestsOK, Holders
  <2> QED
    BY <1>2, <2>1, StillProcess, StillWatch, StillBudget, StillSends DEF Ring
<1>3. CASE ApiReconcile(r)
  <2>1. RequestsOK' /\ WatchOK'
    BY <1>3, BoundsAssumption DEF ApiReconcile, RequestsOK, WatchOK
  <2> QED
    BY <1>3, <2>1, StillProcess, StillWorkers, StillBudget, StillSends DEF ApiReconcile
<1>4. CASE Ages(r) \/ LoopReconciles(r)
  <2>1. WatchOK'
    BY <1>4 DEF Ages, LoopReconciles, WatchOK
  <2> QED
    BY <1>4, <2>1, StillProcess, StillRequests, StillWorkers, StillBudget, StillSends
       DEF Ages, LoopReconciles
<1>5. CASE LoopRecovers(r)
  <2>1. WorkersOK'
    BY <1>5 DEF LoopRecovers, Call, WorkersOK, Holders
  <2> QED
    BY <1>5, <2>1, StillProcess, StillRequests, StillWatch, StillBudget, StillSends
       DEF LoopRecovers, Call
<1>6. CASE LoopLists(r)
  <2>1. WatchOK'
    BY <1>6 DEF LoopLists, WatchOK
  <2> QED
    BY <1>6, <2>1, StillProcess, StillRequests, StillWorkers, StillBudget, StillSends
       DEF LoopLists
<1>7. CASE LoopEscalates(r)
  <2>1. WatchOK'
    BY <1>7 DEF LoopEscalates, Call, WatchOK
  <2> QED
    BY <1>7, <2>1, StillProcess, StillRequests, StillWorkers, StillBudget, StillSends
       DEF LoopEscalates, Call
<1> QED
  BY <1>1, <1>2, <1>3, <1>4, <1>5, <1>6, <1>7 DEF LoopStep

LEMMA LookTypes ==
  ASSUME TypesInv, NEW r \in Runs, ObserverStep(r) \/ QueryStep(r)
  PROVE  TypesInv'
<1> USE DEF TypesInv
<1>1. ASSUME WatchOK', UNCHANGED <<process, requests, workers, delivered>>, Sound \/ Fault
      PROVE  TypesInv'
  BY <1>1, StillProcess, StillRequests, StillWorkers, StillBudget, StillSends
<1>2. ASSUME NEW pc \in ObserverPc, Puts(r, pc) \/ Glance(r, pc) \/ Departs(r) \/ UNCHANGED o, Aside
      PROVE  WatchOK'
  <2>1. Look(pc, "-", 0) \in [pc: ObserverPc, out: Outcomes \cup {"-"}, tries: 0..Attempts]
    BY BoundsAssumption DEF Look
  <2>2. NoLook \in [pc: ObserverPc, out: Outcomes \cup {"-"}, tries: 0..Attempts]
    BY BoundsAssumption DEF Look, NoLook, ObserverPc
  <2>3. o' \in [Runs -> [pc: ObserverPc, out: Outcomes \cup {"-"}, tries: 0..Attempts]]
    BY <1>2, <2>1, <2>2 DEF Puts, Glance, Departs, WatchOK
  <2> QED
    BY <1>2, <2>3 DEF WatchOK, Aside
<1>3. {"none", "open", "look", "finish", "decide", "note", "sorry"} = ObserverPc
  BY DEF ObserverPc
<1>4. CASE ObsBegins(r)
  <2>1. Look("open", "-", 0) \in [pc: ObserverPc, out: Outcomes \cup {"-"}, tries: 0..Attempts]
    BY BoundsAssumption DEF Look, ObserverPc
  <2>2. WatchOK'
    BY <1>4, <2>1 DEF ObsBegins, WatchOK
  <2> QED
    BY <1>1, <1>4, <2>2 DEF ObsBegins
<1>5. CASE ObsOpens(r) \/ ObsReads(r) \/ ObsNotes(r) \/ ObsTimeout(r) \/ ObsApologises(r)
  <2>1. WatchOK'
    BY <1>2, <1>3, <1>5 DEF ObsOpens, ObsReads, ObsNotes, ObsTimeout, ObsApologises, Call
  <2> QED
    BY <1>1, <1>5, <2>1 DEF ObsOpens, ObsReads, ObsNotes, ObsTimeout, ObsApologises, Call, Aside
<1>6. CASE ObsDecides(r)
  <2>1. CASE UNCHANGED o \/ Puts(r, "note") \/ Puts(r, "sorry")
    <3>1. WatchOK'
      BY <1>2, <1>3, <1>6, <2>1 DEF ObsDecides
    <3> QED
      BY <1>1, <1>6, <3>1 DEF ObsDecides, Call, Aside
  <2>2. CASE o' = [o EXCEPT ![r] = IF @.tries + 1 < Attempts
                                     THEN Look("finish", @.out, @.tries + 1)
                                     ELSE Look("sorry", "-", 0)]
    <3>1. o[r].tries + 1 < Attempts => o[r].tries + 1 \in 0..Attempts
      BY BoundsAssumption DEF WatchOK
    <3>2. (IF o[r].tries + 1 < Attempts THEN Look("finish", o[r].out, o[r].tries + 1)
           ELSE Look("sorry", "-", 0))
          \in [pc: ObserverPc, out: Outcomes \cup {"-"}, tries: 0..Attempts]
      BY <3>1, BoundsAssumption DEF WatchOK, Look, ObserverPc
    <3>3. WatchOK'
      BY <1>6, <2>2, <3>2 DEF WatchOK, ObsDecides, Aside
    <3> QED
      BY <1>1, <1>6, <3>3 DEF ObsDecides, Call, Aside
  <2> QED
    BY <1>6, <2>1, <2>2 DEF ObsDecides, Call
<1>7. ASSUME NEW k \in IntentKeys, NEW id \in Ids \cup {NoId}, ObsReceipt(r, k, id)
      PROVE  TypesInv'
  <2>1. WatchOK'
    BY <1>2, <1>3, <1>7 DEF ObsReceipt, Call
  <2> QED
    BY <1>1, <1>7, <2>1 DEF ObsReceipt, Call, Aside
<1>8. ASSUME NEW s \in Steps, ObsFinishStep(r, s)
      PROVE  TypesInv'
  <2>1. WatchOK'
    BY <1>2, <1>3, <1>8 DEF ObsFinishStep, Call
  <2> QED
    BY <1>1, <1>8, <2>1 DEF ObsFinishStep, Call, Aside
<1>9. ASSUME NEW out \in Findings, ObsReturns(r, out)
      PROVE  TypesInv'
  <2>1. Look("finish", out, 0) \in [pc: ObserverPc, out: Outcomes \cup {"-"}, tries: 0..Attempts]
    BY ResultsAssumption, BoundsAssumption DEF Look, ObserverPc, Outcomes
  <2>2. WatchOK'
    BY <1>9, <2>1 DEF ObsReturns, WatchOK, Aside
  <2> QED
    BY <1>1, <1>9, <2>2 DEF ObsReturns, Aside
<1> QED
  BY <1>4, <1>5, <1>6, <1>7, <1>8, <1>9 DEF ObserverStep, QueryStep

(* A process that ends leaves every permit free.                           *)
LEMMA VanishTypes == TypesInv /\ Vanishes /\ (Sound \/ Fault) /\ restarts' \in 0..Restarts => TypesInv'
<1> SUFFICES ASSUME TypesInv, Vanishes, Sound \/ Fault, restarts' \in 0..Restarts
             PROVE  TypesInv'
  OBVIOUS
<1>1. WorkersOK'
  <2>1. w' \in [Runs -> JobRecord] /\ \A r \in Runs : w'[r].pc = "none" /\ ~w'[r].permit
    BY NoJobRecord DEF Vanishes
  <2>2. Holders' = {}
    BY <2>1 DEF Holders
  <2>3. /\ free' \in 0..Permits /\ IsFiniteSet(Holders')
        /\ free' + Cardinality(Holders') = Permits
    BY <2>2, FS_EmptySet, BoundsAssumption DEF Vanishes
  <2>4. /\ \A r \in Runs : w'[r].pc \in {"none", "slot"} => ~w'[r].permit
        /\ \A r \in Runs : w'[r].pc \in Body => w'[r].permit
    BY <2>1 DEF Body
  <2>5. signal' \subseteq Runs /\ lost' \subseteq Runs
    BY DEF Vanishes
  <2> QED
    BY <2>1, <2>3, <2>4, <2>5, Zenon DEF WorkersOK
<1>2. ProcessOK'
  BY DEF TypesInv, Vanishes, ProcessOK
<1>4. RequestsOK'
  BY DEF TypesInv, Vanishes, RequestsOK, NoStart
<1>5. WatchOK'
  <2>1. NoLook \in [pc: ObserverPc, out: Outcomes \cup {"-"}, tries: 0..Attempts]
    BY BoundsAssumption DEF Look, NoLook, ObserverPc
  <2> QED
    BY <2>1 DEF TypesInv, Vanishes, WatchOK
<1>3. BudgetOK' /\ SendsOK'
  BY StillBudget, StillSends DEF TypesInv, Vanishes
<1> QED
  BY <1>1, <1>2, <1>3, <1>4, <1>5 DEF TypesInv

LEMMA ProcessTypes ==
  ASSUME TypesInv, BootStep \/ CloseStep \/ Kill \/ StoreFails \/ CloseBegins
  PROVE  TypesInv'
<1> USE DEF TypesInv
<1>0. restarts \in 0..Restarts /\ (restarts > 0 => restarts - 1 \in 0..Restarts)
  BY BoundsAssumption DEF ProcessOK
<1>1. ASSUME ProcessOK', UNCHANGED <<requests, workers, watch, delivered>>, Sound \/ Fault
      PROVE  TypesInv'
  BY <1>1, StillRequests, StillWorkers, StillWatch, StillBudget, StillSends
<1>2. CASE Boot \/ BootDone \/ CloseBegins \/ CloseDrains
  <2>1. ProcessOK'
    BY <1>0, <1>2 DEF Boot, BootDone, CloseBegins, CloseDrains, ProcessOK
  <2> QED
    BY <1>1, <1>2, <2>1 DEF Boot, BootDone, CloseBegins, CloseDrains
<1>3. ASSUME NEW r \in Runs, BootRecovers(r)
      PROVE  TypesInv'
  <2>1. ProcessOK'
    BY <1>3 DEF BootRecovers, ProcessOK
  <2> QED
    BY <1>1, <1>3, <2>1 DEF BootRecovers
<1>4. CASE BootFails \/ Kill \/ CloseDone
  BY <1>0, <1>4, VanishTypes DEF BootFails, Kill, CloseDone
<1>5. CASE StoreFails
  BY <1>1, <1>5, StillProcess DEF StoreFails
<1>6. CASE CloseGathers
  <2>1. ProcessOK' /\ WatchOK'
    BY <1>6 DEF CloseGathers, ProcessOK, WatchOK
  <2> QED
    BY <1>6, <2>1, StillRequests, StillWorkers, StillBudget, StillSends DEF CloseGathers
<1>7. ASSUME NEW r \in Runs, CloseStops(r)
      PROVE  TypesInv'
  <2>1. ProcessOK' /\ RequestsOK'
    BY <1>7 DEF CloseStops, RaiseAlarm, ProcessOK, RequestsOK
  <2> QED
    BY <1>7, <2>1, StillWorkers, StillWatch, StillBudget, StillSends DEF CloseStops, Call
<1>8. ASSUME NEW r \in Runs, CloseCancels(r)
      PROVE  TypesInv'
  <2>1. Interrupted(r) => WorkersOK'
    BY HandledOK DEF Interrupted, WorkerPc, Outcomes, Body
  <2>2. WorkersOK' /\ ProcessOK'
    BY <1>8, <2>1, GoneOK DEF CloseCancels, ProcessOK
  <2> QED
    BY <1>8, <2>2, StillRequests, StillWatch, StillBudget, StillSends DEF CloseCancels
<1>9. ASSUME NEW r \in Runs, CloseCancelsObserver(r)
      PROVE  TypesInv'
  <2>1. NoLook \in [pc: ObserverPc, out: Outcomes \cup {"-"}, tries: 0..Attempts]
    BY BoundsAssumption DEF Look, NoLook, ObserverPc
  <2>2. WatchOK'
    BY <1>9, <2>1 DEF CloseCancelsObserver, Departs, Aside, WatchOK
  <2> QED
    BY <1>9, <2>2, StillProcess, StillRequests, StillWorkers, StillBudget, StillSends
       DEF CloseCancelsObserver, Aside
<1> QED
  BY <1>2, <1>3, <1>4, <1>5, <1>6, <1>7, <1>8, <1>9 DEF BootStep, CloseStep

LEMMA TypesStart == ServiceInit => TypesInv
<1> SUFFICES ASSUME ServiceInit PROVE TypesInv
  OBVIOUS
<1>1. w \in [Runs -> JobRecord] /\ \A r \in Runs : w[r].pc = "none" /\ ~w[r].permit
  BY NoJobRecord DEF ServiceInit
<1>2. Holders = {}
  BY <1>1 DEF Holders
<1>3. WorkersOK
  BY <1>1, <1>2, FS_EmptySet, BoundsAssumption DEF ServiceInit, WorkersOK, Body
<1>4. ProcessOK /\ RequestsOK /\ BudgetOK
  BY BoundsAssumption DEF ServiceInit, ProcessOK, RequestsOK, BudgetOK, NoStart
<1>5. WatchOK /\ SendsOK
  BY BoundsAssumption DEF ServiceInit, WatchOK, SendsOK, NoLook, Look, ObserverPc
<1> QED
  BY <1>3, <1>4, <1>5 DEF TypesInv

LEMMA TypesKept == TypesInv /\ [ServiceNext]_svars => TypesInv'
<1>1. TypesInv /\ UNCHANGED svars => TypesInv'
  BY StillProcess, StillRequests, StillWorkers, StillWatch, StillSends DEF TypesInv, svars, BudgetOK
<1>2. TypesInv /\ ServiceNext => TypesInv'
  BY ClientTypes, WorkerTypes, ExecutorTypes, RecoveryTypes, LookTypes, ProcessTypes
     DEF ServiceNext
<1> QED
  BY <1>1, <1>2

(* Every variable of the service keeps its type, whatever fails and in     *)
(* whatever order the coroutines run.                                      *)
THEOREM ServiceTypes == ServiceSpec => []ServiceTypeOK
<1> QED
  BY TypesStart, TypesKept, TypesGive, PTL DEF ServiceSpec

(* A permit of the semaphore is free or with one worker: none is lost and  *)
(* none is given back twice, whatever ended the worker that had it.        *)
THEOREM PermitsKept == ServiceSpec => []PermitsConserved
<1> QED
  BY TypesStart, TypesKept, TypesGive, PTL DEF ServiceSpec

-----------------------------------------------------------------------------
(***************************************************************************)
(* Who answers for a run: through failures, crashes, shutdowns and         *)
(* restarts, a run under way has a worker, a caller about to start one, or *)
(* a place in the list of the recovery; and, while no call of the journal  *)
(* has failed, nobody recovers a run under a worker that executes it.      *)
(*                                                                         *)
(* None of this is inductive by itself.  A worker that finds its run taken *)
(* leaves it to whoever took it, so the invariant must know where a worker *)
(* stands on a run that is still queued, that an observer or the recovery  *)
(* only ever holds a run that is past its execution, and that nothing at   *)
(* all is under way before the process serves or after it is gone.         *)
(***************************************************************************)

(* Past its execution; not concluded; a worker on its way out.             *)
Past      == {"unknown"} \cup Terminal
UnderWay  == {"queued", "running", "cancelling"}
Handling  == {"stopGit", "stopTimeout", "assess", "finish", "decide"}

(* A client has been told of the run; it is about to give it a worker.     *)
Promised(r) == \E a \in Clients : client[a].pc = "made" /\ client[a].run = r
Owed(r)     == \E a \in Clients : client[a] = [pc |-> "made", run |-> r, queued |-> TRUE]

-----------------------------------------------------------------------------
(* Nobody is at work: no client, worker, observer or list of the recovery. *)
Resting ==
  /\ \A a \in Clients : client[a].pc \in {"idle", "done"}
  /\ \A r \in Runs : ~Alive(r) /\ o[r].pc = "none"
  /\ lost = {} /\ asked = {} /\ page = {}

ProcessInv ==
  /\ phase \in {"down", "recover"} \/ ~Readable => Resting
  /\ budget = Budget => store # "failed"
  /\ phase = "recover" => \A r \in Runs : status[r] \in UnderWay => r \in todo
  /\ phase \in {"stop", "drain"} => \A a \in Clients : client[a].pc \notin {"accepting", "made"}
  /\ phase = "drain" => todo = {}

(* Whoever holds a run knows that it exists, and how far it can be.        *)
Known(r) ==
  /\ Alive(r) \/ r \in lost \/ Promised(r) => status[r] # "absent"
  /\ r \in asked \/ r \in page \/ o[r].pc # "none" \/ w[r].pc = "note" => status[r] \in Past
  /\ Executing(r) => status[r] # "queued"
  /\ status[r] \in {"absent", "queued"} => \A s \in Steps : seen[r][s] = {}
  /\ status[r] = "absent" => request[r].id = None

(* A run that was claimed has a worker or is lost; a worker that has not   *)
(* claimed it meets it only if an earlier worker lost it.                  *)
Owned(r) ==
  /\ Serving /\ Readable /\ status[r] \in {"running", "cancelling"} => Alive(r) \/ r \in lost
  /\ w[r].pc \in {"slot", "read"} /\ status[r] \in {"running", "cancelling"} => r \in lost

(* A worker on its way out of a queued run will be able to close it.       *)
Waiting(r) ==
  status[r] = "queued" =>
    /\ w[r].pc \in Handling => w[r].out \in {"failed", "cancelled"}
    /\ w[r].pc = "decide" => "worker" \in fresh[r]

(* As long as no call of the journal has failed.                           *)
Faultless(r) ==
  budget = Budget =>
    /\ r \in lost => status[r] # "queued"
    /\ Executing(r) => status[r] \in {"running", "cancelling"} /\ r \notin lost
    /\ phase \in {"stop", "drain"} /\ Alive(r) /\ status[r] \in UnderWay =>
         Stopped(r) \/ r \in todo
    /\ Serving /\ Readable /\ status[r] = "queued" => Alive(r) \/ Owed(r)

RunInv(r) == Known(r) /\ Owned(r) /\ Waiting(r) /\ Faultless(r)
OwnInv == ProcessInv /\ \A r \in Runs : RunInv(r)

-----------------------------------------------------------------------------
(* What no step of the journal does to the status of a run.                *)
Forward(x) ==
  /\ status[x] # "absent" => status'[x] # "absent"
  /\ status[x] \in Past => status'[x] \in Past
  /\ status[x] \in {"running", "cancelling"} => status'[x] \notin {"absent", "queued"}
  /\ status'[x] = "queued" => status[x] \in {"absent", "queued"}
  /\ stop[x] # "none" => stop'[x] # "none"

LEMMA StatusSplit ==
  ASSUME TypeOK, NEW r \in Runs
  PROVE  /\ status[r] \in {"absent", "queued", "running", "cancelling"} \cup Past
         /\ status[r] \in Past => status[r] \notin {"absent", "queued", "running", "cancelling"}
BY DEF TypeOK, Status, Active, Past, Terminal

LEMMA ForwardStep ==
  ASSUME IInv, [Next]_jvars, NEW x \in Runs
  PROVE  Forward(x)
<1>0. TypeOK
  BY DEF IInv
<1>1. CASE UNCHANGED journal
  BY <1>0, <1>1, StatusSplit DEF journal, Forward
<1>2. ASSUME NEW r \in Runs,
             Creates(r) \/ Moves(r) \/ Cancels(r) \/ StepChanges(r) \/ EffectBegins(r)
               \/ EffectSettles(r)
      PROVE  Forward(x)
  <2>1. CASE x # r
    <3>1. status'[x] = status[x] /\ stop'[x] = stop[x]
      BY <1>2, <2>1, OthersKept
    <3> QED
      BY <1>0, <3>1, StatusSplit DEF Forward
  <2>2. CASE x = r /\ Creates(r)
    BY <1>0, <2>2 DEF Creates, Create, Forward, TypeOK, Past, Terminal
  <2>3. CASE x = r /\ Moves(r)
    <3>1. PICK s \in Status \ {"queued"}, rec \in Recovery \cup {"keep"} : SetStatus(r, s, rec)
      BY <2>3 DEF Moves
    <3>2. status'[r] = s /\ stop' = stop /\ <<status[r], s>> \in Transitions
      BY <1>0, <3>1 DEF SetStatus, TransitionOK, TypeOK
    <3>3. s # "absent"
      BY StatusFacts
    <3>4. status[r] \in Past => s \in Past
      BY <3>2 DEF Transitions, Past, Terminal
    <3> QED
      BY <2>3, <3>2, <3>3, <3>4 DEF Forward
  <2>4. CASE x = r /\ Cancels(r)
    <3>1. PICK why \in Reasons : Cancel(r, why)
      BY <2>4 DEF Cancels
    <3>2. /\ status'[r] = CancelStatus(status[r]) /\ stop'[r] = why /\ why # "none"
          /\ status[r] \in Active
      BY <1>0, <3>1 DEF Cancel, CancelOK, ActiveRun, TypeOK, Reasons
    <3> QED
      BY <2>4, <3>2 DEF Forward, CancelStatus, Active, Past, Terminal
  <2>5. CASE x = r /\ (StepChanges(r) \/ EffectBegins(r) \/ EffectSettles(r))
    <3>1. UNCHANGED <<status, stop>>
      BY <2>5 DEF StepChanges, Checkpoint, FinishStep, EffectBegins, Intent, EffectSettles, Receipt
    <3> QED
      BY <1>0, <3>1, StatusSplit DEF Forward
  <2> QED
    BY <1>2, <2>1, <2>2, <2>3, <2>4, <2>5
<1> QED
  BY <1>1, <1>2, StepCases

-----------------------------------------------------------------------------
(* A run that a step does not concern keeps its invariant.                 *)
Same(x) ==
  /\ status'[x] = status[x] /\ stop'[x] = stop[x] /\ seen'[x] = seen[x]
  /\ request'[x] = request[x] /\ fresh'[x] = fresh[x] /\ w'[x] = w[x]
  /\ x \in lost' <=> x \in lost
  /\ (x \in asked' => x \in asked) /\ (x \in page' => x \in page)
  /\ o'[x].pc # "none" => o[x].pc # "none"
  /\ x \in todo => x \in todo'
  /\ (Promised(x)' => Promised(x)) /\ (Owed(x) => Owed(x)')

Steady ==
  /\ phase' = phase
  /\ Readable' <=> Readable
  /\ budget' = Budget => budget = Budget

LEMMA SameKeeps ==
  ASSUME NEW x \in Runs, RunInv(x), Same(x), Steady
  PROVE  RunInv(x)'
<1> USE DEF Same, Steady
<1>1. Known(x)'
  BY DEF RunInv, Known, Alive, Executing
<1>2. Owned(x)'
  BY DEF RunInv, Owned, Alive, Serving
<1>3. Waiting(x)'
  BY DEF RunInv, Waiting
<1>4. Faultless(x)'
  BY DEF RunInv, Faultless, Alive, Executing, Stopped, Serving
<1> QED
  BY <1>1, <1>2, <1>3, <1>4 DEF RunInv

(* The journal's rows of one run, the worker of one run.                   *)
Alone(r) ==
  \A x \in Runs \ {r} : /\ status'[x] = status[x] /\ stop'[x] = stop[x] /\ seen'[x] = seen[x]
                        /\ request'[x] = request[x] /\ fresh'[x] = fresh[x]

Stirs(r) ==
  /\ \A x \in Runs \ {r} : w'[x] = w[x] /\ (x \in lost' <=> x \in lost)
  /\ r \in lost => r \in lost'

Spends == budget' = Budget => budget = Budget

LEMMA SpendsLess == BudgetOK /\ (Sound \/ Fault) => Spends /\ (Fault => budget' # Budget)
BY BoundsAssumption DEF BudgetOK, Sound, Fault, Spends

-----------------------------------------------------------------------------
(* What every step may assume.                                             *)
Ready ==
  /\ TypesInv /\ TypesInv' /\ IInv /\ OwnInv
  /\ \A x \in Runs : Forward(x)

LEMMA ReadyFacts ==
  ASSUME Ready, NEW r \in Runs
  PROVE  /\ TypeOK /\ RunInv(r) /\ Forward(r) /\ ProcessInv /\ BudgetOK
         /\ w \in [Runs -> JobRecord] /\ w' \in [Runs -> JobRecord]
         /\ status[r] = "queued" => Effects(r) = {} /\ ~Stopped(r)
BY DEF Ready, TypesInv, WorkersOK, IInv, OwnInv, QueuedUntouched

(* A step of the worker of r, or of its executor.                          *)
WorkerMove(r) ==
  /\ UNCHANGED <<phase, todo, client, asked, page, o>> /\ (Sound \/ Fault) /\ store' = store
  /\ Alone(r) /\ Stirs(r)
  /\ request'[r] = request[r]
  /\ seen'[r] = seen[r] \/ status[r] \notin {"absent", "queued"}

(* Where such a step must leave its run.                                   *)
Outcome(r) ==
  /\ w'[r].pc = "note" => status'[r] \in Past
  /\ Executing(r)' => /\ status'[r] # "queued"
                      /\ budget' = Budget => status'[r] \in {"running", "cancelling"} /\ r \notin lost'
  /\ status'[r] \in {"running", "cancelling"} => Alive(r)' \/ r \in lost'
  /\ w'[r].pc \in {"slot", "read"} /\ status'[r] \in {"running", "cancelling"} => r \in lost'
  /\ status'[r] = "queued" => /\ w'[r].pc \in Handling => w'[r].out \in {"failed", "cancelled"}
                              /\ w'[r].pc = "decide" => "worker" \in fresh'[r]
                              /\ budget' = Budget => Alive(r)' /\ r \notin lost'

LEMMA MoveKeeps ==
  ASSUME Ready, NEW r \in Runs, Alive(r), WorkerMove(r), Outcome(r)
  PROVE  OwnInv'
<1>1. RunInv(r) /\ Forward(r) /\ TypeOK /\ BudgetOK /\ ProcessInv
  BY ReadyFacts
<1>2. /\ UNCHANGED <<phase, todo, client, asked, page, o>>
      /\ Readable' <=> Readable
      /\ Spends
      /\ Alone(r) /\ Stirs(r)
  BY <1>1, SpendsLess DEF WorkerMove, Readable
<1>3. /\ phase \notin {"down", "recover"} /\ Readable
  BY <1>1 DEF ProcessInv, Resting
<1>4. ProcessInv'
  BY <1>1, <1>2, <1>3 DEF ProcessInv, Spends, WorkerMove
<1>5. \A x \in Runs \ {r} : RunInv(x)'
  <2> SUFFICES ASSUME NEW x \in Runs \ {r} PROVE RunInv(x)'
    OBVIOUS
  <2>1. Same(x)
    BY <1>2 DEF Same, Alone, Stirs, Promised, Owed
  <2> QED
    BY <1>2, <2>1, ReadyFacts, SameKeeps DEF Steady, Spends
<1>6. status[r] # "absent" /\ status'[r] # "absent"
  BY <1>1 DEF RunInv, Known, Forward
<1>7. Known(r)'
  <2>1. /\ r \in asked \/ r \in page \/ o[r].pc # "none" => status'[r] \in Past
        /\ status'[r] = "queued" => status[r] = "queued"
    BY <1>1, <1>6 DEF RunInv, Known, Forward
  <2>2. status'[r] = "queued" => \A s \in Steps : seen'[r][s] = {}
    BY <1>1, <2>1 DEF WorkerMove, RunInv, Known
  <2> QED
    BY <1>2, <1>6, <2>1, <2>2 DEF Known, Outcome
<1>8. Owned(r)' /\ Waiting(r)'
  BY DEF Owned, Waiting, Outcome
<1>9. Faultless(r)'
  <2> SUFFICES ASSUME budget' = Budget PROVE Faultless(r)'
    BY DEF Faultless
  <2>1. /\ r \in lost' => status'[r] # "queued"
        /\ Executing(r)' => status'[r] \in {"running", "cancelling"} /\ r \notin lost'
        /\ status'[r] = "queued" => Alive(r)'
    BY DEF Outcome
  <2>2. status'[r] \in UnderWay => status[r] \in UnderWay
    BY <1>1, <1>6, StatusSplit DEF Forward, UnderWay, Past, Terminal
  <2>3. budget = Budget
    BY <1>2 DEF Spends
  <2>4. phase' \in {"stop", "drain"} /\ status'[r] \in UnderWay => Stopped(r)' \/ r \in todo'
    BY <1>1, <1>2, <2>2, <2>3 DEF RunInv, Faultless, Forward, Stopped
  <2> QED
    BY <2>1, <2>4 DEF Faultless
<1> QED
  BY <1>4, <1>5, <1>7, <1>8, <1>9 DEF OwnInv, RunInv

LEMMA ApartLeaves == Apart => UNCHANGED <<phase, todo, client, asked, page, o>>
BY DEF Apart, process, requests, watch

-----------------------------------------------------------------------------
(* The moves of a worker, and where they leave it.                         *)
LEMMA SetsStirs ==
  ASSUME NEW r \in Runs, NEW job, w \in [Runs -> JobRecord],
         Sets(r, job) \/ (Becomes(r, job) /\ lost' = lost \cup {r})
  PROVE  Stirs(r) /\ w'[r] = job
BY DEF Stirs, Sets, Becomes

LEMMA RaisesStirs ==
  ASSUME NEW r \in Runs, w \in [Runs -> JobRecord], Raises(r)
  PROVE  /\ Stirs(r)
         /\ \/ InBody(r) /\ w'[r] = Job("assess", FALSE, "failed") /\ lost' = lost
            \/ ~InBody(r) /\ w'[r] = NoJob /\ lost' = lost \cup {r}
BY DEF Raises, Handled, Lost, Sets, Becomes, Stirs

LEMMA StillStirs ==
  ASSUME NEW r \in Runs, UNCHANGED workers
  PROVE  Stirs(r)
BY DEF Stirs, workers

(* A handler takes over: with a failure, or past the queue.                *)
LEMMA HandledOutcome ==
  ASSUME Ready, NEW r \in Runs, Alive(r), Sound \/ Fault, lost' = lost,
         w'[r].pc \in Handling \ {"decide"},
         status'[r] = "queued" => w'[r].out \in {"failed", "cancelled"}
  PROVE  Outcome(r)
<1>1. RunInv(r) /\ Forward(r) /\ BudgetOK
  BY ReadyFacts
<1>2. status'[r] = "queued" => status[r] = "queued"
  BY <1>1 DEF RunInv, Known, Forward
<1>3. Spends
  BY <1>1, SpendsLess
<1>4. budget' = Budget /\ r \in lost' => status'[r] # "queued"
  BY <1>1, <1>2, <1>3 DEF RunInv, Faultless, Spends
<1> QED
  BY <1>4 DEF Outcome, Handling, Executing, Alive

(* An exception: handled in the body, the end of the worker anywhere else, *)
(* and then a run that is still queued only after a failed call.           *)
LEMMA RaisesOutcome ==
  ASSUME Ready, NEW r \in Runs, Alive(r), Sound \/ Fault, Raises(r),
         \/ InBody(r) \/ Fault \/ status'[r] # "queued" \/ store = "failed"
  PROVE  Outcome(r)
<1>1. RunInv(r) /\ ProcessInv /\ BudgetOK /\ w \in [Runs -> JobRecord]
  BY ReadyFacts
<1>2. CASE InBody(r)
  <2>1. w'[r] = Job("assess", FALSE, "failed") /\ lost' = lost
    BY <1>1, <1>2, RaisesStirs
  <2> QED
    BY <2>1, HandledOutcome DEF Job, Handling
<1>3. CASE ~InBody(r)
  <2>1. w'[r] = NoJob /\ lost' = lost \cup {r}
    BY <1>1, <1>3, RaisesStirs
  <2>2. budget' = Budget => status'[r] # "queued"
    BY <1>1, <1>3, SpendsLess DEF ProcessInv, Spends
  <2> QED
    BY <2>1, <2>2, NoJobRecord DEF Outcome, Alive, Executing, Handling
<1> QED
  BY <1>2, <1>3

-----------------------------------------------------------------------------
(* What a call of the journal does to the rows of one run.                 *)
Still(r) ==
  /\ status'[r] = status[r] /\ stop'[r] = stop[r] /\ seen'[r] = seen[r]
  /\ request'[r] = request[r] /\ fresh'[r] = fresh[r]

LEMMA ReadsAlone ==
  ASSUME NEW r \in Runs, Reads \/ UNCHANGED jvars
  PROVE  Alone(r) /\ Still(r) /\ store' = store
BY DEF Reads, jvars, journal, Alone, Still

LEMMA GetAlone ==
  ASSUME TypeOK, NEW r \in Runs, NEW c, Get(c, r)
  PROVE  /\ Alone(r) /\ store' = store /\ fresh'[r] = fresh[r] \cup {c}
         /\ UNCHANGED <<status, stop, seen, request>>
BY DEF TypeOK, Get, journal, Alone

LEMMA LogAlone ==
  ASSUME TypeOK, NEW r \in Runs, Log(r)
  PROVE  Alone(r) /\ store' = store /\ UNCHANGED <<status, stop, seen, request>>
BY DEF TypeOK, Log, Touch, journal, Alone

LEMMA TransitionAlone ==
  ASSUME TypeOK, NEW r \in Runs, NEW c, NEW s, NEW rec, Transition(c, r, s, rec)
  PROVE  /\ Alone(r) /\ store' = store /\ UNCHANGED <<stop, seen, request>>
         /\ status'[r] = s /\ <<status[r], s>> \in Transitions
BY DEF TypeOK, Transition, SetStatus, TransitionOK, Touch, Alone

LEMMA RecoverAlone ==
  ASSUME TypeOK, NEW r \in Runs, Recover(r)
  PROVE  /\ Alone(r) /\ UNCHANGED <<stop, seen, request>>
         /\ status'[r] \in Past
         /\ Readable /\ Readable' /\ (store' = "failed" => store = "failed")
BY DEF TypeOK, Recover, RecoverTo, SetStatus, Touch, Alone, Past, Terminal, Readable

LEMMA StopAlone ==
  ASSUME TypeOK, NEW r \in Runs, NEW why \in Reasons, StopRun(r, why)
  PROVE  /\ Alone(r) /\ store' = store /\ UNCHANGED <<seen, request>>
         /\ \/ UNCHANGED jvars /\ NoNeedToStop(r)
            \/ ActiveRun(r) /\ Stopped(r)' /\ status'[r] = CancelStatus(status[r])
<1>1. CASE NoNeedToStop(r)
  BY <1>1, ReadsAlone DEF StopRun, jvars, journal
<1>2. CASE ~NoNeedToStop(r)
  BY <1>2 DEF StopRun, TypeOK, Cancel, CancelOK, Touch, Alone, Stopped, Reasons
<1> QED
  BY <1>1, <1>2

LEMMA RecordAlone ==
  ASSUME TypeOK, NEW r \in Runs,
         \/ \E s \in Steps, ids \in SUBSET Ids : Checkpoint(r, s, ids)
         \/ \E s \in Steps : \E st : FinishStep(r, s, st)
         \/ \E k \in IntentKeys : \E ids : Intent(r, k, ids)
         \/ \E k \in IntentKeys : \E st, id, own : Receipt(r, k, st, id, own)
  PROVE  Alone(r) /\ store' = store /\ UNCHANGED <<status, stop, request>>
BY DEF TypeOK, Checkpoint, FinishStep, Intent, Receipt, Touch, Alone

-----------------------------------------------------------------------------
(* The steps of a worker: each keeps the invariant.                        *)
LEMMA BodyFacts ==
  ASSUME Ready, NEW r \in Runs, Alive(r)
  PROVE  /\ w[r].pc \in Body \cup {"slot"} => InBody(r)
         /\ status[r] # "absent" /\ status'[r] # "absent"
         /\ status'[r] = "queued" => status[r] = "queued"
         /\ Readable /\ Serving
         /\ budget = Budget => Writable
BY DEF Ready, TypesInv, WorkersOK, ProcessOK, OwnInv, RunInv, Known, Forward, InBody, ProcessInv,
       Resting, Readable, Serving, Writable

(* An exception that a call of the journal raised.                         *)
LEMMA RaiseKeeps ==
  ASSUME Ready, NEW r \in Runs, Alive(r), Apart, Sound \/ Fault, store' = store, Alone(r),
         request'[r] = request[r],
         seen'[r] = seen[r] \/ status[r] \notin {"absent", "queued"},
         Raises(r), InBody(r) \/ Fault \/ status'[r] # "queued" \/ store = "failed"
  PROVE  OwnInv'
<1>1. Stirs(r)
  BY RaisesStirs, ReadyFacts
<1> QED
  BY <1>1, RaisesOutcome, MoveKeeps, ApartLeaves DEF WorkerMove

LEMMA SlotKeeps ==
  ASSUME Ready, NEW r \in Runs,
         Acquire(r) \/ SlotCancelled(r) \/ SlotTimeout(r) \/ Deadline(r)
  PROVE  OwnInv'
<1>0. /\ RunInv(r) /\ w \in [Runs -> JobRecord] /\ BudgetOK
      /\ Reads /\ Sound /\ Apart
  BY ReadyFacts DEF Acquire, SlotCancelled, SlotTimeout, Deadline
<1>1. Alone(r) /\ Still(r) /\ store' = store
  BY <1>0, ReadsAlone
<1>2. CASE Acquire(r)
  <2>1. Alive(r) /\ w[r].pc = "slot" /\ w' = [w EXCEPT ![r] = Job("read", TRUE, "-")] /\ lost' = lost
    BY <1>2 DEF Acquire, Alive
  <2>2. w'[r] = Job("read", TRUE, "-") /\ Stirs(r)
    BY <1>0, <2>1 DEF Stirs
  <2>3. Outcome(r)
    BY <1>0, <1>1, <2>1, <2>2, SpendsLess
       DEF Outcome, Job, RunInv, Owned, Faultless, Still, Executing, Alive, Handling, Spends
  <2> QED
    BY <1>0, <1>1, <2>1, <2>2, <2>3, MoveKeeps, ApartLeaves DEF WorkerMove, Still
<1>3. CASE SlotCancelled(r) \/ SlotTimeout(r) \/ Deadline(r)
  <2>1. Alive(r) /\ (Executing(r) \/ w[r].pc = "slot")
    BY <1>3 DEF SlotCancelled, SlotTimeout, Deadline, Alive, Executing
  <2>2. \/ Sets(r, Job("stopGit", FALSE, "cancelled"))
        \/ Sets(r, Job("finish", FALSE, "failed"))
        \/ Sets(r, Job("stopTimeout", FALSE, "cancelled"))
    BY <1>3 DEF SlotCancelled, SlotTimeout, Deadline, Interrupted, Handled
  <2>3. /\ Stirs(r) /\ lost' = lost
        /\ w'[r].pc \in Handling \ {"decide"} /\ w'[r].out \in {"failed", "cancelled"}
    BY <1>0, <2>2, SetsStirs DEF Job, Handling, Sets
  <2>4. Outcome(r)
    BY <1>0, <2>1, <2>3, HandledOutcome
  <2> QED
    BY <1>0, <1>1, <2>1, <2>3, <2>4, MoveKeeps, ApartLeaves DEF WorkerMove, Still
<1> QED
  BY <1>2, <1>3

LEMMA ReadKeeps == ASSUME Ready, NEW r \in Runs, Read(r) PROVE OwnInv'
<1>0. /\ RunInv(r) /\ TypeOK /\ w \in [Runs -> JobRecord] /\ BudgetOK
      /\ Alive(r) /\ w[r].pc = "read" /\ Apart
  BY ReadyFacts DEF Read, Alive
<1>1. InBody(r)
  BY <1>0, BodyFacts DEF Body
<1>2. ASSUME Get("worker", r), Turn(r, "claim"), Sound
      PROVE  OwnInv'
  <2>2. Alone(r) /\ store' = store /\ UNCHANGED <<status, stop, seen, request>>
    BY <1>0, <1>2, GetAlone
  <2>3. Stirs(r) /\ lost' = lost /\ w'[r].pc = "claim"
    BY <1>0, <1>2, SetsStirs DEF Turn, Sets, JobRecord
  <2>4. Outcome(r)
    BY <1>0, <1>2, <2>2, <2>3, SpendsLess
       DEF Outcome, RunInv, Faultless, Executing, Alive, Handling, Spends
  <2> QED
    BY <1>0, <1>2, <2>2, <2>3, <2>4, MoveKeeps, ApartLeaves DEF WorkerMove
<1>3. ASSUME status[r] # "queued", Reads, Leaves(r), Sound
      PROVE  OwnInv'
  <2>1. Alone(r) /\ Still(r) /\ store' = store
    BY <1>3, ReadsAlone
  <2>2. Stirs(r) /\ w'[r] = NoJob /\ lost' = lost
    BY <1>0, <1>3, SetsStirs DEF Leaves, Sets
  <2>3. Outcome(r)
    BY <1>0, <1>3, <2>1, <2>2, NoJobRecord
       DEF Outcome, RunInv, Owned, Executing, Alive, Handling, Still
  <2> QED
    BY <1>0, <1>3, <2>1, <2>2, <2>3, MoveKeeps, ApartLeaves DEF WorkerMove, Still
<1>4. ASSUME Get("worker", r) \/ Reads \/ UNCHANGED jvars, Raises(r), Sound \/ Fault
      PROVE  OwnInv'
  <2>1. Alone(r) /\ store' = store /\ seen'[r] = seen[r] /\ request'[r] = request[r]
    BY <1>0, <1>4, GetAlone, ReadsAlone DEF Still
  <2> QED
    BY <1>0, <1>1, <1>4, <2>1, RaiseKeeps
<1> QED
  BY <1>2, <1>3, <1>4 DEF Read, Call

LEMMA ClaimKeeps == ASSUME Ready, NEW r \in Runs, Claim(r) PROVE OwnInv'
<1>0. /\ RunInv(r) /\ TypeOK /\ w \in [Runs -> JobRecord] /\ BudgetOK
      /\ Alive(r) /\ w[r].pc = "claim" /\ Apart
  BY ReadyFacts DEF Claim, Alive
<1>1. InBody(r)
  BY <1>0, BodyFacts DEF Body
<1>2. ASSUME Transition("worker", r, "running", "keep"), Turn(r, "run"), Sound
      PROVE  OwnInv'
  <2>1. /\ Alone(r) /\ store' = store /\ UNCHANGED <<stop, seen, request>>
        /\ status'[r] = "running" /\ <<status[r], "running">> \in Transitions
    BY <1>0, <1>2, TransitionAlone
  <2>5. status[r] = "queued"
    BY <2>1 DEF Transitions, Terminal
  <2>2. Stirs(r) /\ lost' = lost /\ w'[r].pc = "run"
    BY <1>0, <1>2, SetsStirs DEF Turn, Sets, JobRecord
  <2>3. budget' = Budget => r \notin lost
    BY <1>0, <1>2, <2>5, SpendsLess DEF RunInv, Faultless, Spends
  <2>4. Outcome(r)
    BY <2>1, <2>2, <2>3 DEF Outcome, Executing, Alive, Handling
  <2> QED
    BY <1>0, <1>2, <2>1, <2>2, <2>4, MoveKeeps, ApartLeaves DEF WorkerMove
<1>3. ASSUME Transition("worker", r, "running", "keep") \/ UNCHANGED jvars, Raises(r), Sound \/ Fault
      PROVE  OwnInv'
  <2>1. Alone(r) /\ store' = store /\ seen'[r] = seen[r] /\ request'[r] = request[r]
    BY <1>0, <1>3, TransitionAlone, ReadsAlone DEF Still
  <2> QED
    BY <1>0, <1>1, <1>3, <2>1, RaiseKeeps
<1> QED
  BY <1>2, <1>3 DEF Claim, Call

LEMMA StopFirstKeeps == ASSUME Ready, NEW r \in Runs, StopFirst(r) PROVE OwnInv'
<1> DEFINE why == IF w[r].pc = "stopGit" THEN "user"
                  ELSE IF phase \in {"gather", "stop", "drain"} THEN "shutdown" ELSE "timeout"
           next == IF w[r].pc = "stopGit" THEN "finish" ELSE "assess"
<1>0. /\ RunInv(r) /\ Forward(r) /\ TypeOK /\ w \in [Runs -> JobRecord] /\ BudgetOK
      /\ Alive(r) /\ w[r].pc \in {"stopGit", "stopTimeout"} /\ Apart
  BY ReadyFacts DEF StopFirst, Alive
<1>1. why \in Reasons
  BY DEF Reasons
<1>2. Call(StopAccepted(r), StopRun(r, why), Turn(r, next), Raises(r))
  BY DEF StopFirst
<1> HIDE DEF why
<1>3. ASSUME StopRun(r, why) \/ UNCHANGED jvars
      PROVE  Alone(r) /\ store' = store /\ seen'[r] = seen[r] /\ request'[r] = request[r]
  BY <1>0, <1>1, <1>3, StopAlone, ReadsAlone DEF Still
<1>4. ASSUME StopRun(r, why), Turn(r, next), Sound
      PROVE  OwnInv'
  <2>1. /\ Stirs(r) /\ lost' = lost /\ w'[r].pc \in {"finish", "assess"}
        /\ w'[r].out = w[r].out
    BY <1>0, <1>4, SetsStirs DEF Turn, Sets, JobRecord
  <2>2. status'[r] = "queued" => w'[r].out \in {"failed", "cancelled"}
    BY <1>0, <2>1, BodyFacts DEF RunInv, Waiting, Handling
  <2>3. Outcome(r)
    BY <1>0, <1>4, <2>1, <2>2, HandledOutcome DEF Handling
  <2> QED
    BY <1>0, <1>3, <1>4, <2>1, <2>3, MoveKeeps, ApartLeaves DEF WorkerMove
<1>5. ASSUME StopRun(r, why) \/ UNCHANGED jvars, Raises(r), Fault
      PROVE  OwnInv'
  BY <1>0, <1>3, <1>5, RaiseKeeps
<1>6. ASSUME ~StopAccepted(r), UNCHANGED jvars, Raises(r), Sound
      PROVE  OwnInv'
  <2>1. ActiveRun(r) => store = "failed"
    BY <1>0, <1>6, BodyFacts DEF StopAccepted, NoNeedToStop, CancelOK, Readable, Writable
  <2>2. status'[r] = "queued" => store = "failed"
    BY <1>0, <2>1, BodyFacts DEF ActiveRun, Active
  <2> QED
    BY <1>0, <1>3, <1>6, <2>2, RaiseKeeps
<1> QED
  BY <1>2, <1>4, <1>5, <1>6 DEF Call

LEMMA AssessKeeps == ASSUME Ready, NEW r \in Runs, Assess(r) PROVE OwnInv'
<1>0. /\ RunInv(r) /\ Forward(r) /\ TypeOK /\ w \in [Runs -> JobRecord] /\ BudgetOK
      /\ Alive(r) /\ w[r].pc = "assess" /\ Apart /\ Readable
  BY ReadyFacts, BodyFacts DEF Assess, Alive
<1>1. /\ UNCHANGED jvars /\ Alone(r) /\ Still(r) /\ store' = store
  BY ReadsAlone DEF Assess, Call, Reads
<1>2. ASSUME Sets(r, Job("finish", FALSE, IF Remote(r) THEN "unknown" ELSE w[r].out)), Sound
      PROVE  OwnInv'
  <2>1. /\ Stirs(r) /\ lost' = lost
        /\ w'[r] = Job("finish", FALSE, IF Remote(r) THEN "unknown" ELSE w[r].out)
    BY <1>0, <1>2, SetsStirs DEF Sets
  <2>2. status[r] = "queued" => ~Remote(r) /\ w[r].out \in {"failed", "cancelled"}
    BY <1>0, ReadyFacts DEF RunInv, Known, Waiting, Remote, Handling
  <2>3. Outcome(r)
    BY <1>0, <1>1, <1>2, <2>1, <2>2, HandledOutcome DEF Job, Handling, Still
  <2> QED
    BY <1>0, <1>1, <1>2, <2>1, <2>3, MoveKeeps, ApartLeaves DEF WorkerMove, Still
<1>3. ASSUME Raises(r), Fault
      PROVE  OwnInv'
  BY <1>0, <1>1, <1>3, RaiseKeeps DEF Still
<1> QED
  BY <1>0, <1>2, <1>3 DEF Assess, Call

LEMMA FinishKeeps == ASSUME Ready, NEW r \in Runs, Finish(r) PROVE OwnInv'
<1>0. /\ RunInv(r) /\ Forward(r) /\ TypeOK /\ w \in [Runs -> JobRecord] /\ BudgetOK
      /\ Alive(r) /\ w[r].pc = "finish" /\ Apart /\ Readable
  BY ReadyFacts, BodyFacts DEF Finish, Alive
<1>1. ASSUME TerminalRun(r), Reads, Leaves(r), Sound
      PROVE  OwnInv'
  <2>1. Alone(r) /\ Still(r) /\ store' = store
    BY <1>1, ReadsAlone
  <2>2. Stirs(r) /\ w'[r] = NoJob
    BY <1>0, <1>1, SetsStirs DEF Leaves
  <2>3. Outcome(r)
    BY <1>1, <2>1, <2>2, NoJobRecord
       DEF Outcome, TerminalRun, Terminal, Still, Executing, Alive
  <2> QED
    BY <1>0, <1>1, <2>1, <2>2, <2>3, MoveKeeps, ApartLeaves DEF WorkerMove, Still
<1>2. ASSUME Get("worker", r), Turn(r, "decide"), Sound
      PROVE  OwnInv'
  <2>1. /\ Alone(r) /\ store' = store /\ UNCHANGED <<status, stop, seen, request>>
        /\ "worker" \in fresh'[r]
    BY <1>0, <1>2, GetAlone
  <2>2. Stirs(r) /\ lost' = lost /\ w'[r].pc = "decide" /\ w'[r].out = w[r].out
    BY <1>0, <1>2, SetsStirs DEF Turn, Sets, JobRecord
  <2>3. status'[r] = "queued" => w'[r].out \in {"failed", "cancelled"}
    BY <1>0, <2>1, <2>2 DEF RunInv, Waiting, Handling
  <2>4. budget' = Budget /\ status'[r] = "queued" => r \notin lost'
    BY <1>0, <1>2, <2>1, <2>2, SpendsLess DEF RunInv, Faultless, Spends
  <2>5. Outcome(r)
    BY <2>1, <2>2, <2>3, <2>4 DEF Outcome, Executing, Alive
  <2> QED
    BY <1>0, <1>2, <2>1, <2>2, <2>5, MoveKeeps, ApartLeaves DEF WorkerMove
<1>3. ASSUME Get("worker", r) \/ Reads \/ UNCHANGED jvars, Raises(r), Fault
      PROVE  OwnInv'
  <2>1. Alone(r) /\ store' = store /\ seen'[r] = seen[r] /\ request'[r] = request[r]
    BY <1>0, <1>3, GetAlone, ReadsAlone DEF Still
  <2> QED
    BY <1>0, <1>3, <2>1, RaiseKeeps
<1> QED
  BY <1>0, <1>1, <1>2, <1>3 DEF Finish, Call

LEMMA NoteKeeps == ASSUME Ready, NEW r \in Runs, Note(r) PROVE OwnInv'
<1>0. /\ RunInv(r) /\ Forward(r) /\ TypeOK /\ w \in [Runs -> JobRecord] /\ BudgetOK
      /\ Alive(r) /\ w[r].pc = "note" /\ Apart
  BY ReadyFacts DEF Note, Alive
<1>1. status[r] \in Past /\ status'[r] \in Past
  BY <1>0 DEF RunInv, Known, Forward
<1>2. Alone(r) /\ store' = store /\ UNCHANGED <<status, stop, seen, request>>
  BY <1>0, LogAlone DEF Note, Call, jvars, journal, Alone
<1>3. ASSUME Leaves(r), Sound
      PROVE  OwnInv'
  <2>1. Stirs(r) /\ w'[r] = NoJob
    BY <1>0, <1>3, SetsStirs DEF Leaves
  <2>2. Outcome(r)
    BY <1>1, <2>1, NoJobRecord DEF Outcome, Past, Terminal, Executing, Alive
  <2> QED
    BY <1>0, <1>2, <1>3, <2>1, <2>2, MoveKeeps, ApartLeaves DEF WorkerMove
<1>4. ASSUME Raises(r), Sound \/ Fault
      PROVE  OwnInv'
  BY <1>0, <1>1, <1>2, <1>4, RaiseKeeps DEF Past, Terminal
<1> QED
  BY <1>3, <1>4 DEF Note, Call

LEMMA DecideKeeps == ASSUME Ready, NEW r \in Runs, Decide(r) PROVE OwnInv'
<1> DEFINE out == w[r].out
           Moved == Transition("worker", r, out, RecoveryOf(out))
<1>0. /\ RunInv(r) /\ Forward(r) /\ TypeOK /\ w \in [Runs -> JobRecord] /\ BudgetOK
      /\ Alive(r) /\ w[r].pc = "decide" /\ Apart /\ Readable
      /\ out \in Outcomes \cup {"-"}
  BY ReadyFacts, BodyFacts DEF Decide, Alive, JobRecord
<1>1. ASSUME Moved
      PROVE  /\ Alone(r) /\ store' = store /\ UNCHANGED <<stop, seen, request>>
             /\ status'[r] \in Past
  <2>1. /\ Alone(r) /\ store' = store /\ UNCHANGED <<stop, seen, request>>
        /\ status'[r] = out /\ <<status[r], out>> \in Transitions
    BY <1>0, <1>1, TransitionAlone
  <2> QED
    BY <1>0, <2>1 DEF Transitions, Outcomes, Past, Terminal
<1>2. ASSUME Moved, Sets(r, Job("note", w[r].permit, "-")), Sound
      PROVE  OwnInv'
  <2>1. Stirs(r) /\ w'[r].pc = "note" /\ lost' = lost
    BY <1>0, <1>2, SetsStirs DEF Job, Sets
  <2>2. Outcome(r)
    BY <1>1, <1>2, <2>1 DEF Outcome, Executing, Alive, Past, Terminal
  <2> QED
    BY <1>0, <1>1, <1>2, <2>1, <2>2, MoveKeeps, ApartLeaves DEF WorkerMove
<1>3. ASSUME Moved \/ UNCHANGED jvars, Raises(r), Fault
      PROVE  OwnInv'
  <2>1. Alone(r) /\ store' = store /\ seen'[r] = seen[r] /\ request'[r] = request[r]
    BY <1>1, <1>3, ReadsAlone DEF Still
  <2> QED
    BY <1>0, <1>3, <2>1, RaiseKeeps
<1>4. status[r] = "queued" => \/ store = "failed"
                              \/ CanMove("worker", r, out) /\ ~Conflict("worker", r, out)
  <2> SUFFICES ASSUME status[r] = "queued", store # "failed"
               PROVE  CanMove("worker", r, out) /\ ~Conflict("worker", r, out)
    OBVIOUS
  <2>1. out \in {"failed", "cancelled"} /\ "worker" \in fresh[r] /\ Effects(r) = {}
    BY <1>0, ReadyFacts DEF RunInv, Waiting, Handling
  <2>2. Unsettled(r) = {}
    BY <2>1 DEF Effects, Unsettled
  <2>3. TransitionOK(r, out)
    BY <2>1, <2>2 DEF TransitionOK, Transitions
  <2> QED
    BY <1>0, <2>1, <2>3 DEF CanMove, Conflict, Readable, Writable
<1>5. ASSUME ~CanMove("worker", r, out) \/ Conflict("worker", r, out), UNCHANGED jvars, Sound
      PROVE  /\ Alone(r) /\ Still(r) /\ store' = store
             /\ status'[r] # "queued" \/ store = "failed"
  BY <1>4, <1>5, ReadsAlone DEF Still
<1>6. ASSUME ~CanMove("worker", r, out) \/ Conflict("worker", r, out), UNCHANGED jvars, Sound,
             Raises(r)
      PROVE  OwnInv'
  BY <1>0, <1>5, <1>6, RaiseKeeps DEF Still
<1>7. ASSUME Conflict("worker", r, out), UNCHANGED jvars, Sound,
             Sets(r, [w[r] EXCEPT !.pc = "finish", !.tries = @ + 1])
      PROVE  OwnInv'
  <2> DEFINE job == [w[r] EXCEPT !.pc = "finish", !.tries = @ + 1]
  <2>4. Stirs(r) /\ w'[r] = job /\ lost' = lost
    BY <1>0, <1>7, SetsStirs DEF Sets
  <2>5. job.pc = "finish" /\ job.out = out
    BY <1>0 DEF JobRecord
  <2>1. Stirs(r) /\ lost' = lost /\ w'[r].pc = "finish" /\ w'[r].out = out
    BY <2>4, <2>5
  <2>2. status'[r] = "queued" => out \in {"failed", "cancelled"}
    BY <1>0, BodyFacts DEF RunInv, Waiting, Handling
  <2>3. Outcome(r)
    BY <1>0, <1>7, <2>1, <2>2, HandledOutcome DEF Handling
  <2> QED
    BY <1>0, <1>5, <1>7, <2>1, <2>3, MoveKeeps, ApartLeaves DEF WorkerMove, Still
<1> QED
  BY <1>2, <1>3, <1>6, <1>7 DEF Decide, Call, Reads

-----------------------------------------------------------------------------
(* The executor: its run was claimed.                                      *)
LEMMA ExecutingFacts ==
  ASSUME Ready, NEW r \in Runs, Executing(r)
  PROVE  /\ Alive(r) /\ InBody(r)
         /\ status[r] \notin {"absent", "queued"} /\ status'[r] # "queued"
<1>1. Alive(r) /\ w[r].pc \in Body
  BY DEF Executing, Alive, Body
<1> QED
  BY <1>1, BodyFacts, ReadyFacts DEF RunInv, Known

LEMMA ExecutesOn ==
  ASSUME Ready, NEW r \in Runs, Executing(r), Apart, Sound \/ Fault, store' = store, Alone(r),
         request'[r] = request[r], Stirs(r), lost' = lost, w'[r].pc \in {"run", "send", "answer"},
         status[r] \in {"running", "cancelling"} => status'[r] \in {"running", "cancelling"}
  PROVE  OwnInv'
<1>1. RunInv(r) /\ BudgetOK
  BY ReadyFacts
<1>2. budget' = Budget => status'[r] \in {"running", "cancelling"} /\ r \notin lost'
  BY <1>1, SpendsLess DEF RunInv, Faultless, Spends
<1>3. Outcome(r)
  BY <1>2, ExecutingFacts DEF Outcome, Executing, Alive, Handling
<1> QED
  BY <1>3, ExecutingFacts, MoveKeeps, ApartLeaves DEF WorkerMove

LEMMA ExecRaiseKeeps ==
  ASSUME Ready, NEW r \in Runs, Executing(r), Apart, Sound \/ Fault, store' = store, Alone(r),
         request'[r] = request[r], Raises(r)
  PROVE  OwnInv'
BY ExecutingFacts, RaiseKeeps

LEMMA ExecutorKeeps == ASSUME Ready, NEW r \in Runs, ExecutorStep(r) PROVE OwnInv'
<1>0. /\ RunInv(r) /\ TypeOK /\ w \in [Runs -> JobRecord] /\ BudgetOK
  BY ReadyFacts
<1>1. ASSUME UNCHANGED <<status, request>>, Alone(r), store' = store, Executing(r), Apart,
             Sound \/ Fault,
             \/ UNCHANGED workers /\ w[r].pc = "run"
             \/ Turn(r, "run") \/ Turn(r, "answer")
             \/ \E k \in IntentKeys : Sets(r, [w[r] EXCEPT !.pc = "send", !.key = k])
             \/ Raises(r)
      PROVE  OwnInv'
  <2>1. CASE Raises(r)
    BY <1>1, <2>1, ExecRaiseKeeps
  <2>2. CASE UNCHANGED workers /\ w[r].pc = "run"
    BY <1>1, <2>2, StillStirs, ExecutesOn DEF workers
  <2>3. ASSUME NEW pc \in {"run", "answer"}, Turn(r, pc)
        PROVE  OwnInv'
    <3>1. Stirs(r) /\ lost' = lost /\ w'[r].pc = pc
      BY <1>0, <2>3, SetsStirs DEF Turn, Sets, JobRecord
    <3> QED
      BY <1>1, <3>1, ExecutesOn
  <2>4. ASSUME NEW k \in IntentKeys, Sets(r, [w[r] EXCEPT !.pc = "send", !.key = k])
        PROVE  OwnInv'
    <3> DEFINE job == [w[r] EXCEPT !.pc = "send", !.key = k]
    <3>1. Stirs(r) /\ w'[r] = job /\ lost' = lost
      BY <1>0, <2>4, SetsStirs DEF Sets
    <3>2. job.pc = "send"
      BY <1>0 DEF JobRecord
    <3> QED
      BY <1>1, <3>1, <3>2, ExecutesOn
  <2> QED
    BY <1>1, <2>1, <2>2, <2>3, <2>4
<1>2. UNCHANGED jvars => UNCHANGED <<status, request>> /\ Alone(r) /\ Still(r) /\ store' = store
  BY ReadsAlone DEF jvars, journal
<1>3. ASSUME NEW s \in Steps, NEW ids \in SUBSET Ids, ExecCheckpoint(r, s, ids)
      PROVE  OwnInv'
  <2>1. Checkpoint(r, s, ids) => UNCHANGED <<status, request>> /\ Alone(r) /\ store' = store
    BY <1>0, RecordAlone
  <2> QED
    BY <1>1, <1>2, <1>3, <2>1 DEF ExecCheckpoint, Call, Executing
<1>4. ASSUME NEW s \in Steps, NEW st \in Results, ExecFinishStep(r, s, st)
      PROVE  OwnInv'
  <2>1. FinishStep(r, s, st) => UNCHANGED <<status, request>> /\ Alone(r) /\ store' = store
    BY <1>0, RecordAlone
  <2> QED
    BY <1>1, <1>2, <1>4, <2>1 DEF ExecFinishStep, Call, Executing
<1>5. ASSUME NEW k \in IntentKeys, NEW ids \in SUBSET Ids, ExecIntent(r, k, ids)
      PROVE  OwnInv'
  <2>1. Intent(r, k, ids) => UNCHANGED <<status, request>> /\ Alone(r) /\ store' = store
    BY <1>0, RecordAlone
  <2> QED
    BY <1>1, <1>2, <1>5, <2>1 DEF ExecIntent, Call, Executing
<1>6. CASE ExecSend(r)
  BY <1>1, <1>2, <1>6 DEF ExecSend, Executing, Reads
<1>7. ASSUME NEW st \in ReceiptState, NEW id \in Ids \cup {NoId}, ExecReceipt(r, st, id)
      PROVE  OwnInv'
  <2> DEFINE k == w[r].key
  <2>1. /\ ReceiptOK(r, k) /\ Receipt(r, k, st, id, OwnedKind(k, st))
        => UNCHANGED <<status, request>> /\ Alone(r) /\ store' = store
    BY <1>0, RecordAlone DEF ReceiptOK, Unsettled
  <2> QED
    BY <1>1, <1>2, <1>7, <2>1 DEF ExecReceipt, Call, Executing
<1>8. ASSUME NEW why \in {"user", "timeout"}, ExecStop(r, why)
      PROVE  OwnInv'
  <2>1. Executing(r) /\ Apart /\ w[r].pc = "run"
    BY <1>8 DEF ExecStop, Executing
  <2>2. ASSUME StopRun(r, why) \/ UNCHANGED jvars
        PROVE  /\ Alone(r) /\ store' = store /\ UNCHANGED request
               /\ status[r] \in {"running", "cancelling"} => status'[r] \in {"running", "cancelling"}
    BY <1>0, <1>2, <2>2, StopAlone DEF Reasons, CancelStatus, Still
  <2>3. ASSUME StopRun(r, why), UNCHANGED <<w, free, lost>>, Sound
        PROVE  OwnInv'
    BY <2>1, <2>2, <2>3, ExecutesOn DEF Stirs
  <2>4. ASSUME StopRun(r, why) \/ UNCHANGED jvars, Raises(r), Sound \/ Fault
        PROVE  OwnInv'
    BY <2>1, <2>2, <2>4, ExecRaiseKeeps
  <2> QED
    BY <1>8, <2>3, <2>4 DEF ExecStop, Call
<1>9. ASSUME NEW out \in Verdicts, ExecReturns(r, out) \/ ExecGitFails(r, out)
      PROVE  OwnInv'
  <2>1. Executing(r) /\ Apart /\ Reads /\ Sound
    BY <1>9 DEF ExecReturns, ExecGitFails, Executing
  <2>2. Alone(r) /\ Still(r) /\ store' = store
    BY <2>1, <1>2 DEF Reads
  <2>3. Stirs(r) /\ lost' = lost /\ w'[r].pc \in Handling \ {"decide"}
    BY <1>0, <1>9, SetsStirs DEF ExecReturns, ExecGitFails, Handled, Sets, Job, Handling
  <2>4. Outcome(r)
    BY <2>1, <2>3, ExecutingFacts, HandledOutcome
  <2> QED
    BY <2>1, <2>2, <2>3, <2>4, ExecutingFacts, MoveKeeps, ApartLeaves DEF WorkerMove, Still
<1>10. CASE ExecRaises(r)
  BY <1>1, <1>2, <1>10 DEF ExecRaises, Reads
<1> QED
  BY <1>3, <1>4, <1>5, <1>6, <1>7, <1>8, <1>9, <1>10 DEF ExecutorStep

-----------------------------------------------------------------------------
(* A step on a run that is past its execution, by an observer, a query or  *)
(* the recovery, and that leaves the workers alone.                        *)
PastMove(r) ==
  /\ UNCHANGED <<phase, todo, client, w>> /\ (Sound \/ Fault)
  /\ (Readable' <=> Readable) /\ (store' = "failed" => store = "failed")
  /\ Alone(r)
  /\ status'[r] \in Past
  /\ \A x \in Runs \ {r} : /\ x \in lost' <=> x \in lost
                           /\ (x \in asked' => x \in asked) /\ (x \in page' => x \in page)
                           /\ o'[x].pc # "none" => o[x].pc # "none"

LEMMA PastKeeps ==
  ASSUME Ready, NEW r \in Runs, PastMove(r), phase \notin {"down", "recover"}, Readable,
         budget' = Budget => ~Executing(r)
  PROVE  OwnInv'
<1>1. RunInv(r) /\ TypeOK /\ BudgetOK /\ ProcessInv
  BY ReadyFacts
<1>2. Spends
  BY <1>1, SpendsLess DEF PastMove
<1>3. ProcessInv'
  BY <1>1, <1>2 DEF ProcessInv, PastMove, Spends
<1>4. \A x \in Runs \ {r} : RunInv(x)'
  <2> SUFFICES ASSUME NEW x \in Runs \ {r} PROVE RunInv(x)'
    OBVIOUS
  <2>1. Same(x)
    BY DEF Same, PastMove, Alone, Promised, Owed
  <2> QED
    BY <1>2, <2>1, ReadyFacts, SameKeeps DEF Steady, Spends, PastMove
<1>5. status'[r] \notin {"absent", "queued", "running", "cancelling"}
  BY DEF PastMove, Past, Terminal
<1>6. RunInv(r)'
  BY <1>5 DEF PastMove, RunInv, Known, Owned, Waiting, Faultless, Executing, UnderWay
<1> QED
  BY <1>3, <1>4, <1>6 DEF OwnInv

(* An observer looks only at a run that is unknown or was closed since.    *)
LEMMA LookKeeps ==
  ASSUME Ready, NEW r \in Runs, ObserverStep(r) \/ QueryStep(r)
  PROVE  OwnInv'
<1>0. /\ RunInv(r) /\ Forward(r) /\ TypeOK /\ BudgetOK /\ ProcessInv
      /\ o \in [Runs -> [pc: ObserverPc, out: Outcomes \cup {"-"}, tries: 0..Attempts]]
  BY ReadyFacts DEF Ready, TypesInv, WatchOK
<1>1. r \in asked \/ o[r].pc # "none"
  BY DEF ObserverStep, QueryStep, ObsBegins, ObsOpens, ObsReads, ObsDecides, ObsNotes, ObsTimeout,
         ObsApologises, ObsReceipt, ObsFinishStep, ObsReturns
<1>2. /\ phase \notin {"down", "recover"} /\ Readable
      /\ status[r] \in Past /\ status'[r] \in Past
  BY <1>0, <1>1 DEF ProcessInv, Resting, RunInv, Known, Forward
<1>3. budget' = Budget => ~Executing(r)
  <2>1. Sound \/ Fault
    BY DEF ObserverStep, QueryStep, ObsBegins, ObsOpens, ObsReads, ObsDecides, ObsNotes,
           ObsTimeout, ObsApologises, ObsReceipt, ObsFinishStep, ObsReturns, Call
  <2>2. status[r] \notin {"running", "cancelling"}
    BY <1>2 DEF Past, Terminal
  <2> QED
    BY <1>0, <2>1, <2>2, SpendsLess DEF RunInv, Faultless, Spends
<1>4. ASSUME Alone(r), store' = store, Sound \/ Fault, UNCHANGED <<phase, todo, client, w, lost, page>>,
             asked' \subseteq asked, \A x \in Runs \ {r} : o'[x] = o[x]
      PROVE  OwnInv'
  BY <1>2, <1>3, <1>4, PastKeeps DEF PastMove, Readable
<1>5. CASE ObsBegins(r)
  <2>1. Alone(r) /\ store' = store
    BY <1>5, ReadsAlone DEF ObsBegins
  <2>2. \A x \in Runs \ {r} : o'[x] = o[x]
    BY <1>0, <1>5 DEF ObsBegins
  <2> QED
    BY <1>4, <1>5, <2>1, <2>2 DEF ObsBegins, process, requests, workers
<1>6. ASSUME Alone(r), store' = store, Sound \/ Fault, Aside,
             \/ UNCHANGED o \/ (\E pc \in ObserverPc : Puts(r, pc) \/ Glance(r, pc)) \/ Departs(r)
             \/ \E n : o' = [o EXCEPT ![r] = n]
      PROVE  OwnInv'
  <2>1. \A x \in Runs \ {r} : o'[x] = o[x]
    BY <1>0, <1>6 DEF Puts, Glance, Departs
  <2> QED
    BY <1>4, <1>6, <2>1 DEF Aside, process, requests, workers
<1>7. ASSUME Reads \/ UNCHANGED jvars PROVE Alone(r) /\ store' = store
  BY <1>7, ReadsAlone
<1>8. Log(r) => Alone(r) /\ store' = store
  BY <1>0, LogAlone
<1>9. {"none", "open", "look", "finish", "decide", "note", "sorry"} = ObserverPc
  BY DEF ObserverPc
<1>10. CASE ObsOpens(r) \/ ObsNotes(r) \/ ObsApologises(r) \/ ObsTimeout(r)
  BY <1>6, <1>7, <1>8, <1>9, <1>10 DEF ObsOpens, ObsNotes, ObsApologises, ObsTimeout, Call
<1>11. CASE ObsReads(r)
  <2>1. Get("observer", r) => Alone(r) /\ store' = store
    BY <1>0, GetAlone
  <2> QED
    BY <1>6, <1>7, <1>9, <1>11, <2>1 DEF ObsReads, Call
<1>12. CASE ObsDecides(r)
  <2>1. Transition("observer", r, o[r].out, RecoveryOf(o[r].out)) => Alone(r) /\ store' = store
    BY <1>0, TransitionAlone
  <2> QED
    BY <1>6, <1>7, <1>9, <1>12, <2>1 DEF ObsDecides, Call
<1>13. ASSUME NEW k \in IntentKeys, NEW id \in Ids \cup {NoId}, ObsReceipt(r, k, id)
       PROVE  OwnInv'
  <2>1. Receipt(r, k, "confirmed", id, k.kind = "release_create") => Alone(r) /\ store' = store
    BY <1>0, RecordAlone
  <2> QED
    BY <1>6, <1>7, <1>9, <1>13, <2>1 DEF ObsReceipt, Call
<1>14. ASSUME NEW s \in Steps, ObsFinishStep(r, s)
       PROVE  OwnInv'
  <2>1. FinishStep(r, s, "succeeded") => Alone(r) /\ store' = store
    BY <1>0, RecordAlone
  <2> QED
    BY <1>6, <1>7, <1>9, <1>14, <2>1 DEF ObsFinishStep, Call
<1>15. ASSUME NEW out \in Findings, ObsReturns(r, out)
       PROVE  OwnInv'
  BY <1>6, <1>7, <1>15 DEF ObsReturns
<1> QED
  BY <1>5, <1>10, <1>11, <1>12, <1>13, <1>14, <1>15 DEF ObserverStep, QueryStep

-----------------------------------------------------------------------------
(* A step that leaves alone all that the invariant speaks of.              *)
LEMMA NothingKeeps ==
  ASSUME Ready, UNCHANGED jvars, UNCHANGED <<phase, todo, client, w, lost, page, asked, o>>,
         Sound \/ Fault
  PROVE  OwnInv'
<1>1. Spends /\ ProcessInv
  BY SpendsLess DEF Ready, TypesInv, OwnInv
<1>2. ProcessInv'
  BY <1>1 DEF ProcessInv, Resting, Readable, Alive, Spends, jvars, journal, UnderWay
<1>3. \A x \in Runs : RunInv(x)'
  <2> SUFFICES ASSUME NEW x \in Runs PROVE RunInv(x)'
    OBVIOUS
  <2>1. Same(x)
    BY DEF Same, jvars, journal, Promised, Owed
  <2>2. Steady
    BY <1>1 DEF Steady, Spends, Readable, jvars
  <2> QED
    BY <2>1, <2>2, ReadyFacts, SameKeeps
<1> QED
  BY <1>2, <1>3 DEF OwnInv

(* A run that was asked to stop, or whose shutdown has been seen to.       *)
LEMMA StopKeeps ==
  ASSUME Ready, NEW r \in Runs, Serving, Alone(r), store' = store,
         seen'[r] = seen[r], request'[r] = request[r],
         UNCHANGED <<phase, client, w, lost, page, asked, o>>, Sound \/ Fault,
         todo' = todo \/ todo' = todo \ {r},
         \/ /\ Still(r)
            /\ \/ todo' = todo
               \/ budget' = Budget /\ Alive(r) /\ status[r] \in UnderWay => Stopped(r)
         \/ ActiveRun(r) /\ Stopped(r)' /\ status'[r] = CancelStatus(status[r])
  PROVE  OwnInv'
<1>1. RunInv(r) /\ Forward(r) /\ TypeOK /\ BudgetOK /\ ProcessInv
  BY ReadyFacts
<1>2. Spends /\ (Readable' <=> Readable) /\ phase \notin {"down", "recover"}
  BY <1>1, SpendsLess DEF Readable, Serving
<1>3. ProcessInv'
  BY <1>1, <1>2 DEF ProcessInv, Resting, Alive, Spends
<1>4. \A x \in Runs \ {r} : RunInv(x)'
  <2> SUFFICES ASSUME NEW x \in Runs \ {r} PROVE RunInv(x)'
    OBVIOUS
  <2>1. Same(x)
    BY DEF Same, Alone, Promised, Owed
  <2> QED
    BY <1>2, <2>1, ReadyFacts, SameKeeps DEF Steady, Spends
<1>5. CASE Still(r)
  <2>1. Known(r)' /\ Owned(r)' /\ Waiting(r)'
    BY <1>1, <1>2, <1>5
       DEF RunInv, Known, Owned, Waiting, Still, Alive, Executing, Promised, Serving
  <2>2. Faultless(r)'
    BY <1>1, <1>2, <1>5, StatusSplit
       DEF RunInv, Faultless, Still, Alive, Executing, Serving, Stopped, Spends, Owed, CancelStatus,
           ActiveRun, Active, UnderWay
  <2> QED
    BY <1>3, <1>4, <2>1, <2>2 DEF OwnInv, RunInv
<1>6. CASE /\ ActiveRun(r) /\ Stopped(r)' /\ status'[r] = CancelStatus(status[r])
  <2>1. /\ status[r] \in Active /\ status'[r] \notin {"absent", "queued"}
        /\ status[r] \in {"running", "cancelling"} <=> status'[r] \in {"running", "cancelling"}
        /\ status[r] \in Past => status'[r] \in Past
    BY <1>6 DEF ActiveRun, Active, CancelStatus, Past, Terminal
  <2>2. Known(r)'
    BY <1>1, <2>1 DEF RunInv, Known, Alive, Executing, Promised
  <2>3. Owned(r)' /\ Waiting(r)'
    BY <1>1, <1>2, <2>1 DEF RunInv, Owned, Waiting, Alive, Serving
  <2>4. Faultless(r)'
    BY <1>1, <1>2, <1>6, <2>1 DEF RunInv, Faultless, Alive, Executing, Serving, Spends
  <2> QED
    BY <1>3, <1>4, <2>2, <2>3, <2>4 DEF OwnInv, RunInv
<1> QED
  BY <1>5, <1>6

(* The API and the rounds of the recovery loop.                            *)
LEMMA AroundKeeps ==
  ASSUME Ready, NEW r \in Runs,
         ApiCancel(r) \/ Ring(r) \/ ApiReconcile(r) \/ Ages(r) \/ LoopStep(r)
  PROVE  OwnInv'
<1>0. RunInv(r) /\ Forward(r) /\ TypeOK /\ BudgetOK /\ ProcessInv
  BY ReadyFacts
<1>1. CASE Ring(r) \/ Ages(r)
  BY <1>1, NothingKeeps DEF Ring, Ages, Reads, process, requests, workers, watch
<1>2. CASE ApiCancel(r)
  <2>1. /\ Serving /\ (Sound \/ Fault)
        /\ UNCHANGED <<phase, todo, client, w, lost, page, asked, o>>
        /\ (StopRun(r, "user") \/ UNCHANGED jvars)
    BY <1>2 DEF ApiCancel, Call, process, workers, watch
  <2>2. CASE UNCHANGED jvars
    BY <2>1, <2>2, NothingKeeps
  <2>3. CASE StopRun(r, "user") /\ ~UNCHANGED jvars
    <3>1. /\ Alone(r) /\ store' = store /\ UNCHANGED <<seen, request>>
          /\ ActiveRun(r) /\ Stopped(r)' /\ status'[r] = CancelStatus(status[r])
      BY <1>0, <2>3, StopAlone DEF Reasons
    <3> QED
      BY <2>1, <3>1, StopKeeps
  <2> QED
    BY <2>1, <2>2, <2>3
<1>3. ASSUME phase \in {"up", "gather", "stop", "drain"}, Readable, status[r] = "unknown",
             Alone(r), store' = store, status'[r] = status[r],
             UNCHANGED <<phase, todo, client, w, lost, o>>, Sound \/ Fault,
             asked' \subseteq asked \cup {r}, page' \subseteq page \cup {r}
      PROVE  OwnInv'
  <2>1. PastMove(r)
    BY <1>3 DEF PastMove, Past, Readable
  <2>2. budget' = Budget => ~Executing(r)
    BY <1>0, <1>3, SpendsLess DEF RunInv, Faultless, Spends
  <2> QED
    BY <1>3, <2>1, <2>2, PastKeeps
<1>4. CASE ApiReconcile(r) \/ LoopReconciles(r)
  <2>1. Alone(r) /\ Still(r) /\ store' = store
    BY <1>4, ReadsAlone DEF ApiReconcile, LoopReconciles
  <2> QED
    BY <1>3, <1>4, <2>1
       DEF ApiReconcile, LoopReconciles, Serving, Looping, Still, process, requests, workers
<1>5. CASE LoopLists(r)
  <2>1. Alone(r) /\ store' = store /\ status'[r] = status[r]
    BY <1>0, <1>5, GetAlone DEF LoopLists
  <2> QED
    BY <1>3, <1>5, <2>1 DEF LoopLists, Looping, Overdue, process, requests, workers
<1>6. CASE LoopEscalates(r)
  <2>1. status[r] \in Past /\ status'[r] \in Past
    BY <1>0, <1>6 DEF LoopEscalates, RunInv, Known, Forward
  <2>2. Transition("loop", r, "unknown", "manual_required") => Alone(r) /\ store' = store
    BY <1>0, TransitionAlone
  <2>3. Alone(r) /\ store' = store /\ (Sound \/ Fault)
    BY <1>6, <2>2, ReadsAlone DEF LoopEscalates, Call
  <2>4. PastMove(r)
    BY <1>6, <2>1, <2>3 DEF LoopEscalates, Call, PastMove, Readable, process, requests, workers
  <2>5. budget' = Budget => ~Executing(r)
    BY <1>0, <2>1, <2>3, SpendsLess DEF RunInv, Faultless, Spends, Past, Terminal
  <2> QED
    BY <1>6, <2>4, <2>5, PastKeeps DEF LoopEscalates, Looping
<1>7. CASE LoopRecovers(r)
  <2>0. /\ Looping /\ r \in lost /\ (Sound \/ Fault)
        /\ UNCHANGED <<phase, todo, client, w, asked, page, o>>
    BY <1>7 DEF LoopRecovers, Call, process, requests, watch
  <2>1. budget' = Budget => ~Executing(r)
    BY <1>0, <2>0, SpendsLess DEF RunInv, Faultless, Spends
  <2>2. CASE Recover(r) /\ lost' \subseteq lost /\ lost \ {r} \subseteq lost'
    <3>1. PastMove(r)
      BY <1>0, <2>0, <2>2, RecoverAlone DEF PastMove
    <3> QED
      BY <2>0, <2>1, <3>1, PastKeeps DEF Looping
  <2>3. CASE UNCHANGED jvars /\ UNCHANGED lost
    BY <2>0, <2>3, NothingKeeps
  <2>4. CASE ~ActiveRun(r) /\ Reads /\ lost' = lost \ {r}
    <3>1. status[r] \in Past
      BY <1>0, <2>0, <2>4, StatusSplit DEF RunInv, Known, ActiveRun, Active
    <3>2. Alone(r) /\ Still(r) /\ store' = store
      BY <2>4, ReadsAlone
    <3>3. PastMove(r)
      BY <2>0, <2>4, <3>1, <3>2 DEF PastMove, Still, Readable
    <3> QED
      BY <2>0, <2>1, <3>3, PastKeeps DEF Looping
  <2> QED
    BY <1>7, <2>2, <2>3, <2>4 DEF LoopRecovers, Call
<1> QED
  BY <1>1, <1>2, <1>4, <1>5, <1>6, <1>7 DEF LoopStep

-----------------------------------------------------------------------------
(* The process.  Whatever ends it, nobody is left at work, and the runs it *)
(* left active are visited before the next one serves.                     *)
LEMMA VanishKeeps ==
  ASSUME Ready, Vanishes
  PROVE  OwnInv'
<1>1. /\ UNCHANGED <<status, stop, seen, request>> /\ phase' = "down" /\ store' = "closed"
      /\ lost' = {} /\ asked' = {} /\ page' = {}
  BY DEF Vanishes, Crash, journal
<1>2. /\ \A r \in Runs : w'[r].pc = "none" /\ o'[r].pc = "none"
      /\ \A a \in Clients : client'[a].pc \in {"idle", "done"}
  BY NoJobRecord DEF Vanishes, NoLook, Look, NoStart
<1>3. Resting'
  BY <1>1, <1>2 DEF Resting, Alive
<1>4. ProcessInv'
  BY <1>1, <1>3 DEF ProcessInv
<1>5. ASSUME NEW r \in Runs PROVE RunInv(r)'
  <2>1. RunInv(r)
    BY ReadyFacts
  <2>2. Known(r)'
    BY <1>1, <1>2, <2>1 DEF RunInv, Known, Alive, Executing, Promised
  <2>3. Owned(r)' /\ Waiting(r)' /\ Faultless(r)'
    BY <1>1, <1>2 DEF Owned, Waiting, Faultless, Serving, Alive, Executing, Handling
  <2> QED
    BY <2>2, <2>3 DEF RunInv
<1> QED
  BY <1>4, <1>5 DEF OwnInv

(* The phase changes and nothing else that concerns a run.                 *)
LEMMA PhaseKeeps ==
  ASSUME Ready, UNCHANGED jvars, Sound, UNCHANGED <<client, w, lost, asked, o>>,
         page' \subseteq page,
         \/ phase = "recover" /\ todo = {} /\ phase' = "up" /\ todo' = todo
         \/ phase = "up" /\ phase' = "gather" /\ todo' = todo
         \/ /\ phase = "gather" /\ phase' = "stop" /\ todo' = {r \in Runs : Alive(r)}
            /\ \A a \in Clients : client[a].pc \notin {"accepting", "made"}
         \/ phase = "stop" /\ phase' = "drain" /\ todo = {} /\ todo' = todo
  PROVE  OwnInv'
<1>1. ProcessInv /\ UNCHANGED <<store, status, stop, seen, request, fresh, budget>>
  BY DEF Ready, OwnInv, jvars, journal, Sound
<1>2. ProcessInv'
  BY <1>1 DEF ProcessInv, Resting, Readable, Alive
<1>3. ASSUME NEW r \in Runs PROVE RunInv(r)'
  <2>1. RunInv(r) /\ status[r] \in {"absent", "queued", "running", "cancelling"} \cup Past
    BY ReadyFacts, StatusSplit
  <2>2. phase = "recover" => status[r] \notin UnderWay
    BY <1>1 DEF ProcessInv
  <2>3. Known(r)' /\ Waiting(r)'
    BY <1>1, <2>1 DEF RunInv, Known, Waiting, Alive, Executing, Promised
  <2>4. Owned(r)'
    BY <1>1, <2>1, <2>2 DEF RunInv, Owned, Alive, Serving, Readable, UnderWay
  <2>5. Faultless(r)'
    BY <1>1, <2>1, <2>2
       DEF RunInv, Faultless, Alive, Executing, Serving, Readable, UnderWay, Stopped, Owed
  <2> QED
    BY <2>3, <2>4, <2>5 DEF RunInv
<1> QED
  BY <1>2, <1>3 DEF OwnInv

LEMMA BootKeeps == Ready /\ Boot => OwnInv'
<1> SUFFICES ASSUME Ready, Boot PROVE OwnInv'
  OBVIOUS
<1>1. ProcessInv /\ UNCHANGED <<status, stop, seen, request, fresh, budget, client, w, lost, asked, page, o>>
  BY DEF Ready, OwnInv, Boot, Initialize, journal, Sound, requests, workers, watch
<1>2. /\ phase = "down" /\ Resting
      /\ \/ phase' = "recover" /\ todo' = {r \in Runs : ActiveRun(r)} /\ store' = "open"
         \/ phase' = "up" /\ store' = "refused"
  BY <1>1 DEF Boot, Initialize, ProcessInv
<1>3. ProcessInv'
  BY <1>1, <1>2 DEF ProcessInv, Resting, Readable, Alive, UnderWay, ActiveRun, Active
<1>4. ASSUME NEW r \in Runs PROVE RunInv(r)'
  <2>1. RunInv(r) /\ ~Alive(r) /\ r \notin lost
    BY <1>2, ReadyFacts DEF Resting
  <2>2. Known(r)' /\ Waiting(r)'
    BY <1>1, <2>1 DEF RunInv, Known, Waiting, Alive, Executing, Promised
  <2>3. Owned(r)' /\ Faultless(r)'
    BY <1>1, <1>2, <2>1 DEF Owned, Faultless, Alive, Executing, Serving, Readable
  <2> QED
    BY <2>2, <2>3 DEF RunInv
<1> QED
  BY <1>3, <1>4 DEF OwnInv

LEMMA BootRecoversKeeps == ASSUME Ready, NEW r \in Runs, BootRecovers(r) PROVE OwnInv'
<1>1. /\ ProcessInv /\ RunInv(r) /\ TypeOK
      /\ UNCHANGED <<phase, budget, client, w, lost, asked, page, o>>
      /\ phase = "recover" /\ todo' = todo \ {r} /\ Recover(r)
  BY ReadyFacts DEF BootRecovers, Sound, requests, workers, watch
<1>2. /\ Alone(r) /\ UNCHANGED <<stop, seen, request>> /\ status'[r] \in Past
      /\ Readable /\ Readable' /\ (store' = "failed" => store = "failed")
  BY <1>1, RecoverAlone
<1>3. Resting
  BY <1>1 DEF ProcessInv
<1>4. ProcessInv'
  <2>1. Resting'
    BY <1>1, <1>3 DEF Resting, Alive
  <2>2. \A x \in Runs : status'[x] \in UnderWay => x \in todo'
    BY <1>1, <1>2 DEF ProcessInv, Alone, UnderWay, Past, Terminal
  <2> QED
    BY <1>1, <1>2, <2>1, <2>2 DEF ProcessInv
<1>5. ASSUME NEW x \in Runs PROVE RunInv(x)'
  <2>1. RunInv(x) /\ ~Alive(x) /\ o[x].pc = "none" /\ x \notin lost /\ Forward(x)
    BY <1>3, ReadyFacts DEF Resting
  <2>2. /\ x \notin asked /\ x \notin page /\ ~Promised(x)
    BY <1>3 DEF Resting, Promised
  <2>3. /\ status'[x] \in {"absent", "queued"} => status[x] = status'[x]
    BY <1>2 DEF Alone, Past, Terminal
  <2>4. Known(x)'
    BY <1>1, <1>2, <2>1, <2>2, <2>3 DEF RunInv, Known, Alive, Executing, Promised
  <2>5. Owned(x)' /\ Waiting(x)' /\ Faultless(x)'
    BY <1>1, <2>1 DEF Owned, Waiting, Faultless, Alive, Executing, Serving, Handling
  <2> QED
    BY <2>4, <2>5 DEF RunInv
<1> QED
  BY <1>4, <1>5 DEF OwnInv

LEMMA StoreFailsKeeps == Ready /\ StoreFails => OwnInv'
<1> SUFFICES ASSUME Ready, StoreFails PROVE OwnInv'
  OBVIOUS
<1>1. /\ ProcessInv /\ BudgetOK
      /\ UNCHANGED <<status, stop, seen, request, fresh, phase, todo, client, w, lost, asked, page, o>>
      /\ store = "open" /\ store' = "failed" /\ Fault
  BY DEF Ready, TypesInv, OwnInv, StoreFails, WriteFault, journal, process, requests, workers, watch
<1>2. budget' # Budget /\ Readable /\ Readable'
  BY <1>1, SpendsLess DEF Readable
<1>3. ProcessInv'
  BY <1>1, <1>2 DEF ProcessInv, Resting, Alive
<1>4. ASSUME NEW r \in Runs PROVE RunInv(r)'
  <2>1. RunInv(r)
    BY ReadyFacts
  <2>2. Known(r)' /\ Waiting(r)' /\ Owned(r)'
    BY <1>1, <1>2, <2>1 DEF RunInv, Known, Waiting, Owned, Alive, Executing, Promised, Serving
  <2> QED
    BY <1>2, <2>2 DEF RunInv, Faultless
<1> QED
  BY <1>3, <1>4 DEF OwnInv

LEMMA CloseStopsKeeps == ASSUME Ready, NEW r \in Runs, CloseStops(r) PROVE OwnInv'
<1>1. /\ RunInv(r) /\ TypeOK /\ BudgetOK /\ phase = "stop" /\ Serving
      /\ todo' = todo \ {r}
      /\ UNCHANGED <<phase, client, w, lost, page, asked, o>>
      /\ Call(StopAccepted(r), StopRun(r, "shutdown"), TRUE, TRUE)
  BY ReadyFacts DEF CloseStops, Serving, workers, watch
<1>2. CASE StopRun(r, "shutdown") /\ (Sound \/ Fault)
  <2>1. /\ Alone(r) /\ store' = store /\ seen'[r] = seen[r] /\ request'[r] = request[r]
    BY <1>1, <1>2, StopAlone DEF Reasons
  <2>2. \/ Still(r) /\ (Stopped(r) \/ status[r] \notin UnderWay)
        \/ ActiveRun(r) /\ Stopped(r)' /\ status'[r] = CancelStatus(status[r])
    BY <1>1, <1>2, StopAlone, ReadsAlone
       DEF Reasons, NoNeedToStop, TerminalRun, Terminal, UnderWay
  <2> QED
    BY <1>1, <1>2, <2>1, <2>2, StopKeeps
<1>3. CASE UNCHANGED jvars /\ (Fault \/ (~StopAccepted(r) /\ Sound))
  <2>1. Alone(r) /\ Still(r) /\ store' = store
    BY <1>3, ReadsAlone
  <2>2. ASSUME budget' = Budget, Alive(r), status[r] \in UnderWay
        PROVE  Stopped(r)
    <3>1. Sound /\ ~StopAccepted(r) /\ budget = Budget
      BY <1>1, <1>3, <2>2, SpendsLess DEF Spends
    <3> QED
      BY <2>2, <3>1, BodyFacts
         DEF StopAccepted, NoNeedToStop, CancelOK, ActiveRun, Active, UnderWay
  <2> QED
    BY <1>1, <1>3, <2>1, <2>2, StopKeeps DEF Still
<1> QED
  BY <1>1, <1>2, <1>3 DEF Call

LEMMA CloseCancelsKeeps == ASSUME Ready, NEW r \in Runs, CloseCancels(r) PROVE OwnInv'
<1>1. /\ RunInv(r) /\ BudgetOK /\ ProcessInv /\ w \in [Runs -> JobRecord]
      /\ phase = "drain" /\ Alive(r) /\ Reads /\ Sound
      /\ UNCHANGED <<phase, todo, client, asked, page, o>>
  BY ReadyFacts DEF CloseCancels, requests, watch
<1>2. Alone(r) /\ Still(r) /\ store' = store
  BY <1>1, ReadsAlone
<1>3. CASE InBody(r)
  <2>1. Sets(r, Job("stopTimeout", FALSE, "cancelled"))
    BY <1>3 DEF CloseCancels, Interrupted, Handled
  <2>2. Stirs(r) /\ lost' = lost /\ w'[r] = Job("stopTimeout", FALSE, "cancelled")
    BY <1>1, <2>1, SetsStirs DEF Sets
  <2>3. Outcome(r)
    BY <1>1, <2>2, HandledOutcome DEF Job, Handling
  <2> QED
    BY <1>1, <1>2, <2>2, <2>3, MoveKeeps DEF WorkerMove, Still
<1>4. CASE ~InBody(r)
  <2>1. Becomes(r, NoJob) /\ lost' = lost \cup {r}
    BY <1>4 DEF CloseCancels, Lost
  <2>2. Stirs(r) /\ w'[r] = NoJob
    BY <1>1, <2>1, SetsStirs
  <2>3. budget' = Budget => status'[r] # "queued"
    BY <1>1, <1>2, ReadyFacts DEF RunInv, Faultless, ProcessInv, Sound, UnderWay, Still
  <2>4. Outcome(r)
    BY <2>1, <2>2, <2>3, NoJobRecord DEF Outcome, Alive, Executing, Handling
  <2> QED
    BY <1>1, <1>2, <2>2, <2>4, MoveKeeps DEF WorkerMove, Still
<1> QED
  BY <1>3, <1>4

LEMMA CloseCancelsObserverKeeps ==
  ASSUME Ready, NEW r \in Runs, CloseCancelsObserver(r)
  PROVE  OwnInv'
<1>1. /\ RunInv(r) /\ BudgetOK /\ ProcessInv
      /\ o \in [Runs -> [pc: ObserverPc, out: Outcomes \cup {"-"}, tries: 0..Attempts]]
      /\ o[r].pc # "none" /\ Departs(r) /\ Reads /\ Sound
      /\ UNCHANGED <<phase, todo, client, w, lost, asked, page>>
  BY ReadyFacts DEF CloseCancelsObserver, Ready, TypesInv, WatchOK, Aside, process, requests, workers
<1>2. phase \notin {"down", "recover"} /\ Readable /\ status[r] \in Past
  BY <1>1 DEF ProcessInv, Resting, RunInv, Known
<1>3. Alone(r) /\ Still(r) /\ store' = store
  BY <1>1, ReadsAlone
<1>4. PastMove(r)
  BY <1>1, <1>2, <1>3 DEF PastMove, Still, Departs, Readable
<1>5. budget' = Budget => ~Executing(r)
  BY <1>1, <1>2, SpendsLess DEF RunInv, Faultless, Spends, Past, Terminal
<1> QED
  BY <1>2, <1>4, <1>5, PastKeeps

LEMMA ProcessKeeps ==
  ASSUME Ready, BootStep \/ CloseStep \/ Kill \/ StoreFails \/ CloseBegins
  PROVE  OwnInv'
<1>1. CASE BootDone \/ CloseBegins \/ CloseGathers \/ CloseDrains
  BY <1>1, PhaseKeeps
     DEF BootDone, CloseBegins, CloseGathers, CloseDrains, Reads, requests, workers, watch
<1>2. CASE BootFails \/ Kill \/ CloseDone
  BY <1>2, VanishKeeps DEF BootFails, Kill, CloseDone
<1> QED
  BY <1>1, <1>2, BootKeeps, BootRecoversKeeps, StoreFailsKeeps, CloseStopsKeeps,
     CloseCancelsKeeps, CloseCancelsObserverKeeps DEF BootStep, CloseStep

-----------------------------------------------------------------------------
(* The clients.  A client that goes on without having been told of a run.  *)
LEMMA GoesKeeps ==
  ASSUME Ready, NEW a \in Clients, NEW pc \in {"planned", "accepting", "done"},
         Goes(a, pc), client[a].pc # "made", UNCHANGED jvars, Sound,
         UNCHANGED <<phase, todo, w, lost, asked, page, o>>,
         pc # "done" => phase = "up" /\ Readable
  PROVE  OwnInv'
<1>1. /\ ProcessInv /\ UNCHANGED <<store, status, stop, seen, request, fresh, budget>>
      /\ client \in [Clients -> [pc: {"idle", "planned", "accepting", "made", "done"},
                                 run: Runs \cup {Nobody}, queued: BOOLEAN]]
  BY DEF Ready, OwnInv, TypesInv, RequestsOK, jvars, journal, Sound
<1>2. client'[a].pc = pc /\ \A b \in Clients \ {a} : client'[b] = client[b]
  BY <1>1 DEF Goes
<1>3. ProcessInv'
  BY <1>1, <1>2 DEF ProcessInv, Resting, Readable, Alive
<1>4. ASSUME NEW x \in Runs PROVE RunInv(x)'
  <2>1. Promised(x)' => Promised(x)
    BY <1>2 DEF Promised
  <2>2. Owed(x) => Owed(x)'
    BY <1>2 DEF Owed
  <2>3. Same(x) /\ Steady
    BY <1>1, <2>1, <2>2 DEF Same, Steady, Readable
  <2> QED
    BY <2>3, ReadyFacts, SameKeeps
<1> QED
  BY <1>3, <1>4 DEF OwnInv

(* A client that is told of a run: one that exists, or one it has created. *)
LEMMA MadeKeeps ==
  ASSUME Ready, NEW a \in Clients, NEW r \in Runs, NEW b \in BOOLEAN,
         client[a].pc = "accepting", Made(a, r, b), UNCHANGED jvars, Sound,
         UNCHANGED <<phase, todo, w, lost, asked, page, o>>,
         status[r] # "absent"
  PROVE  OwnInv'
<1>1. /\ ProcessInv /\ UNCHANGED <<store, status, stop, seen, request, fresh, budget>>
      /\ client \in [Clients -> [pc: {"idle", "planned", "accepting", "made", "done"},
                                 run: Runs \cup {Nobody}, queued: BOOLEAN]]
  BY DEF Ready, OwnInv, TypesInv, RequestsOK, jvars, journal, Sound
<1>2. /\ client'[a] = [pc |-> "made", run |-> r, queued |-> b]
      /\ \A c \in Clients \ {a} : client'[c] = client[c]
  BY <1>1 DEF Made
<1>3. phase \notin {"down", "recover", "stop", "drain"} /\ Readable
  BY <1>1 DEF ProcessInv, Resting
<1>4. ProcessInv'
  BY <1>1, <1>3 DEF ProcessInv, Readable
<1>5. ASSUME NEW x \in Runs PROVE RunInv(x)'
  <2>1. x # r /\ Promised(x)' => Promised(x)
    BY <1>2 DEF Promised
  <2>2. Owed(x) => Owed(x)'
    BY <1>2 DEF Owed
  <2>3. CASE x # r
    <3>1. Same(x) /\ Steady
      BY <1>1, <2>1, <2>2, <2>3 DEF Same, Steady, Readable
    <3> QED
      BY <3>1, ReadyFacts, SameKeeps
  <2>4. CASE x = r
    <3>1. RunInv(r)
      BY ReadyFacts
    <3>2. Known(r)' /\ Owned(r)' /\ Waiting(r)'
      BY <1>1, <3>1 DEF RunInv, Known, Owned, Waiting, Alive, Executing, Serving, Readable
    <3>3. Faultless(r)'
      BY <1>1, <3>1, <2>2, <2>4 DEF RunInv, Faultless, Alive, Executing, Serving, Readable, Stopped
    <3> QED
      BY <2>4, <3>2, <3>3 DEF RunInv
  <2> QED
    BY <2>3, <2>4
<1> QED
  BY <1>4, <1>5 DEF OwnInv

LEMMA ServedKeeps == ASSUME Ready, NEW a \in Clients, AcceptServed(a) PROVE OwnInv'
<1>1. /\ client[a].pc = "accepting" /\ UNCHANGED jvars /\ Sound
      /\ UNCHANGED <<phase, todo, w, lost, asked, page, o>>
  BY DEF AcceptServed, OtherThanClients, Reads, process, watch, workers
<1>2. PICK r \in Prior(Asks[a].request) :
        Made(a, r, status[r] = "queued") \/ Goes(a, "done")
  BY DEF AcceptServed
<1>3. r \in Runs /\ request[r].id = Asks[a].request /\ Asks[a].request # None
  BY AsksAssumption, NoneAssumption DEF Prior
<1>4. status[r] # "absent"
  BY <1>3, ReadyFacts DEF RunInv, Known
<1>5. CASE Made(a, r, status[r] = "queued")
  BY <1>1, <1>3, <1>4, <1>5, MadeKeeps
<1>6. CASE Goes(a, "done")
  BY <1>1, <1>6, GoesKeeps
<1> QED
  BY <1>2, <1>5, <1>6

LEMMA CreatesKeeps == ASSUME Ready, NEW a \in Clients, AcceptCreates(a) PROVE OwnInv'
<1>1. PICK r \in Runs :
        /\ Create(r, Asks[a].task, Asks[a].request, Asks[a].hash, Asks[a].keys, Asks[a].plan)
        /\ (Made(a, r, TRUE) /\ Sound) \/ (Goes(a, "done") /\ Fault)
  BY DEF AcceptCreates
<1>2. /\ ProcessInv /\ TypeOK /\ BudgetOK /\ RunInv(r)
      /\ client \in [Clients -> [pc: {"idle", "planned", "accepting", "made", "done"},
                                 run: Runs \cup {Nobody}, queued: BOOLEAN]]
      /\ client[a].pc = "accepting"
      /\ UNCHANGED <<phase, todo, w, lost, asked, page, o>>
  BY ReadyFacts DEF Ready, TypesInv, RequestsOK, AcceptCreates, OtherThanClients, process, watch,
                    workers
<1>3. /\ Alone(r) /\ status[r] = "absent" /\ status'[r] = "queued"
      /\ UNCHANGED <<store, stop, seen>>
  BY <1>1, <1>2 DEF Create, Touch, TypeOK, Alone
<1>4. phase \notin {"down", "recover", "stop", "drain"} /\ Readable
  BY <1>2 DEF ProcessInv, Resting
<1>5. Spends
  BY <1>1, <1>2, SpendsLess
<1>6. ProcessInv'
  BY <1>2, <1>3, <1>4, <1>5 DEF ProcessInv, Readable, Spends
<1>7. ASSUME NEW x \in Runs \ {r} PROVE RunInv(x)'
  <2>1. \A c \in Clients \ {a} : client'[c] = client[c]
    BY <1>1, <1>2 DEF Made, Goes
  <2>2. client'[a].pc = "done" \/ client'[a].run = r
    BY <1>1, <1>2 DEF Made, Goes
  <2>3. Promised(x)' => Promised(x)
    BY <2>1, <2>2 DEF Promised
  <2>4. Owed(x) => Owed(x)'
    <3> SUFFICES ASSUME NEW c \in Clients, client[c] = [pc |-> "made", run |-> x, queued |-> TRUE]
                 PROVE  Owed(x)'
      BY DEF Owed
    <3>1. c # a
      BY <1>2
    <3> QED
      BY <2>1, <3>1 DEF Owed
  <2>5. Same(x) /\ Steady
    BY <1>2, <1>3, <1>5, <2>3, <2>4 DEF Same, Steady, Readable, Alone, Spends
  <2> QED
    BY <2>5, ReadyFacts, SameKeeps
<1>8. RunInv(r)'
  <2>1. ~Alive(r) /\ r \notin lost /\ r \notin asked /\ r \notin page /\ o[r].pc = "none"
    BY <1>2, <1>3 DEF RunInv, Known, Past, Terminal
  <2>2. Known(r)'
    BY <1>2, <1>3, <2>1 DEF RunInv, Known, Alive, Executing
  <2>3. Owned(r)' /\ Waiting(r)'
    BY <1>2, <1>3, <2>1 DEF Owned, Waiting, Alive, Handling
  <2>4. budget' = Budget => Owed(r)'
    <3>1. budget' = Budget => Made(a, r, TRUE)
      BY <1>1, <1>2, SpendsLess
    <3>2. Made(a, r, TRUE) => client'[a] = [pc |-> "made", run |-> r, queued |-> TRUE]
      BY <1>2 DEF Made
    <3> QED
      BY <3>1, <3>2 DEF Owed
  <2>5. Faultless(r)'
    BY <1>2, <2>1, <2>4 DEF Faultless, Alive, Executing
  <2> QED
    BY <2>2, <2>3, <2>5 DEF RunInv
<1> QED
  BY <1>6, <1>7, <1>8 DEF OwnInv

LEMMA SpawnKeeps == ASSUME Ready, NEW a \in Clients, Spawn(a) PROVE OwnInv'
<1> DEFINE r == client[a].run
           job == Job("slot", FALSE, "-")
<1>1. /\ ProcessInv /\ UNCHANGED <<store, status, stop, seen, request, fresh, budget>>
      /\ UNCHANGED <<phase, todo, lost, asked, page, o>>
      /\ client[a].pc = "made" /\ Goes(a, "done")
      /\ client \in [Clients -> [pc: {"idle", "planned", "accepting", "made", "done"},
                                 run: Runs \cup {Nobody}, queued: BOOLEAN]]
      /\ w \in [Runs -> JobRecord]
  <2>1. /\ ProcessInv /\ w \in [Runs -> JobRecord]
        /\ client \in [Clients -> [pc: {"idle", "planned", "accepting", "made", "done"},
                                   run: Runs \cup {Nobody}, queued: BOOLEAN]]
    BY DEF Ready, OwnInv, TypesInv, RequestsOK, WorkersOK
  <2>2. UNCHANGED <<store, status, stop, seen, request, fresh, budget>>
    BY DEF Spawn, Reads, Sound, jvars, journal
  <2>3. /\ UNCHANGED <<phase, todo, lost, asked, page, o>>
        /\ client[a].pc = "made" /\ Goes(a, "done")
    BY DEF Spawn, OtherThanClients, process, watch, workers
  <2> QED
    BY <2>1, <2>2, <2>3
<1>2. \A x \in Runs : (w'[x] = w[x] /\ ((x = r /\ client[a].queued) => Alive(x)))
                        \/ (x = r /\ ~Alive(x) /\ w'[x] = job)
  <2>1. CASE client[a].queued /\ ~Alive(r)
    <3>1. w' = [w EXCEPT ![r] = job]
      BY <2>1 DEF Spawn
    <3> HIDE DEF job, r
    <3> QED
      BY <1>1, <2>1, <3>1
  <2>2. CASE ~(client[a].queued /\ ~Alive(r))
    <3>1. UNCHANGED w
      BY <2>2 DEF Spawn, workers
    <3>2. \A x \in Runs : x = r /\ client[a].queued => Alive(x)
      BY <2>2
    <3> QED
      BY <3>1, <3>2
  <2> QED
    BY <2>1, <2>2
<1>3. job.pc = "slot"
  BY DEF Job
<1> HIDE DEF job
<1>4. phase \notin {"down", "recover", "stop", "drain"} /\ Readable /\ Serving
  BY <1>1 DEF ProcessInv, Resting, Ready, TypesInv, ProcessOK, Serving
<1>5. client'[a].pc = "done" /\ \A b \in Clients \ {a} : client'[b] = client[b]
  BY <1>1 DEF Goes
<1>6. ProcessInv'
  BY <1>1, <1>4 DEF ProcessInv, Readable
<1>7. ASSUME NEW x \in Runs PROVE RunInv(x)'
  <2>1. RunInv(x)
    BY ReadyFacts
  <2>2. Promised(x)' => Promised(x)
    BY <1>5 DEF Promised
  <2>3. CASE w'[x] = w[x] /\ ((x = r /\ client[a].queued) => Alive(x))
    <3>1. Owed(x) => Owed(x)' \/ Alive(x)
      BY <1>5, <2>3 DEF Owed
    <3>2. Known(x)' /\ Owned(x)' /\ Waiting(x)'
      BY <1>1, <2>1, <2>2, <2>3
         DEF RunInv, Known, Owned, Waiting, Alive, Executing, Serving, Readable
    <3>3. Faultless(x)'
      BY <1>1, <2>1, <2>3, <3>1
         DEF RunInv, Faultless, Alive, Executing, Serving, Readable, Stopped
    <3> QED
      BY <3>2, <3>3 DEF RunInv
  <2>4. CASE x = r /\ ~Alive(x) /\ w'[x] = job
    <3>1. status[x] # "absent"
      BY <1>1, <2>1, <2>4 DEF RunInv, Known, Promised
    <3>2. Known(x)'
      BY <1>1, <1>3, <2>1, <2>4, <3>1 DEF RunInv, Known, Executing
    <3>3. Owned(x)' /\ Waiting(x)'
      BY <1>1, <1>3, <1>4, <2>1, <2>4 DEF RunInv, Owned, Waiting, Alive, Handling
    <3>4. Faultless(x)'
      BY <1>1, <1>3, <1>4, <2>1, <2>4 DEF RunInv, Faultless, Alive, Executing
    <3> QED
      BY <3>2, <3>3, <3>4 DEF RunInv
  <2> QED
    BY <1>2, <2>3, <2>4
<1> QED
  BY <1>6, <1>7 DEF OwnInv

LEMMA ClientKeeps == Ready /\ ClientStep => OwnInv'
<1> SUFFICES ASSUME Ready, NEW a \in Clients, Lookup(a) \/ Enter(a) \/ Accept(a) \/ Spawn(a)
             PROVE  OwnInv'
  BY DEF ClientStep
<1>1. CASE Lookup(a)
  BY <1>1, GoesKeeps DEF Lookup, OtherThanClients, Reads, process, watch, workers
<1>2. CASE Enter(a)
  <2>1. Readable
    BY <1>2 DEF Enter, Ready, OwnInv, ProcessInv, Resting
  <2> QED
    BY <1>2, <2>1, GoesKeeps DEF Enter, OtherThanClients, Reads, process, watch, workers
<1>3. CASE AcceptRefused(a)
  BY <1>3, GoesKeeps DEF AcceptRefused, OtherThanClients, Reads, process, watch, workers
<1> QED
  BY <1>1, <1>2, <1>3, ServedKeeps, CreatesKeeps, SpawnKeeps DEF Accept

-----------------------------------------------------------------------------
LEMMA WorkerKeeps == ASSUME Ready, NEW r \in Runs, WorkerStep(r) PROVE OwnInv'
BY SlotKeeps, ReadKeeps, ClaimKeeps, StopFirstKeeps, AssessKeeps, FinishKeeps, DecideKeeps,
   NoteKeeps DEF WorkerStep

LEMMA OwnStart == ServiceInit => OwnInv
<1> SUFFICES ASSUME ServiceInit PROVE OwnInv
  OBVIOUS
<1>1. Resting
  BY NoJobRecord DEF ServiceInit, Resting, NoStart, Alive, NoLook, Look
<1>2. ProcessInv
  BY <1>1 DEF ServiceInit, Init, ProcessInv
<1>3. ASSUME NEW r \in Runs PROVE RunInv(r)
  <2>1. /\ status[r] = "absent" /\ request[r].id = None /\ \A s \in Steps : seen[r][s] = {}
        /\ phase = "down"
    BY DEF ServiceInit, Init, NoRequest
  <2>2. /\ ~Alive(r) /\ r \notin lost /\ r \notin asked /\ r \notin page /\ o[r].pc = "none"
        /\ ~Promised(r)
    BY <1>1 DEF Resting, Promised
  <2>3. Known(r)
    BY <2>1, <2>2 DEF Known, Alive, Executing
  <2>4. Owned(r) /\ Waiting(r) /\ Faultless(r)
    BY <2>1, <2>2 DEF Owned, Waiting, Faultless, Alive, Executing, Serving
  <2> QED
    BY <2>3, <2>4 DEF RunInv
<1> QED
  BY <1>2, <1>3 DEF OwnInv

LEMMA OwnInvariance == ServiceSpec => []OwnInv
<1>1. TypesInv /\ TypesInv' /\ IInv /\ OwnInv /\ [Next]_jvars /\ [ServiceNext]_svars => OwnInv'
  <2> SUFFICES ASSUME TypesInv, TypesInv', IInv, OwnInv, [Next]_jvars, [ServiceNext]_svars
               PROVE  OwnInv'
    OBVIOUS
  <2>1. Ready
    BY ForwardStep DEF Ready
  <2>2. CASE ServiceNext
    BY <2>1, <2>2, ClientKeeps, WorkerKeeps, ExecutorKeeps, LookKeeps, AroundKeeps, ProcessKeeps
       DEF ServiceNext
  <2>3. CASE UNCHANGED svars
    BY <2>1, <2>3, NothingKeeps DEF svars, process, requests, workers, watch, Sound
  <2> QED
    BY <2>2, <2>3
<1>2. ServiceSpec => [][Next]_jvars /\ []IInv
  BY ServiceImplementsJournal, Invariance, PTL DEF ImplementsJournal, Spec
<1>3. ServiceSpec => []TypesInv
  BY TypesStart, TypesKept, PTL DEF ServiceSpec
<1> QED
  BY <1>1, <1>2, <1>3, OwnStart, PTL DEF ServiceSpec

(* Nothing is sent twice and no run is left to nobody, through failures,   *)
(* crashes, shutdowns and restarts: a run under way has a worker or is     *)
(* listed for the recovery; as long as the journal answers, a queued run   *)
(* has a worker or a caller about to start one; and the shutdown waits     *)
(* only for workers that were asked to stop.                               *)
THEOREM NoRunUnowned == ServiceSpec => []RunsAccountedFor
<1>1. IInv /\ OwnInv => OwnedOrLost /\ QueuedHasOwner /\ ShutdownStops
  <2> SUFFICES ASSUME OwnInv PROVE OwnedOrLost /\ QueuedHasOwner /\ ShutdownStops
    OBVIOUS
  <2>1. ProcessInv /\ \A r \in Runs : Owned(r) /\ Faultless(r)
    BY DEF OwnInv, RunInv
  <2>2. OwnedOrLost
    BY <2>1 DEF OwnedOrLost, Owned, Serving
  <2>3. QueuedHasOwner
    BY <2>1 DEF QueuedHasOwner, Faultless, Owed
  <2>4. ShutdownStops
    BY <2>1 DEF ShutdownStops, ProcessInv, Faultless, UnderWay
  <2> QED
    BY <2>2, <2>3, <2>4
<1>2. ServiceSpec => []IInv
  BY ServiceImplementsJournal, Invariance, PTL DEF ImplementsJournal
<1> QED
  BY <1>1, <1>2, OwnInvariance, SentAtMostOnce, PTL DEF RunsAccountedFor

(* As long as no call of the journal has failed, a run is never recovered  *)
(* under a worker that executes it: the retry of a request, the rounds of  *)
(* the recovery loop and the observers leave a live worker its run.        *)
THEOREM LiveWorkersLeftAlone == ServiceSpec => [](budget = Budget => LiveWorkerUndisturbed)
<1>1. OwnInv => (budget = Budget => LiveWorkerUndisturbed)
  BY DEF OwnInv, RunInv, Faultless, LiveWorkerUndisturbed
<1> QED
  BY <1>1, OwnInvariance, PTL
=============================================================================

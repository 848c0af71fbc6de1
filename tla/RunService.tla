----------------------------- MODULE RunService -----------------------------
(***************************************************************************)
(* The execution lifecycle of task runs, services/runs.py: clients that    *)
(* start and cancel runs, one worker per run, the permits they share, the  *)
(* recovery loop, the read-only observers, shutdown, crash and restart.    *)
(*                                                                         *)
(* Every call of the journal is one step of RunJournal; between two calls  *)
(* of a coroutine any other coroutine may run.  A call may also raise      *)
(* without effect, or commit and raise (the read that follows a commit     *)
(* fails): budget bounds how often.  The executor is any program that      *)
(* journals a remote write, sends it, and journals the answer, that may    *)
(* be interrupted anywhere, and that the deadline of the run stops.        *)
(***************************************************************************)
EXTENDS RunJournal

CONSTANTS
  Asks,       \* client -> [request, hash, task, keys, plan]: what it posts
  Results,    \* what complete_step records: succeeded, failed or unknown
  Verdicts,   \* how executor.execute ends: succeeded, failed, cancelled or unknown
  Findings,   \* what executor.reconcile concludes
  Attempts,   \* transitions that _finish tries (3 in the code)
  Permits,    \* workers that may execute at once (4 in the code)
  Budget,     \* bound: journal calls that fail, and write faults
  Restarts,   \* bound: shutdowns and crashes
  Queries     \* bound: reconciliations asked for over HTTP

Clients == DOMAIN Asks

ASSUME AsksAssumption ==
  \A a \in Clients : Asks[a] \in [request: Requests, hash: Hashes, task: Tasks,
                                  keys: SUBSET Keys, plan: SUBSET Steps]
ASSUME ResultsAssumption ==
  /\ Results \subseteq {"succeeded", "failed", "unknown"}
  /\ Verdicts \subseteq {"succeeded", "failed", "cancelled", "unknown"}
  /\ Findings \subseteq {"succeeded", "failed", "cancelled", "unknown"}
ASSUME CallersAssumption == {"worker", "observer", "loop"} \subseteq Callers
ASSUME BoundsAssumption  ==
  /\ Permits \in Nat \ {0} /\ Attempts \in Nat \ {0}
  /\ Budget \in Nat /\ Restarts \in Nat /\ Queries \in Nat

VARIABLES
  phase,      \* the process: "down", "recover", "up", "gather", "stop", "drain"
  budget,     \* failures left
  restarts,   \* shutdowns and crashes left
  queries,    \* HTTP reconciliations left
  client,     \* client -> [pc, run, queued]: its start request
  alarm,      \* runs whose journalled stop has not yet set the signal
  w,          \* run -> its worker: [pc, permit, out, tries, key]
  free,       \* permits nobody holds
  signal,     \* runs whose cancellation event is set and can still be heard
  lost,       \* lost_workers
  todo,       \* runs that boot recovery or shutdown has still to visit
  killed,     \* workers that the end of the shutdown grace has cancelled
  page,       \* runs that the recovery round has listed as overdue
  asked,      \* runs that a reconcile call has read as unknown
  o,          \* run -> its observer: [pc, out, tries]
  aged,       \* run -> 900 seconds have passed since it became unknown
  delivered   \* run -> intent key -> remote writes that were sent

process  == <<phase, restarts, todo, killed>>
requests == <<client, alarm, queries>>
workers  == <<w, free, signal, lost>>
watch    == <<page, asked, o, aged>>
svars    == <<jvars, process, requests, workers, watch, budget, delivered>>

Outcomes  == {"succeeded", "failed", "cancelled", "unknown"}
NoKey     == [step |-> 0, kind |-> "none", resource |-> "-"]
WorkerPc  == {"none", "slot", "read", "claim", "run", "send", "answer", "stopGit",
              "stopTimeout", "assess", "finish", "decide", "note"}
ObserverPc == {"none", "open", "look", "finish", "decide", "note", "sorry"}

Job(pc, permit, out) == [pc |-> pc, permit |-> permit, out |-> out, tries |-> 0, key |-> NoKey]
NoJob   == Job("none", FALSE, "-")
Look(pc, out, n) == [pc |-> pc, out |-> out, tries |-> n]
NoLook  == Look("none", "-", 0)
NoStart == [pc |-> "idle", run |-> Nobody, queued |-> FALSE]

ServiceTypeOK ==
  /\ phase \in {"down", "recover", "up", "gather", "stop", "drain"}
  /\ budget \in 0..Budget /\ restarts \in 0..Restarts /\ queries \in 0..Queries
  /\ client \in [Clients -> [pc: {"idle", "planned", "accepting", "made", "done"},
                             run: Runs \cup {Nobody}, queued: BOOLEAN]]
  /\ w \in [Runs -> [pc: WorkerPc, permit: BOOLEAN, out: Outcomes \cup {"-"}, tries: 0..Attempts,
                     key: IntentKeys \cup {NoKey}]]
  /\ free \in 0..Permits
  /\ aged \in [Runs -> BOOLEAN]
  /\ o \in [Runs -> [pc: ObserverPc, out: Outcomes \cup {"-"}, tries: 0..Attempts]]
  /\ delivered \in [Runs -> [IntentKeys -> 0..2]]
  /\ alarm \subseteq Runs /\ signal \subseteq Runs /\ lost \subseteq Runs /\ todo \subseteq Runs
  /\ killed \subseteq Runs /\ page \subseteq Runs /\ asked \subseteq Runs

ServiceInit ==
  /\ Init
  /\ phase = "down"
  /\ budget = Budget /\ restarts = Restarts /\ queries = Queries
  /\ client = [a \in Clients |-> NoStart]
  /\ w = [r \in Runs |-> NoJob]
  /\ free = Permits
  /\ o = [r \in Runs |-> NoLook]
  /\ aged = [r \in Runs |-> FALSE]
  /\ delivered = [r \in Runs |-> [k \in IntentKeys |-> 0]]
  /\ alarm = {} /\ signal = {} /\ lost = {} /\ todo = {} /\ killed = {} /\ page = {} /\ asked = {}

-----------------------------------------------------------------------------
Fault == budget > 0 /\ budget' = budget - 1
Sound == UNCHANGED budget

(* One awaited call of the journal: what it does when it is accepted, how  *)
(* its caller goes on, and where its caller goes when the call raises.     *)
Call(accepted, does, ok, raised) ==
  \/ accepted /\ does /\ ok /\ Sound
  \/ accepted /\ does /\ raised /\ Fault
  \/ accepted /\ UNCHANGED jvars /\ raised /\ Fault
  \/ ~accepted /\ UNCHANGED jvars /\ raised /\ Sound

Reads == UNCHANGED jvars

(* store.cancel: nothing to do for a finished run or one already stopped.  *)
NoNeedToStop(r) == TerminalRun(r) \/ Stopped(r)
StopAccepted(r) == Readable /\ (NoNeedToStop(r) \/ CancelOK(r))
StopRun(r, why) == IF NoNeedToStop(r) THEN UNCHANGED jvars ELSE Cancel(r, why)

Serving == phase \in {"up", "gather", "stop", "drain"}
Alive(r) == w[r].pc # "none"
InBody(r) == w[r].permit \/ w[r].pc = "slot"
Executing(r) == w[r].pc \in {"run", "send", "answer"}
Listens(job) == job.pc \in {"slot", "read", "claim", "run", "send", "answer"}
Remote(r) == Effects(r) # {} \/ \E s \in Steps : seen[r][s] # {}

-----------------------------------------------------------------------------
(* RunService.start.                                                       *)
Goes(a, pc) == client' = [client EXCEPT ![a].pc = pc]
OtherThanClients == UNCHANGED <<process, alarm, queries, watch, delivered>>

(* The lookup of an earlier request: served already, or planned.           *)
Lookup(a) ==
  /\ client[a].pc = "idle"
  /\ phase = "up"
  /\ Goes(a, IF Readable /\ Prior(Asks[a].request) = {} THEN "planned" ELSE "done")
  /\ Reads /\ Sound /\ OtherThanClients /\ UNCHANGED workers

(* The second test of closing: no acceptance begins during the shutdown.   *)
Enter(a) ==
  /\ client[a].pc = "planned"
  /\ Goes(a, IF phase = "up" THEN "accepting" ELSE "done")
  /\ Reads /\ Sound /\ OtherThanClients /\ UNCHANGED workers

Made(a, r, isQueued) == client' = [client EXCEPT ![a] =
  [pc |-> "made", run |-> r, queued |-> isQueued]]

(* accept() in the ConfigStore's lock: the plan may have changed, the      *)
(* request may have been served meanwhile, or the run is created.          *)
AcceptRefused(a) ==
  /\ client[a].pc = "accepting"
  /\ Goes(a, "done")
  /\ Reads /\ Sound /\ OtherThanClients /\ UNCHANGED workers

AcceptServed(a) ==
  /\ client[a].pc = "accepting"
  /\ Writable
  /\ \E r \in Prior(Asks[a].request) :
       IF request[r].hash = Asks[a].hash
         THEN Made(a, r, status[r] = "queued")
         ELSE Goes(a, "done")
  /\ Reads /\ Sound /\ OtherThanClients /\ UNCHANGED workers

AcceptCreates(a) ==
  /\ client[a].pc = "accepting"
  /\ \E r \in Runs :
       /\ Create(r, Asks[a].task, Asks[a].request, Asks[a].hash, Asks[a].keys, Asks[a].plan)
       /\ \/ Made(a, r, TRUE) /\ Sound
          \/ Goes(a, "done") /\ Fault
  /\ OtherThanClients /\ UNCHANGED workers

Accept(a) == AcceptRefused(a) \/ AcceptServed(a) \/ AcceptCreates(a)

(* Back in the event loop: a worker for a run that was queued when it was  *)
(* read, unless it has one.                                                *)
Spawn(a) ==
  /\ client[a].pc = "made"
  /\ Goes(a, "done")
  /\ IF client[a].queued /\ ~Alive(client[a].run)
       THEN /\ w' = [w EXCEPT ![client[a].run] = Job("slot", FALSE, "-")]
            /\ UNCHANGED <<free, signal, lost>>
       ELSE UNCHANGED workers
  /\ Reads /\ Sound /\ OtherThanClients

(* RunService.cancel: the journal first, the event of a live worker after  *)
(* (an alarm that no worker can ever hear is left out: the slot and the    *)
(* executor wait for the event, the handlers after them do not).           *)
Audible(r) == Listens(w[r]) \/ \E a \in Clients : client[a].pc \in {"accepting", "made"}
RaiseAlarm(r) == alarm' = IF Audible(r) THEN alarm \cup {r} ELSE alarm

ApiCancel(r) ==
  /\ Serving
  /\ status[r] # "absent"
  /\ Call(StopAccepted(r), StopRun(r, "user"), RaiseAlarm(r), UNCHANGED alarm)
  /\ UNCHANGED <<process, client, queries, workers, watch, delivered>>

Ring(r) ==
  /\ r \in alarm
  /\ alarm' = alarm \ {r}
  /\ signal' = IF Listens(w[r]) THEN signal \cup {r} ELSE signal
  /\ Reads /\ Sound
  /\ UNCHANGED <<process, client, queries, w, free, lost, watch, delivered>>

-----------------------------------------------------------------------------
(* The worker of a run, _execute and _execute_worker.                      *)
Apart == UNCHANGED <<process, requests, watch>>

(* Mutants: a permit is given back by whoever ends; only by a worker that  *)
(* ends in good order.                                                     *)
BecomesFreeing(r, job) ==
  /\ w' = [w EXCEPT ![r] = job]
  /\ free' = IF job.pc = "none" THEN free + 1 ELSE free
  /\ signal' = IF Listens(job) THEN signal ELSE signal \ {r}

BecomesLeaking(r, job) ==
  /\ w' = [w EXCEPT ![r] = job]
  /\ free' = IF w[r].permit /\ job.pc = "none" THEN free + 1 ELSE free
  /\ signal' = IF Listens(job) THEN signal ELSE signal \ {r}

Becomes(r, job) ==
  /\ w' = [w EXCEPT ![r] = job]
  /\ free' = IF w[r].permit /\ ~job.permit THEN free + 1 ELSE free
  /\ signal' = IF Listens(job) THEN signal ELSE signal \ {r}

Sets(r, job) == Becomes(r, job) /\ UNCHANGED lost
Turn(r, pc) == Sets(r, [w[r] EXCEPT !.pc = pc])
Leaves(r) == Sets(r, NoJob)
Lost(r) == Becomes(r, NoJob) /\ lost' = lost \cup {r}

(* An exception gives the permit back and is handled, or, if it was raised *)
(* by a handler, leaves the run to the recovery loop.                      *)
Handled(r, pc, out) == Sets(r, Job(pc, FALSE, out))
Raises(r) == IF InBody(r) THEN Handled(r, "assess", "failed") ELSE Lost(r)

(* TimeoutError and CancelledError: the run is stopped.                    *)
Interrupted(r) == Handled(r, "stopTimeout", "cancelled")

(* Mutant: one permit is kept in reserve.                                  *)
AcquireSpare(r) ==
  /\ w[r].pc = "slot" /\ r \notin signal /\ free > 1
  /\ w' = [w EXCEPT ![r] = Job("read", TRUE, "-")]
  /\ free' = free - 1
  /\ Reads /\ Sound /\ Apart /\ UNCHANGED <<signal, lost, delivered>>

(* _slot: a permit, the stop signal, or 300 seconds without either.        *)
Acquire(r) ==
  /\ w[r].pc = "slot" /\ r \notin signal /\ free > 0
  /\ w' = [w EXCEPT ![r] = Job("read", TRUE, "-")]
  /\ free' = free - 1
  /\ Reads /\ Sound /\ Apart /\ UNCHANGED <<signal, lost, delivered>>

SlotCancelled(r) ==
  /\ w[r].pc = "slot" /\ r \in signal
  /\ Handled(r, "stopGit", "cancelled")
  /\ Reads /\ Sound /\ Apart /\ UNCHANGED delivered

SlotTimeout(r) ==
  /\ w[r].pc = "slot" /\ free = 0
  /\ Handled(r, "finish", "failed")
  /\ Reads /\ Sound /\ Apart /\ UNCHANGED delivered

(* A run that is no longer queued is none of this worker's business.       *)
Read(r) ==
  /\ w[r].pc = "read"
  /\ IF status[r] = "queued"
       THEN Call(Readable, Get("worker", r), Turn(r, "claim"), Raises(r))
       ELSE Call(Readable, Reads, Leaves(r), Raises(r))
  /\ Apart /\ UNCHANGED delivered

CanMove(c, r, s) == Writable /\ c \in fresh[r] /\ TransitionOK(r, s)

Claim(r) ==
  /\ w[r].pc = "claim"
  /\ Call(CanMove("worker", r, "running"), Transition("worker", r, "running", "keep"),
          Turn(r, "run"), Raises(r))
  /\ Apart /\ UNCHANGED delivered

-----------------------------------------------------------------------------
(* The executor, through ExecutionContext.                                 *)
ExecCheckpoint(r, s, ids) ==
  /\ w[r].pc = "run"
  /\ Call(RecordOK(r) /\ step[r][s] # "absent", Checkpoint(r, s, ids),
          UNCHANGED workers, Raises(r))
  /\ Apart /\ UNCHANGED delivered

ExecFinishStep(r, s, st) ==
  /\ w[r].pc = "run"
  /\ Call(RecordOK(r) /\ step[r][s] # "absent", FinishStep(r, s, st),
          UNCHANGED workers, Raises(r))
  /\ Apart /\ UNCHANGED delivered

(* Mutant: the write is sent although its intent could not be written.     *)
ExecIntentUnchecked(r, k, ids) ==
  /\ w[r].pc = "run"
  /\ Call(IntentOK(r, k, ids), Intent(r, k, ids),
          Sets(r, [w[r] EXCEPT !.pc = "send", !.key = k]),
          Sets(r, [w[r] EXCEPT !.pc = "send", !.key = k]))
  /\ Apart /\ UNCHANGED delivered

ExecIntent(r, k, ids) ==
  /\ w[r].pc = "run"
  /\ Call(IntentOK(r, k, ids), Intent(r, k, ids),
          Sets(r, [w[r] EXCEPT !.pc = "send", !.key = k]),
          Raises(r))
  /\ Apart /\ UNCHANGED delivered

(* The request leaves: from here on the remote side may have executed it.  *)
ExecSend(r) ==
  /\ w[r].pc = "send"
  /\ delivered[r][w[r].key] < 2
  /\ delivered' = [delivered EXCEPT ![r][w[r].key] = @ + 1]
  /\ Turn(r, "answer")
  /\ Reads /\ Sound /\ Apart

(* Mutant: an answer that was lost counts as a refusal.                    *)
AnswerGuessed(k, st, id) ==
  /\ st # "confirmed" => id = NoId
  /\ st = "confirmed" => (id = NoId) = (k.kind = "git_push")

(* What the executor journals of an answer: success with the identity it   *)
(* returned, or that it does not know (git push only).                     *)
AnswerOf(k, st, id) ==
  /\ st = "unknown" => id = NoId /\ k.kind = "git_push"
  /\ st = "confirmed" => (id = NoId) = (k.kind = "git_push")
  /\ st # "rejected"
OwnedKind(k, st) == st = "confirmed" /\ k.kind \in {"build_create", "release_create"}

ExecReceipt(r, st, id) ==
  /\ w[r].pc = "answer" \/ (w[r].pc = "send" /\ st = "unknown")
  /\ AnswerOf(w[r].key, st, id)
  /\ Call(ReceiptOK(r, w[r].key), Receipt(r, w[r].key, st, id, OwnedKind(w[r].key, st)),
          Turn(r, "run"), Raises(r))
  /\ Apart /\ UNCHANGED delivered

(* request_stop: the executor gives up waiting.                            *)
ExecStop(r, why) ==
  /\ w[r].pc = "run"
  /\ Call(StopAccepted(r), StopRun(r, why),
          signal' = signal \cup {r} /\ UNCHANGED <<w, free, lost>>, Raises(r))
  /\ Apart /\ UNCHANGED delivered

ExecReturns(r, out) ==
  /\ w[r].pc = "run"
  /\ out = "cancelled" => r \in signal
  /\ Sets(r, Job("finish", TRUE, out))
  /\ Reads /\ Sound /\ Apart /\ UNCHANGED delivered

(* AdoFailure, SettingsError or any other exception.                       *)
ExecRaises(r) ==
  /\ Executing(r)
  /\ Raises(r)
  /\ Reads /\ Sound /\ Apart /\ UNCHANGED delivered

(* GitFailure: cancelled, unknown, or failed.                              *)
ExecGitFails(r, out) ==
  /\ w[r].pc = "run"
  /\ out \in {"cancelled", "unknown", "failed"}
  /\ out = "cancelled" => r \in signal
  /\ Handled(r, IF out = "cancelled" THEN "stopGit" ELSE "finish", out)
  /\ Reads /\ Sound /\ Apart /\ UNCHANGED delivered

(* deadline_at: the executor is interrupted wherever it is.                *)
Deadline(r) ==
  /\ Executing(r)
  /\ Interrupted(r)
  /\ Reads /\ Sound /\ Apart /\ UNCHANGED delivered

-----------------------------------------------------------------------------
(* The handlers, _failure_outcome and _finish.                             *)
StopFirst(r) ==
  /\ w[r].pc \in {"stopGit", "stopTimeout"}
  /\ Call(StopAccepted(r),
          StopRun(r, IF w[r].pc = "stopGit" THEN "user"
                     ELSE IF phase \in {"gather", "stop", "drain"} THEN "shutdown" ELSE "timeout"),
          Turn(r, IF w[r].pc = "stopGit" THEN "finish" ELSE "assess"), Raises(r))
  /\ Apart /\ UNCHANGED delivered

(* With anything observed on the remote side the outcome is unknown.       *)
Assess(r) ==
  /\ w[r].pc = "assess"
  /\ Call(Readable, Reads,
          Sets(r, Job("finish", FALSE, IF Remote(r) THEN "unknown" ELSE w[r].out)),
          Raises(r))
  /\ Apart /\ UNCHANGED delivered

Finish(r) ==
  /\ w[r].pc = "finish"
  /\ IF TerminalRun(r)
       THEN Call(Readable, Reads, Leaves(r), Raises(r))
       ELSE Call(Readable, Get("worker", r), Turn(r, "decide"), Raises(r))
  /\ Apart /\ UNCHANGED delivered

RecoveryOf(out) == IF out = "unknown" THEN "pending" ELSE "none"

(* Only state_conflict is tried again, three times in all.                 *)
Conflict(c, r, s) == Writable /\ TransitionOK(r, s) /\ c \notin fresh[r]

Decide(r) ==
  /\ w[r].pc = "decide"
  /\ \/ /\ ~Conflict("worker", r, w[r].out)
        /\ Call(CanMove("worker", r, w[r].out),
                Transition("worker", r, w[r].out, RecoveryOf(w[r].out)),
                Sets(r, Job("note", w[r].permit, "-")),
                Raises(r))
     \/ /\ Conflict("worker", r, w[r].out)
        /\ IF w[r].tries + 1 < Attempts
             THEN Sets(r, [w[r] EXCEPT !.pc = "finish", !.tries = @ + 1])
             ELSE Raises(r)
        /\ Reads /\ Sound
  /\ Apart /\ UNCHANGED delivered

Note(r) ==
  /\ w[r].pc = "note"
  /\ Call(Writable, Log(r), Leaves(r), Raises(r))
  /\ Apart /\ UNCHANGED delivered

-----------------------------------------------------------------------------
(* The observer of an unknown run, RunService.reconcile.                   *)
Aside == UNCHANGED <<process, requests, workers, page, asked, aged, delivered>>

Glance(r, pc) == o' = [o EXCEPT ![r].pc = pc]
Puts(r, pc) == o' = [o EXCEPT ![r] = Look(pc, "-", 0)]
Departs(r) == o' = [o EXCEPT ![r] = NoLook]

(* The call reads the run, and decides on what it read when it resumes.    *)
ApiReconcile(r) ==
  /\ Serving /\ Readable
  /\ queries > 0 /\ queries' = queries - 1
  /\ status[r] = "unknown"
  /\ asked' = asked \cup {r}
  /\ Reads /\ Sound
  /\ UNCHANGED <<process, client, alarm, workers, page, o, aged, delivered>>

ObsBegins(r) ==
  /\ r \in asked
  /\ asked' = asked \ {r}
  /\ o' = IF o[r].pc = "none" THEN [o EXCEPT ![r] = Look("open", "-", 0)] ELSE o
  /\ Reads /\ Sound
  /\ UNCHANGED <<process, requests, workers, page, aged, delivered>>

ObsOpens(r) ==
  /\ o[r].pc = "open"
  /\ Call(Writable, Log(r), Glance(r, "look"), Puts(r, "sorry"))
  /\ Aside

(* Mutant: the observer settles an effect past the checks of the journal.  *)
ObsReceiptDirect(r, k, id) ==
  /\ o[r].pc = "look" /\ delivered[r][k] > 0
  /\ effect' = [effect EXCEPT ![r][k].state = "confirmed"]
  /\ UNCHANGED <<store, status, task, request, stop, recovery, step, seen, holder, fresh>>
  /\ UNCHANGED o /\ Sound /\ Aside

(* The remote side shows a write that was sent, or that the build a cancel *)
(* was meant for has ended: the receipt is journalled.                     *)
ObsReceipt(r, k, id) ==
  /\ o[r].pc = "look"
  /\ delivered[r][k] > 0 \/ k.kind = "build_cancel"
  /\ k \in Unsettled(r) /\ k.kind # "build_create"
  /\ AnswerOf(k, "confirmed", id)
  /\ Call(ReceiptOK(r, k), Receipt(r, k, "confirmed", id, k.kind = "release_create"),
          UNCHANGED o, Puts(r, "sorry"))
  /\ Aside

ObsFinishStep(r, s) ==
  /\ o[r].pc = "look"
  /\ Call(RecordOK(r) /\ step[r][s] # "absent", FinishStep(r, s, "succeeded"),
          UNCHANGED o, Puts(r, "sorry"))
  /\ Aside

(* An outcome; an exception of any other kind counts as unknown.           *)
ObsReturns(r, out) ==
  /\ o[r].pc = "look"
  /\ o' = [o EXCEPT ![r] = Look("finish", out, 0)]
  /\ Reads /\ Sound /\ Aside

ObsReads(r) ==
  /\ o[r].pc = "finish"
  /\ IF TerminalRun(r)
       THEN Call(Readable, Reads, Departs(r), Puts(r, "sorry"))
       ELSE Call(Readable, Get("observer", r), Glance(r, "decide"), Puts(r, "sorry"))
  /\ Aside

ObsDecides(r) ==
  /\ o[r].pc = "decide"
  /\ \/ /\ ~Conflict("observer", r, o[r].out)
        /\ Call(CanMove("observer", r, o[r].out),
                Transition("observer", r, o[r].out, RecoveryOf(o[r].out)),
                Puts(r, "note"), Puts(r, "sorry"))
     \/ /\ Conflict("observer", r, o[r].out)
        /\ o' = [o EXCEPT ![r] = IF @.tries + 1 < Attempts THEN Look("finish", @.out, @.tries + 1)
                                                ELSE Look("sorry", "-", 0)]
        /\ Reads /\ Sound
  /\ Aside

ObsNotes(r) ==
  /\ o[r].pc = "note"
  /\ Call(Writable, Log(r), Departs(r), Puts(r, "sorry"))
  /\ Aside

(* 30 seconds, or a failed query: a log line that may fail in silence.     *)
ObsTimeout(r) ==
  /\ o[r].pc \notin {"none", "sorry"}
  /\ Puts(r, "sorry")
  /\ Reads /\ Sound /\ Aside

ObsApologises(r) ==
  /\ o[r].pc = "sorry"
  /\ Call(Writable, Log(r), Departs(r), Departs(r))
  /\ Aside

-----------------------------------------------------------------------------
(* _recovery_round, until the shutdown cancels it.                         *)
Looping == phase \in {"up", "gather"} /\ Readable

(* Mutants: every active run is recovered; only a running one is, and the  *)
(* list is cleared.                                                        *)
LoopRecoversActive(r) ==
  /\ Looping /\ status[r] \in {"running", "cancelling"}
  /\ Call(TRUE, Recover(r), store' = "open" /\ lost' = lost \ {r}, UNCHANGED <<store, lost>>)
  /\ UNCHANGED <<process, requests, w, free, signal, watch, delivered>>

LoopRecoversRunning(r) ==
  /\ Looping /\ r \in lost
  /\ IF status[r] = "running"
       THEN Call(TRUE, Recover(r), store' = "open" /\ lost' = lost \ {r}, UNCHANGED <<store, lost>>)
       ELSE Reads /\ Sound /\ lost' = lost \ {r}
  /\ UNCHANGED <<process, requests, w, free, signal, watch, delivered>>

(* A lost run is recovered, or was finished after all.                     *)
LoopRecovers(r) ==
  /\ Looping
  /\ r \in lost
  /\ IF ActiveRun(r)
       THEN Call(TRUE, Recover(r), store' = "open" /\ lost' = lost \ {r}, UNCHANGED <<store, lost>>)
       ELSE Reads /\ Sound /\ lost' = lost \ {r}
  /\ UNCHANGED <<process, requests, w, free, signal, watch, delivered>>

(* After 900 seconds: the listed version is compared, and a run that has   *)
(* changed since ends the round.                                           *)
Overdue(r) == status[r] = "unknown" /\ recovery[r] # "manual_required" /\ aged[r]

(* Mutant: the version of an earlier round is compared.                    *)
LoopListsStale(r) ==
  /\ Looping
  /\ Overdue(r) /\ r \notin page
  /\ page' = page \cup {r}
  /\ Reads /\ Sound
  /\ UNCHANGED <<process, requests, workers, asked, o, aged, delivered>>

LoopLists(r) ==
  /\ Looping
  /\ Overdue(r) /\ r \notin page
  /\ page' = page \cup {r}
  /\ Get("loop", r) /\ Sound
  /\ UNCHANGED <<process, requests, workers, asked, o, aged, delivered>>

LoopEscalates(r) ==
  /\ Looping
  /\ r \in page
  /\ Call(CanMove("loop", r, "unknown"), Transition("loop", r, "unknown", "manual_required"),
          page' = page \ {r}, page' = {})
  /\ UNCHANGED <<process, requests, workers, asked, o, aged, delivered>>

(* Until then, another look at the remote side.                            *)
LoopReconciles(r) ==
  /\ Looping
  /\ status[r] = "unknown" /\ recovery[r] # "manual_required" /\ ~aged[r]
  /\ asked' = asked \cup {r}
  /\ Reads /\ Sound
  /\ UNCHANGED <<process, requests, workers, page, o, aged, delivered>>

(* recovery_started is the first event that made the run unknown.          *)
Ages(r) ==
  /\ status[r] = "unknown" /\ ~aged[r]
  /\ aged' = [aged EXCEPT ![r] = TRUE]
  /\ Reads /\ Sound
  /\ UNCHANGED <<process, requests, workers, page, asked, o, delivered>>

-----------------------------------------------------------------------------
(* Start of the process: the store is opened or refused, and every run     *)
(* that a previous process left active is recovered before it serves.      *)
Boot ==
  /\ phase = "down"
  /\ Initialize
  /\ IF store' = "open"
       THEN phase' = "recover" /\ todo' = {r \in Runs : ActiveRun(r)}
       ELSE phase' = "up" /\ todo' = {}
  /\ Sound
  /\ UNCHANGED <<restarts, killed, requests, workers, watch, delivered>>

BootRecovers(r) ==
  /\ phase = "recover"
  /\ r \in todo /\ Writable
  /\ Recover(r)
  /\ todo' = todo \ {r}
  /\ Sound
  /\ UNCHANGED <<phase, restarts, killed, requests, workers, watch, delivered>>

BootDone ==
  /\ phase = "recover"
  /\ todo = {}
  /\ phase' = "up"
  /\ Reads /\ Sound
  /\ UNCHANGED <<restarts, todo, killed, requests, workers, watch, delivered>>

(* What was only in memory is gone.                                        *)
Vanishes ==
  /\ Crash
  /\ phase' = "down"
  /\ client' = [a \in Clients |-> IF client[a].pc = "idle" THEN NoStart
                                   ELSE [NoStart EXCEPT !.pc = "done"]]
  /\ w' = [r \in Runs |-> NoJob]
  /\ free' = Permits
  /\ o' = [r \in Runs |-> NoLook]
  /\ alarm' = {} /\ signal' = {} /\ lost' = {} /\ todo' = {} /\ killed' = {} /\ page' = {} /\ asked' = {}
  /\ UNCHANGED <<queries, aged, delivered>>

(* A recovery that cannot be written, or read back, ends the start.        *)
BootFails ==
  /\ phase = "recover"
  /\ todo # {}
  /\ (~Writable /\ Sound) \/ Fault
  /\ Vanishes
  /\ UNCHANGED restarts

Kill ==
  /\ phase # "down"
  /\ restarts > 0 /\ restarts' = restarts - 1
  /\ Vanishes /\ Sound

StoreFails ==
  /\ phase # "down"
  /\ WriteFault /\ Fault
  /\ UNCHANGED <<process, requests, workers, watch, delivered>>

-----------------------------------------------------------------------------
(* RunService.close: no new acceptance, wait for those under way, stop the *)
(* recovery loop, then every worker.                                       *)
CloseBegins ==
  /\ phase = "up"
  /\ restarts > 0 /\ restarts' = restarts - 1
  /\ phase' = "gather"
  /\ Reads /\ Sound
  /\ UNCHANGED <<todo, killed, requests, workers, watch, delivered>>

(* Mutant: acceptances under way are not waited for.                       *)
CloseGathersEarly ==
  /\ phase = "gather"
  /\ phase' = "stop"
  /\ todo' = {r \in Runs : Alive(r)}
  /\ page' = {}
  /\ Reads /\ Sound
  /\ UNCHANGED <<restarts, killed, requests, workers, asked, o, aged, delivered>>

CloseGathers ==
  /\ phase = "gather"
  /\ \A a \in Clients : client[a].pc \notin {"accepting", "made"}
  /\ phase' = "stop"
  /\ todo' = {r \in Runs : Alive(r)}
  /\ page' = {}
  /\ Reads /\ Sound
  /\ UNCHANGED <<restarts, killed, requests, workers, asked, o, aged, delivered>>

(* The signal is set even when the stop could not be journalled.           *)
CloseStops(r) ==
  /\ phase = "stop"
  /\ r \in todo
  /\ Call(StopAccepted(r), StopRun(r, "shutdown"), TRUE, TRUE)
  /\ todo' = todo \ {r}
  /\ RaiseAlarm(r)
  /\ UNCHANGED <<phase, restarts, killed, client, queries, workers, watch, delivered>>

CloseDrains ==
  /\ phase = "stop"
  /\ todo = {} /\ alarm = {}
  /\ phase' = "drain"
  /\ Reads /\ Sound
  /\ UNCHANGED <<restarts, todo, killed, requests, workers, watch, delivered>>

(* After five seconds: a worker is cancelled once, wherever it awaits.     *)
CloseCancels(r) ==
  /\ phase = "drain"
  /\ Alive(r) /\ r \notin killed
  /\ killed' = killed \cup {r}
  /\ IF InBody(r) THEN Interrupted(r) ELSE Lost(r)
  /\ Reads /\ Sound
  /\ UNCHANGED <<phase, restarts, todo, requests, watch, delivered>>

CloseCancelsObserver(r) ==
  /\ phase = "drain"
  /\ o[r].pc # "none"
  /\ Departs(r)
  /\ Reads /\ Sound /\ Aside

CloseDone ==
  /\ phase = "drain"
  /\ \A r \in Runs : ~Alive(r) /\ o[r].pc = "none"
  /\ Vanishes /\ Sound
  /\ UNCHANGED restarts

-----------------------------------------------------------------------------
ClientStep ==
  \E a \in Clients :
    Lookup(a) \/ Enter(a) \/ Accept(a) \/ Spawn(a)

ExecutorStep(r) ==
  \/ \E s \in Steps, ids \in SUBSET Ids : ExecCheckpoint(r, s, ids)
  \/ \E s \in Steps, st \in Results : ExecFinishStep(r, s, st)
  \/ \E k \in IntentKeys, ids \in SUBSET Ids : ExecIntent(r, k, ids)
  \/ ExecSend(r)
  \/ \E st \in ReceiptState, id \in Ids \cup {NoId} : ExecReceipt(r, st, id)
  \/ \E why \in {"user", "timeout"} : ExecStop(r, why)
  \/ \E out \in Verdicts : ExecReturns(r, out) \/ ExecGitFails(r, out)
  \/ ExecRaises(r)

(* The steps of a worker that do not depend on the executor.               *)
WorkerStep(r) ==
  \/ Acquire(r) \/ SlotCancelled(r) \/ SlotTimeout(r) \/ Read(r) \/ Claim(r)
  \/ Deadline(r) \/ StopFirst(r) \/ Assess(r) \/ Finish(r) \/ Decide(r) \/ Note(r)

ObserverStep(r) ==
  \/ ObsBegins(r) \/ ObsOpens(r) \/ ObsReads(r) \/ ObsDecides(r) \/ ObsNotes(r)
  \/ ObsTimeout(r) \/ ObsApologises(r)

QueryStep(r) ==
  \/ \E k \in IntentKeys, id \in Ids \cup {NoId} : ObsReceipt(r, k, id)
  \/ \E s \in Steps : ObsFinishStep(r, s)
  \/ \E out \in Findings : ObsReturns(r, out)

LoopStep(r) ==
  LoopRecovers(r) \/ LoopLists(r) \/ LoopEscalates(r) \/ LoopReconciles(r)

CloseStep ==
  \/ CloseGathers \/ CloseDrains \/ CloseDone
  \/ \E r \in Runs : CloseStops(r) \/ CloseCancels(r) \/ CloseCancelsObserver(r)

BootStep == Boot \/ BootDone \/ BootFails \/ \E r \in Runs : BootRecovers(r)

ServiceNext ==
  \/ ClientStep \/ BootStep \/ CloseStep
  \/ Kill \/ StoreFails \/ CloseBegins
  \/ \E r \in Runs :
       \/ ApiCancel(r) \/ Ring(r) \/ ApiReconcile(r) \/ Ages(r)
       \/ WorkerStep(r) \/ ExecutorStep(r) \/ ObserverStep(r) \/ QueryStep(r) \/ LoopStep(r)

ServiceSpec == ServiceInit /\ [][ServiceNext]_svars

(* What the event loop owes: a coroutine that can go on does, a timer that *)
(* is set fires, and each round of the recovery loop visits every run.     *)
(* The executor and the remote side owe nothing.                           *)
FairSpec ==
  /\ ServiceSpec
  /\ WF_svars(BootStep) /\ WF_svars(CloseStep)
  /\ \A a \in Clients : WF_svars(Enter(a)) /\ WF_svars(Accept(a)) /\ WF_svars(Spawn(a))
  /\ \A r \in Runs :
       /\ WF_svars(Ring(r)) /\ WF_svars(WorkerStep(r)) /\ WF_svars(ObserverStep(r))
       /\ WF_svars(LoopRecovers(r)) /\ WF_svars(LoopLists(r)) /\ WF_svars(LoopEscalates(r))
       /\ WF_svars(Ages(r))

-----------------------------------------------------------------------------
(* A write reaches the remote side at most once, and never before its      *)
(* intent is durable: whatever crash, timeout or lost answer comes between *)
(* intent, send and receipt, no path of the program sends it again.        *)
AtMostOnce ==
  \A r \in Runs, k \in IntentKeys :
    /\ delivered[r][k] <= 1
    /\ delivered[r][k] = 1 => k \in Effects(r)

(* A run that is closed, by its worker, an observer or the recovery, has   *)
(* a receipt for every write that reached the remote side.                 *)
VerifiedEnd ==
  \A r \in Runs, k \in IntentKeys :
    TerminalRun(r) /\ delivered[r][k] > 0 => effect[r][k].state = "confirmed"

(* While the process serves a journal it could open, a run that is under way has a worker, or is   *)
(* listed for the recovery loop: no path of the worker drops it silently.  *)
OwnedOrLost ==
  \A r \in Runs :
    phase = "up" /\ Readable /\ status[r] \in {"running", "cancelling"} =>
      Alive(r) \/ r \in lost

(* "Only exited workers may be recovered in-process; never disturb live    *)
(* workers": a run whose executor is at work is not recovered under it.    *)
LiveWorkerUndisturbed ==
  \A r \in Runs : Executing(r) => status[r] \in {"running", "cancelling"}

(* Every acceptance leads to a worker: as long as the journal answers, a   *)
(* queued run is one whose worker exists or is about to.                   *)
QueuedHasOwner ==
  \A r \in Runs :
    Serving /\ Readable /\ budget = Budget /\ status[r] = "queued" =>
      \/ Alive(r)
      \/ \E a \in Clients : client[a] = [pc |-> "made", run |-> r, queued |-> TRUE]

(* A permit is with one worker or free, whatever ended the worker.         *)
PermitsConserved ==
  free + Cardinality({r \in Runs : w[r].permit}) = Permits

(* Once the shutdown waits for the workers, none can appear any more and   *)
(* every one that is left was asked to stop, in the journal as well.       *)
ShutdownStops ==
  phase = "drain" =>
    /\ \A a \in Clients : client[a].pc \notin {"accepting", "made"}
    /\ budget = Budget => \A r \in Runs :
         Alive(r) /\ status[r] \in {"queued", "running", "cancelling"} => Stopped(r)

(* Through failures, crashes, shutdowns and restarts nothing is sent twice *)
(* and no run is left to nobody: every one that is under way has a worker, *)
(* a caller about to start one, or a place in the list of the recovery.    *)
RunsAccountedFor == AtMostOnce /\ OwnedOrLost /\ QueuedHasOwner /\ ShutdownStops

(* The service uses the journal only through its operations, one at a time *)
(* and with what they require: every behaviour of the whole process is one *)
(* of the journal, whose invariants it therefore has.                      *)
ImplementsJournal == Spec

-----------------------------------------------------------------------------
(* A run that waits for a permit does not wait for ever.                   *)
Starts == \A r \in Runs : status[r] = "queued" ~> status[r] # "queued"

(* A run under way reaches its end, or is declared unknown, even if its    *)
(* worker dies on a failed write or the process is stopped or killed; only *)
(* a journal that cannot be opened again leaves it where it is.            *)
Concludes == \A r \in Runs :
  status[r] \in {"running", "cancelling"} ~>
    status[r] \in Terminal \cup {"unknown"} \/ store = "refused"

(* An unknown run is verified by an observer or handed to the user, unless *)
(* the journal is refused or has stopped writing.                          *)
Resolves == \A r \in Runs :
  status[r] = "unknown" ~>
    TerminalRun(r) \/ recovery[r] = "manual_required" \/ store \in {"failed", "refused"}
=============================================================================

----------------------------- MODULE AiSessions -----------------------------
(***************************************************************************)
(* The kernel of the AI sessions (services/ai_sessions.py): creation under *)
(* one lock with its limits and its request ids, the task that owns a      *)
(* session and its process, the auxiliary processes (check, upgrade,       *)
(* models), shutdown, and what the store, the supervisor of each process   *)
(* and the next start do after a crash.                                    *)
(***************************************************************************)
EXTENDS Naturals, FiniteSets

CONSTANTS
  Callers,          \* requests to create a session
  Sid,              \* the session ids: one per request id
  RequestOf(_),     \* the request id of a caller
  CliOf(_),         \* the CLI of a session
  Aux, AuxCli(_),   \* check, upgrade and models calls, and their CLI
  Upgrades,         \* those of Aux that are upgrade jobs
  KindLimit, CliLimit,  \* 6 sessions of a kind, 4 processes of a CLI
  MayCancel,        \* whether a caller may be cancelled while it waits
  MaxCrashes        \* bound: crashes of the backend

VARIABLES
  backend,    \* "up", "closing", "down"
  lock,       \* the caller that holds _lock, or "free"
  caller, aux,          \* where each of them is
  row,        \* the durable session: state and reason of its end
  record,     \* its row in ai_processes: "none", "open", "ended"
  active,     \* the sessions in _active
  task,       \* the session task
  order,      \* the close message a task finds in its queue, or "none"
  proc,       \* the process group behind a session, as the system has it
  pid,        \* who owns its pid now: "ours", "foreign" or "nobody"
  struck,     \* ghost: sessions whose pid was killed while it was foreign
  crashes

mem == <<caller, aux, lock, active, task, order>>
os == <<proc, pid, struck>>
vars == <<backend, mem, row, record, os, crashes>>

Free == "free"
SessionsAssumption ==
  /\ IsFiniteSet(Sid) /\ IsFiniteSet(Aux) /\ Free \notin Callers
  /\ \A c \in Callers : RequestOf(c) \in Sid
  /\ KindLimit \in Nat /\ CliLimit \in Nat

Terminal == {"ended", "failed"}
NoRow == [state |-> "none", reason |-> "none"]
Row(state, reason) == [state |-> state, reason |-> reason]

Init ==
  /\ backend = "up" /\ lock = Free
  /\ caller = [c \in Callers |-> "idle"] /\ aux = [x \in Aux |-> "idle"]
  /\ row = [s \in Sid |-> NoRow] /\ record = [s \in Sid |-> "none"]
  /\ active = {} /\ task = [s \in Sid |-> "none"] /\ order = [s \in Sid |-> "none"]
  /\ proc = [s \in Sid |-> "none"] /\ pid = [s \in Sid |-> "nobody"]
  /\ struck = {} /\ crashes = 0

Up == backend # "down"
\* The processes counted against a CLI: its sessions and its reservations.
Reserved(tool) == {x \in Aux : aux[x] = "reserved" /\ AuxCli(x) = tool}
Sessions(tool) == {s \in active : CliOf(s) = tool}
Used(tool) == Cardinality(Sessions(tool)) + Cardinality(Reserved(tool))
Within(s) == Cardinality(active) < KindLimit /\ Used(CliOf(s)) < CliLimit

Move(c, to) == caller' = [caller EXCEPT ![c] = to]
Same(c) == UNCHANGED <<backend, aux, active, task, order, os, crashes>>

\* create: take the lock, find the request, pass the limits, store, spawn.
Acquirable == lock = Free
Acquire(c) ==
  /\ caller[c] = "idle" /\ backend = "up" /\ Acquirable
  /\ lock' = c /\ Move(c, "locked") /\ Same(c) /\ UNCHANGED <<row, record>>
Decide(c) ==
  LET s == RequestOf(c) IN
  /\ caller[c] = "locked" /\ Up
  /\ \/ /\ (backend = "closing" \/ row[s] # NoRow \/ ~Within(s))
        /\ Move(c, IF backend = "up" /\ row[s] # NoRow THEN "done" ELSE "refused") /\ lock' = Free
     \/ /\ backend = "up" /\ row[s] = NoRow /\ Within(s)
        /\ Move(c, "storing") /\ UNCHANGED lock
  /\ Same(c) /\ UNCHANGED <<row, record>>
Store(c) ==
  LET s == RequestOf(c) IN
  /\ caller[c] = "storing" /\ Up
  /\ Move(c, "stored") /\ row' = [row EXCEPT ![s] = Row("starting", "none")]
  /\ Same(c) /\ UNCHANGED <<record, lock>>
Launch(c) ==
  LET s == RequestOf(c) IN
  /\ caller[c] = "stored" /\ Up
  /\ Move(c, "done") /\ lock' = Free
  /\ active' = active \cup {s} /\ task' = [task EXCEPT ![s] = "starting"]
  /\ UNCHANGED <<backend, aux, order, row, record, os, crashes>>
\* The handler of a request is cancelled at one of its awaits.
CancelCaller(c) ==
  /\ MayCancel /\ caller[c] \in {"storing", "stored"} /\ Up
  /\ lock' = Free /\ Move(c, "cancelled")
  /\ row' = IF caller[c] = "stored" THEN row    \* call() waits for its thread first
            ELSE [row EXCEPT ![RequestOf(c)] = Row("starting", "none")]
  /\ Same(c) /\ UNCHANGED record

\* The task of a session: start the process, record it, serve, clean up, end.
Step(s, to) == task' = [task EXCEPT ![s] = to]
Quiet == UNCHANGED <<backend, caller, aux, lock, crashes>>
StartProcess(s) ==
  /\ task[s] = "starting" /\ Up
  /\ \/ Step(s, "started") /\ proc' = [proc EXCEPT ![s] = "up"] /\ pid' = [pid EXCEPT ![s] = "ours"]
     \/ Step(s, "startFailed") /\ UNCHANGED <<proc, pid>>
  /\ Quiet /\ UNCHANGED <<active, order, row, record, struck>>
RecordProcess(s) ==
  /\ task[s] = "started" /\ Up
  /\ Step(s, "serving")
  /\ record' = [record EXCEPT ![s] = "open"] /\ row' = [row EXCEPT ![s] = Row("idle", "none")]
  /\ Quiet /\ UNCHANGED <<active, order, os>>
\* A close message, the exit of the process, or a cancelled task.
Serve(s) ==
  /\ task[s] = "serving" /\ Up
  /\ \/ /\ order[s] # "none" /\ Step(s, order[s])
        /\ order' = [order EXCEPT ![s] = "none"]
        /\ row' = [row EXCEPT ![s] = Row("closing", "none")]
     \/ /\ proc[s] = "gone" /\ Step(s, "process_exited") /\ UNCHANGED <<order, row>>
  /\ Quiet /\ UNCHANGED <<active, record, os>>
Ending(s) == task[s] \in {"user_closed", "process_exited", "interrupted_on_exit", "startFailed"}
\* SessionLifecycle: the process is closed before the session is said to be over.
\* The wait ends with the process, or at its limit (kill_failed): it was told to stop.
ProcessClosed(s) == proc[s] # "up"
CloseProcess(s) ==
  /\ Ending(s) /\ Up /\ proc[s] = "up"
  /\ proc' = [proc EXCEPT ![s] = "dying"]
  /\ Quiet /\ UNCHANGED <<active, task, order, row, record, pid, struck>>
EndSession(s) ==
  /\ Ending(s) /\ Up /\ ProcessClosed(s)
  /\ row' = [row EXCEPT ![s] = IF task[s] = "startFailed" THEN Row("failed", "start_failed")
                               ELSE Row("ended", task[s])]
  /\ record' = [record EXCEPT ![s] = IF @ = "open" THEN "ended" ELSE @]
  /\ active' = active \ {s} /\ Step(s, "done")
  /\ order' = [order EXCEPT ![s] = "none"]
  /\ Quiet /\ UNCHANGED os
UserCloses(s) ==
  /\ backend = "up" /\ s \in active /\ row[s].state \notin Terminal /\ order[s] = "none"
  /\ order' = [order EXCEPT ![s] = "user_closed"]
  /\ Quiet /\ UNCHANGED <<active, task, row, record, os>>
Delete(s) ==
  /\ backend = "up" /\ row[s].state \in Terminal
  /\ row' = [row EXCEPT ![s].reason = "deleted"] /\ record' = [record EXCEPT ![s] = "none"]
  /\ Quiet /\ UNCHANGED <<active, task, order, os>>

\* check, models and upgrade reserve a slot; an upgrade also needs the lock and
\* is the only one of its kind.
MayReserve(x) == /\ Used(AuxCli(x)) < CliLimit
                 /\ x \in Upgrades => lock = Free /\ \A y \in Upgrades : aux[y] # "reserved"
Reserve(x) ==
  /\ aux[x] = "idle" /\ backend = "up" /\ MayReserve(x)
  /\ aux' = [aux EXCEPT ![x] = "reserved"]
  /\ UNCHANGED <<backend, caller, lock, active, task, order, row, record, os, crashes>>
ReleaseCli(x) ==
  /\ aux[x] = "reserved" /\ Up
  /\ aux' = [aux EXCEPT ![x] = "done"]
  /\ UNCHANGED <<backend, caller, lock, active, task, order, row, record, os, crashes>>

\* Shutdown: no request is accepted, tasks that are not ready are cancelled, the
\* others find a close message in place of what their queue held.
Shutdown ==
  /\ backend = "up" /\ backend' = "closing"
  /\ order' = [s \in Sid |-> IF s \in active THEN "interrupted_on_exit" ELSE order[s]]
  /\ task' = [s \in Sid |-> IF s \in active /\ task[s] \in {"starting", "started"}
                            THEN "interrupted_on_exit" ELSE task[s]]
  /\ aux' = [x \in Aux |-> IF aux[x] = "reserved" THEN "done" ELSE aux[x]]
  /\ UNCHANGED <<caller, lock, active, row, record, os, crashes>>

\* The process of the backend is gone: after a shutdown, or by a crash anywhere.
\* Every supervisor reads the end of its control pipe.
Eof(p) == IF p = "up" THEN "dying" ELSE p
Gone ==
  /\ backend' = "down" /\ lock' = Free /\ active' = {}
  /\ caller' = [c \in Callers |-> IF caller[c] \in {"locked", "storing", "stored"}
                                  THEN "lost" ELSE caller[c]]
  /\ aux' = [x \in Aux |-> IF aux[x] = "reserved" THEN "done" ELSE aux[x]]
  /\ task' = [s \in Sid |-> IF task[s] = "none" THEN "none" ELSE "done"]
  /\ order' = [s \in Sid |-> "none"]
  /\ proc' = [s \in Sid |-> Eof(proc[s])]
  /\ UNCHANGED <<row, record, pid, struck>>
Stopped == backend = "closing" /\ Gone /\ UNCHANGED crashes
Crash == Up /\ crashes < MaxCrashes /\ crashes' = crashes + 1 /\ Gone

\* The next start: groups that are recorded and still identified are killed,
\* sessions that were not over are ended.
Identified(s) == pid[s] = "ours"
LiveRow(s) == row[s].state \notin Terminal \cup {"none"}
Start ==
  /\ backend = "down" /\ backend' = "up"
  /\ LET hit == {s \in Sid : record[s] = "open" /\ Identified(s)} IN
     /\ proc' = [s \in Sid |-> IF s \in hit /\ proc[s] = "dying" THEN "gone" ELSE proc[s]]
     /\ pid' = [s \in Sid |-> IF s \in hit /\ pid[s] = "ours" THEN "nobody" ELSE pid[s]]
     /\ struck' = struck \cup {s \in hit : pid[s] = "foreign"}
  /\ record' = [s \in Sid |-> IF record[s] = "open" THEN "ended" ELSE record[s]]
  /\ row' = [s \in Sid |-> IF LiveRow(s) THEN Row("ended", "backend_restart") ELSE row[s]]
  /\ UNCHANGED <<mem, crashes>>

\* A supervisor: stop or the end of the control pipe terminates its group.
Reap(s) ==
  /\ proc[s] = "dying" /\ proc' = [proc EXCEPT ![s] = "gone"]
  /\ pid' = [pid EXCEPT ![s] = "nobody"]
  /\ UNCHANGED <<backend, mem, row, record, struck, crashes>>
Exits(s) ==
  /\ proc[s] = "up" /\ proc' = [proc EXCEPT ![s] = "gone"]
  /\ pid' = [pid EXCEPT ![s] = "nobody"]
  /\ UNCHANGED <<backend, mem, row, record, struck, crashes>>
\* The system gives the number of a process that is gone to somebody else.
Reuse(s) ==
  /\ proc[s] = "gone" /\ pid[s] = "nobody" /\ record[s] = "open"
  /\ pid' = [pid EXCEPT ![s] = "foreign"]
  /\ UNCHANGED <<backend, mem, row, record, proc, struck, crashes>>

CallerStep(c) == Acquire(c) \/ Decide(c) \/ Store(c) \/ Launch(c)
TaskStep(s) == \/ StartProcess(s) \/ RecordProcess(s) \/ Serve(s)
               \/ CloseProcess(s) \/ EndSession(s)
Next ==
  \/ \E c \in Callers : CallerStep(c) \/ CancelCaller(c)
  \/ \E s \in Sid : \/ TaskStep(s) \/ UserCloses(s) \/ Delete(s)
                    \/ Reap(s) \/ Exits(s) \/ Reuse(s)
  \/ \E x \in Aux : Reserve(x) \/ ReleaseCli(x)
  \/ Shutdown \/ Stopped \/ Crash \/ Start

Spec == Init /\ [][Next]_vars
-----------------------------------------------------------------------------
\* Every variable has its type, and who is inside create holds the lock.
SessionTypeOK ==
  /\ backend \in {"up", "closing", "down"} /\ lock \in Callers \cup {Free}
  /\ \A s \in Sid : row[s].state \in {"none", "starting", "idle", "closing"} \cup Terminal
  /\ active \subseteq Sid /\ record \in [Sid -> {"none", "open", "ended"}]
  /\ proc \in [Sid -> {"none", "up", "dying", "gone"}]
  /\ \A c \in Callers : caller[c] \in {"locked", "storing", "stored"} => lock = c

\* Every session the store takes for a live one has a task, or the request that
\* creates it has not finished: nobody sees a session that nothing will end.
LiveIsOwned ==
  \A s \in Sid : backend = "up" /\ row[s].state \notin Terminal \cup {"none"} =>
    s \in active \/ \E c \in Callers : RequestOf(c) = s /\ caller[c] = "stored"

\* A session that is over has no process that still runs for it (a process is
\* closed before the row of its session ends, and recovery leaves it to the
\* supervisor, which has read the end of its pipe).
OverHasNoProcess == \A s \in Sid : row[s].state \in Terminal => proc[s] # "up"

\* The sessions of a kind and the processes of a CLI keep their limits.
SessionsWithinLimits ==
  /\ Cardinality(active) <= KindLimit
  /\ \A s \in Sid : Cardinality(Sessions(CliOf(s))) <= CliLimit
\* A pid is killed by a start only while it is still the process we recorded.
NoForeignKill == struck = {}

\* A session ends once: what it ended as is not changed by anything but its deletion.
EndsOnce ==
  \A s \in Sid : row[s].state \in Terminal =>
     row'[s] = row[s] \/ row'[s] = [row[s] EXCEPT !.reason = "deleted"]

\* A process group without its backend is terminated; a session that is told to
\* close ends.
Orphan(s) == proc[s] = "up" /\ backend = "down"
Told(s) == order[s] = "user_closed"
Ended(s) == row[s].state \in Terminal

\* Sessions, their tasks and their processes agree.  (A request cancelled while
\* it creates a session leaves one that nothing ends: see the README.)
SessionsSafe ==
  /\ SessionTypeOK /\ OverHasNoProcess /\ SessionsWithinLimits /\ NoForeignKill
  /\ ~MayCancel => LiveIsOwned
=============================================================================

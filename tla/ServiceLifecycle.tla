-------------------------- MODULE ServiceLifecycle --------------------------
(***************************************************************************)
(* The local services and tunnels (services/services.py).  A record has    *)
(* one operation at a time (start, launch, stop, delete) and, when it      *)
(* serves, a monitor that watches its exit and its health.  An operation   *)
(* and the monitor may both be inside close() of the record, which takes   *)
(* the process at once, tells it to end and ends the readers only after    *)
(* the process ended.  The shutdown cuts off the operations it finds, also *)
(* inside that wait: what they were closing ends without being waited for. *)
(***************************************************************************)
EXTENDS Integers, FiniteSets

CONSTANTS
  Records,        \* code-server, the global tunnel, the places of own tunnels
  Tunnels,        \* those of Records that are own tunnels
  MaxTunnels,     \* cloudflared.max_tunnels
  FailureLimit,   \* failed checks in a row that make a service unhealthy (3)
  MaxStarts,      \* bound: processes a record is given
  SlowClose       \* whether a new process may start before the monitor's close ended

LifecycleAssumption ==
  /\ Tunnels \subseteq Records /\ IsFiniteSet(Tunnels)
  /\ MaxTunnels \in Nat /\ MaxStarts \in Nat /\ FailureLimit \in Nat \ {0} /\ SlowClose \in BOOLEAN

VARIABLES
  closing,     \* "no", "yes", "over": the shutdown of the service
  registered,  \* the records in the registry
  state,       \* view.state
  owner,       \* the process a record owns: its number, or 0
  readers,     \* the process whose readers the record holds, or 0
  reading,     \* the processes whose output is read
  op,          \* the operation of a record, or "none"
  opClose, monitorClose,  \* inside close(): the process it took (0 for none), or Outside
  monitor,     \* the process a running monitor watches, or 0
  failures,    \* failed checks in a row
  started,     \* processes a record was given so far
  alive,       \* the process groups that run
  ending       \* the groups whose supervisor was told to end them

closers == <<opClose, monitorClose>>
lvars == <<closing, registered, state, owner, readers, reading, op, closers, monitor,
          failures, started, alive, ending>>

Outside == -1
Serving == {"running", "unhealthy"}
Set(f, r, v) == [f EXCEPT ![r] = v]

ServicesInit ==
  /\ closing = "no" /\ registered = Records \ Tunnels
  /\ state = [r \in Records |-> "stopped"]
  /\ owner = [r \in Records |-> 0] /\ readers = [r \in Records |-> 0]
  /\ reading = [r \in Records |-> {}] /\ op = [r \in Records |-> "none"]
  /\ opClose = [r \in Records |-> Outside] /\ monitorClose = [r \in Records |-> Outside]
  /\ monitor = [r \in Records |-> 0] /\ failures = [r \in Records |-> 0]
  /\ started = [r \in Records |-> 0] /\ alive = [r \in Records |-> {}]
  /\ ending = [r \in Records |-> {}]

\* close() takes the monitor and the process of the record at once and tells it to end ...
ToldLater(r) == ending[r]
Told(r) == ending[r] \cup ({owner[r]} \ {0})
Enter(r, which, other) ==
  /\ which[r] = Outside /\ which' = Set(which, r, owner[r]) /\ other' = other
  /\ owner' = Set(owner, r, 0) /\ monitor' = Set(monitor, r, 0) /\ ending' = Set(ending, r, Told(r))
\* ... and when the group it took has ended it cancels the readers it finds.
Ended(n) == {n}
Leave(r, which, other) ==
  /\ which[r] # Outside /\ which' = Set(which, r, Outside) /\ other' = other
  /\ alive' = [alive EXCEPT ![r] = @ \ Ended(which[r])]
  /\ reading' = [reading EXCEPT ![r] = @ \ {readers[r]}] /\ readers' = Set(readers, r, 0)
  /\ UNCHANGED ending

\* An operation is claimed when no other one runs.
Claimable(r) == closing = "no" /\ r \in registered /\ op[r] = "none"
Claim(r, what) ==
  /\ Claimable(r) /\ op' = Set(op, r, what)
  /\ state' = IF what = "stop" THEN Set(state, r, "stopping") ELSE state
  /\ UNCHANGED <<closing, registered, owner, readers, reading, closers, monitor, failures,
                 started, alive, ending>>
\* A start is refused, or answered with what already serves.
Refuse(r) ==
  /\ op[r] = "start" /\ opClose[r] = Outside /\ op' = Set(op, r, "none")
  /\ UNCHANGED <<closing, registered, state, owner, readers, reading, closers, monitor,
                 failures, started, alive, ending>>
\* A start closes what is left of an earlier process; a stop and a deletion close.
Closes(r) == op[r] \in {"stop", "delete"} \/ (op[r] = "start" /\ state[r] \notin Serving)
OpClose(r) ==
  /\ Closes(r) /\ started[r] < MaxStarts + (IF op[r] = "start" THEN 0 ELSE 1)
  /\ Enter(r, opClose, monitorClose)
  /\ UNCHANGED <<closing, registered, state, readers, reading, op, failures, started, alive>>
After(r) == IF op[r] = "start" THEN "launch" ELSE "none"
OpClosed(r) ==
  /\ Leave(r, opClose, monitorClose)
  /\ state' = Set(state, r, CASE op[r] = "start" -> "starting"
                              [] op[r] = "launch" -> IF closing = "yes" THEN "stopped" ELSE "failed"
                              [] OTHER -> "stopped")
  /\ op' = Set(op, r, After(r))
  /\ registered' = IF op[r] = "delete" THEN registered \ {r} ELSE registered
  /\ UNCHANGED <<closing, owner, monitor, failures, started>>

\* create_tunnel: no await from the count to the registration.
Room == Cardinality(registered \cap Tunnels) < MaxTunnels
CreateTunnel(r) ==
  /\ closing = "no" /\ r \in Tunnels \ registered /\ Room /\ started[r] = 0
  /\ registered' = registered \cup {r}
  /\ state' = Set(state, r, "starting") /\ op' = Set(op, r, "launch")
  /\ UNCHANGED <<closing, owner, readers, reading, closers, monitor, failures, started, alive,
                 ending>>

\* _launch: a process with its readers; then it is ready, fails or is cancelled.
Launching(r) == op[r] = "launch" /\ opClose[r] = Outside
Spawn(r) ==
  /\ Launching(r) /\ owner[r] = 0 /\ started[r] < MaxStarts
  /\ SlowClose \/ monitorClose[r] = Outside
  /\ LET n == started[r] + 1 IN
     /\ started' = Set(started, r, n) /\ owner' = Set(owner, r, n)
     /\ alive' = [alive EXCEPT ![r] = @ \cup {n}]
     /\ readers' = Set(readers, r, n) /\ reading' = [reading EXCEPT ![r] = @ \cup {n}]
  /\ UNCHANGED <<closing, registered, state, op, closers, monitor, failures, ending>>
Ready(r) == owner[r] \in alive[r] /\ owner[r] \in reading[r]
Watched(r) == owner[r]
Launched(r) ==
  /\ Launching(r) /\ Ready(r) /\ closing = "no"
  /\ state' = Set(state, r, "running") /\ op' = Set(op, r, "none")
  /\ monitor' = Set(monitor, r, Watched(r)) /\ failures' = Set(failures, r, 0)
  /\ UNCHANGED <<closing, registered, owner, readers, reading, closers, started, alive, ending>>
LaunchFails(r) ==
  /\ Launching(r) /\ Enter(r, opClose, monitorClose)
  /\ UNCHANGED <<closing, registered, state, readers, reading, op, failures, started, alive>>

\* _monitor: a check of the port, and the exit of the process.
Watches(r) == monitor[r] # 0 /\ owner[r] = monitor[r]
Check(r, ok) ==
  /\ Watches(r) /\ monitor[r] \in alive[r]
  /\ failures' = Set(failures, r, IF ok THEN 0 ELSE IF failures[r] < FailureLimit
                                                    THEN failures[r] + 1 ELSE FailureLimit)
  /\ state' = Set(state, r, IF failures'[r] = FailureLimit THEN "unhealthy" ELSE "running")
  /\ UNCHANGED <<closing, registered, owner, readers, reading, op, closers, monitor, started, alive,
                 ending>>
SeesExit(r) ==
  /\ Watches(r) /\ monitor[r] \notin alive[r] /\ state' = Set(state, r, "failed")
  /\ Enter(r, monitorClose, opClose)
  /\ UNCHANGED <<closing, registered, readers, reading, op, failures, started, alive>>
MonitorClosed(r) ==
  /\ Leave(r, monitorClose, opClose)
  /\ UNCHANGED <<closing, registered, state, owner, op, monitor, failures, started>>
\* A group ends by itself, or by its supervisor when that was told to.
GroupEnds(r, n) ==
  /\ n \in alive[r] /\ alive' = [alive EXCEPT ![r] = @ \ {n}]
  /\ UNCHANGED <<closing, registered, state, owner, readers, reading, op, closers, monitor,
                 failures, started, ending>>
Exits(r) == \E n \in alive[r] : GroupEnds(r, n)
Supervised(r) == \E n \in ending[r] : GroupEnds(r, n)

\* Shutdown: every operation is cancelled, and every process told to end.  A launch
\* closes its process; an operation inside close() is cut off there, with its readers
\* ended but not its process, and a deletion leaves its tunnel registered.
Cut(r) == opClose[r] # Outside
ShutdownBegins ==
  /\ closing = "no" /\ closing' = "yes"
  /\ op' = [r \in Records |-> IF Launching(r) THEN "launch" ELSE "none"]
  /\ opClose' = [r \in Records |-> Outside]
  /\ reading' = [r \in Records |-> IF Cut(r) THEN reading[r] \ {readers[r]} ELSE reading[r]]
  /\ readers' = [r \in Records |-> IF Cut(r) THEN 0 ELSE readers[r]]
  /\ ending' = [r \in Records |-> Told(r)]
  /\ UNCHANGED <<registered, state, owner, monitorClose, monitor, failures, started, alive>>
\* When the operations have ended every record in the registry is closed; of what was
\* taken from a record before nothing is known any more, nor of a monitor's own close().
Doomed == registered
ShutdownEnds ==
  /\ closing = "yes" /\ closing' = "over" /\ \A r \in Records : op[r] = "none"
  /\ alive' = [r \in Records |-> IF r \in Doomed THEN alive[r] \ {owner[r]} ELSE alive[r]]
  /\ reading' = [r \in Records |-> IF r \in Doomed THEN reading[r] \ {readers[r]} ELSE reading[r]]
  /\ owner' = [r \in Records |-> IF r \in Doomed THEN 0 ELSE owner[r]]
  /\ monitor' = [r \in Records |-> IF r \in Doomed THEN 0 ELSE monitor[r]]
  /\ readers' = [r \in Records |-> IF r \in Doomed THEN 0 ELSE readers[r]]
  /\ state' = [r \in Records |-> IF r \in Doomed THEN "stopped" ELSE state[r]]
  /\ UNCHANGED <<registered, op, closers, failures, started, ending>>
Over == closing = "over" /\ UNCHANGED lvars

Own(r) == OpClose(r) \/ OpClosed(r) \/ LaunchFails(r) \/ SeesExit(r) \/ MonitorClosed(r)
Step(r) ==
  \/ Claim(r, "start") /\ r \notin Tunnels /\ started[r] < MaxStarts
  \/ Claim(r, "stop")
  \/ Claim(r, "delete") /\ r \in Tunnels
  \/ Refuse(r) \/ CreateTunnel(r) \/ Spawn(r) \/ Launched(r) \/ Exits(r) \/ Own(r)
  \/ \E ok \in BOOLEAN : Check(r, ok)
ServicesNext == (\E r \in Records : Step(r)) \/ ShutdownBegins \/ ShutdownEnds \/ Over

ServicesSpec == ServicesInit /\ [][ServicesNext]_lvars
-----------------------------------------------------------------------------
\* Every variable has its type.
LifecycleTypeOK ==
  /\ closing \in {"no", "yes", "over"} /\ registered \subseteq Records
  /\ \A r \in Records :
       /\ state[r] \in {"stopped", "starting", "running", "unhealthy", "stopping", "failed"}
       /\ op[r] \in {"none", "start", "launch", "stop", "delete"}
       /\ owner[r] \in 0..MaxStarts /\ monitor[r] \in {0, owner[r]} /\ ending[r] \subseteq 1..started[r]

\* A record has at most one process group beside the one an operation is closing, and a
\* service that is replaced has ended before the next one starts; only a shutdown gives
\* up a group, which was told to end.
OneProcess == \A r \in Records : \A n \in alive[r] :
  n \in {owner[r], opClose[r], monitorClose[r]} \/ (closing # "no" /\ n \in ending[r])

\* While a service serves, its owner reads the output of the process and watches it.
ServingIsRead ==
  \A r \in Records : state[r] \in Serving /\ op[r] = "none" /\ closing = "no" =>
    Watches(r) /\ owner[r] \in reading[r]

\* At most max_tunnels tunnels exist, whatever creations are under way.
TunnelLimit == Cardinality(registered \cap Tunnels) <= MaxTunnels

\* After the shutdown no record owns a process, and a group that still runs, because the
\* wait for its end was cut off, was told to end.
NothingSurvives == closing = "over" => \A r \in Records : owner[r] = 0 /\ alive[r] \subseteq ending[r]

\* A stop that was accepted ends; an exit is noticed; what the shutdown left ends.
Stops(r) == op[r] = "stop"
Outlives(r) == closing = "over" /\ alive[r] # {}
Exited(r) == state[r] \in Serving /\ owner[r] \notin alive[r]

\* A service has one process, which is read while it serves and ends, or is told to end,
\* with the backend, and there are no more tunnels than allowed.  (A process that starts
\* before its predecessor's readers are closed loses its own: see the README.)
ServicesSafe ==
  /\ LifecycleTypeOK /\ OneProcess /\ NothingSurvives /\ TunnelLimit
  /\ ~SlowClose => ServingIsRead
=============================================================================

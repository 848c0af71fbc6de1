---------------------------- MODULE LarkLifecycle ----------------------------
(***************************************************************************)
(* The managed Lark MCP server (services/mcp.py).  One operation at a time *)
(* is claimed: a start, a stop, a login (which stops the server and starts *)
(* it again) or a logout.  Around it run the health loop, the watcher of   *)
(* the exit, the cancellation of a login, and the saves of settings, none  *)
(* of which takes the claim.  A step of the operation ends at an await.    *)
(* The operation lock is taken only under the claim, so it is never        *)
(* contended and is left out.                                              *)
(***************************************************************************)
EXTENDS Naturals, FiniteSets

CONSTANTS
  ProbeLimit,    \* failed probes in a row that make the server unhealthy (3)
  MaxServers,    \* bound: servers started
  MaxSaves,      \* bound: saves of settings
  MayCancel      \* whether a login is ever cancelled

LarkAssumption ==
  ProbeLimit \in Nat \ {0} /\ MaxServers \in Nat /\ MaxSaves \in Nat /\ MayCancel \in BOOLEAN

VARIABLES
  larkState,  \* _lark_state
  claimed,    \* the claimed operation, or "none" (_lark_claimed)
  pc,         \* the await the operation is at
  cont,       \* what it does after a teardown
  seen,       \* the port in the settings it read
  was,        \* a login: was_running
  succeeded,  \* the login or logout process ended with 0
  stale,      \* the settings changed since the operation read their revision
  larkOwner,  \* _lark_owner: the number of a server, or 0
  victim,     \* the server a teardown waits for, or 0
  made, live, doomed,  \* servers started; those running; those told to end
  at,         \* the port of a server
  tool,       \* whether a login or logout process runs
  loginTask, cancelled, canceller,  \* the login as the cancellation sees it
  watched,    \* the server the exit watcher waits for, or 0
  health, missed,         \* the health loop: "none", "sleep", "probe"; probes that failed in a row
  owned, port, loggedIn,  \* mcp.lark in the settings
  editor, saves           \* a save that passed its checks; saves so far

opVars == <<claimed, pc, cont, seen, was, succeeded, stale>>
processes == <<larkOwner, victim, made, live, doomed, at, tool>>
loginVars == <<loginTask, cancelled, canceller>>
watchers == <<watched, health, missed>>
settings == <<owned, port, loggedIn, editor, saves>>
larkvars == <<larkState, opVars, processes, loginVars, watchers, settings>>

Running == {"running", "running_degraded", "unhealthy"}
Transient == {"starting", "stopping", "logging_in"}
Servers == 1..MaxServers
Open == live \ doomed   \* the servers that are not being ended

LarkInit ==
  /\ larkState = "stopped" /\ claimed = "none" /\ pc = "idle" /\ cont = "none" /\ seen = 1
  /\ was = FALSE /\ succeeded = FALSE /\ stale = FALSE
  /\ larkOwner = 0 /\ victim = 0 /\ made = 0 /\ live = {} /\ doomed = {}
  /\ at = [s \in Servers |-> 0] /\ tool = FALSE
  /\ loginTask = FALSE /\ cancelled = FALSE /\ canceller = "idle"
  /\ watched = 0 /\ health = "none" /\ missed = 0
  /\ owned = TRUE /\ port = 1 /\ loggedIn = FALSE /\ editor = "none" /\ saves = 0

Goto(label) == pc' = label /\ UNCHANGED <<claimed, cont, seen, was, succeeded, stale>>
\* The end of an operation releases the claim, and wakes a cancellation that waits for it,
\* which resumes before any other request can have gone further.
Finish ==
  /\ claimed' = "none" /\ pc' = "idle" /\ cont' = "none" /\ was' = FALSE /\ succeeded' = FALSE
  /\ stale' = FALSE /\ canceller' = "idle" /\ UNCHANGED <<seen, loginTask, cancelled>>

\* _teardown_lark_proc cancels the watchers and waits for them ...
CancelWatchers == watched' = 0 /\ health' = "none" /\ missed' = 0
Teardown(next) ==
  /\ pc' = "watchers" /\ cont' = next /\ CancelWatchers
  /\ UNCHANGED <<claimed, seen, stale>>
\* ... takes the process and closes its control pipe ...
ReleaseNothing == doomed
Release == doomed \cup ({larkOwner} \cap live)
TakeOwner ==
  /\ pc = "watchers" /\ larkOwner' = 0 /\ victim' = larkOwner /\ doomed' = Release
  /\ Goto("exit") /\ UNCHANGED <<larkState, made, live, at, tool, loginVars, watchers, settings>>
\* ... and waits until the supervisor has ended the group: what then follows.
Gone == pc = "exit" /\ victim \notin live

\* _stop_lark_internal
StopInternal(then) ==
  IF larkOwner = 0 /\ larkState \in {"stopped", "failed"}
    THEN /\ larkState' = "stopped" /\ pc' = then /\ UNCHANGED <<cont, watchers>>
    ELSE /\ larkState' = "stopping" /\ pc' = "stopping" /\ cont' = then /\ UNCHANGED watchers
Stopping ==
  /\ pc = "stopping" /\ Teardown(cont)
  /\ UNCHANGED <<larkState, was, succeeded, processes, loginVars, settings>>

\* _claim_lark_op: the check and the claim without an await between them.
LarkFree == claimed = "none" /\ larkState \notin Transient
Begin(what) ==
  /\ LarkFree /\ claimed' = what /\ pc' = "read" /\ UNCHANGED <<cont, seen, was, succeeded, stale>>
  /\ UNCHANGED <<larkState, processes, loginVars, watchers, settings>>
\* A stop reads the confirmation before it claims.
Stop ==
  /\ LarkFree /\ owned /\ claimed' = "stop" /\ StopInternal("end")
  /\ UNCHANGED <<seen, was, succeeded, stale, processes, loginVars, settings>>
\* A start, login or logout reads the settings and refuses without the confirmation.
Read ==
  /\ pc = "read" /\ UNCHANGED <<larkState, processes, watchers, settings>>
  /\ IF owned THEN /\ pc' = "gates" /\ seen' = port /\ UNCHANGED loginVars
                   /\ UNCHANGED <<claimed, cont, was, succeeded, stale>>
              ELSE Finish
\* No secret, no node, no packages.
GateFails ==
  /\ pc \in {"gates", "port"} /\ Finish /\ UNCHANGED <<larkState, processes, watchers, settings>>
StartGates ==
  /\ claimed = "start" /\ pc = "gates"
  /\ Goto(IF larkState \in {"running", "running_degraded"} THEN "end" ELSE "port")
  /\ UNCHANGED <<larkState, processes, loginVars, watchers, settings>>
\* is_port_in_use: a server that was not told to end listens on its port.
PortFree == \A s \in Open : at[s] # seen
PortChecked ==
  /\ pc = "port" /\ PortFree /\ larkState' = "starting" /\ Goto("starting")
  /\ UNCHANGED <<processes, loginVars, watchers, settings>>
\* _spawn_lark first releases a process that exited on its own.
Starting ==
  /\ pc = "starting"
  /\ IF larkOwner # 0 THEN Teardown("spawn") /\ UNCHANGED <<was, succeeded>>
                      ELSE Goto("spawn") /\ UNCHANGED watchers
  /\ UNCHANGED <<larkState, processes, loginVars, settings>>
TornForSpawn ==
  /\ Gone /\ cont = "spawn" /\ Goto("spawn")
  /\ UNCHANGED <<larkState, processes, loginVars, watchers, settings>>
SpawnLark ==
  /\ pc = "spawn" /\ made < MaxServers /\ made' = made + 1 /\ larkOwner' = made'
  /\ live' = live \cup {made'} /\ at' = [at EXCEPT ![made'] = seen] /\ Goto("probe")
  /\ UNCHANGED <<larkState, victim, doomed, tool, loginVars, watchers, settings>>
\* The process did not start, ended early, or did not listen in time: torn down, failed.
StartFailsLeaves ==
  /\ pc \in {"spawn", "probe"} /\ larkState' = "failed" /\ Goto("end")
  /\ UNCHANGED <<processes, loginVars, watchers, settings>>
StartFails ==
  /\ pc \in {"spawn", "probe"} /\ Teardown("failed")
  /\ UNCHANGED <<larkState, was, succeeded, processes, loginVars, settings>>
StartFailed ==
  /\ Gone /\ cont = "failed" /\ larkState' = "failed" /\ Goto("end")
  /\ UNCHANGED <<processes, loginVars, watchers, settings>>
\* It answers: whether every patch was applied is up to the process.
Watch == larkOwner
Listens(patched) ==
  /\ pc = "probe" /\ larkOwner \in live /\ Goto("end")
  /\ larkState' = IF patched THEN "running" ELSE "running_degraded"
  /\ watched' = Watch /\ health' = "sleep" /\ missed' = 0
  /\ UNCHANGED <<processes, loginVars, settings>>
\* The status is published, and the claim released.
End ==
  /\ pc = "end" /\ Finish /\ UNCHANGED <<larkState, processes, watchers, settings>>
Stopped ==
  /\ Gone /\ cont = "end" /\ larkState' = "stopped" /\ Goto("end")
  /\ UNCHANGED <<processes, loginVars, watchers, settings>>

\* _login_lark_claimed
LoginGates ==
  /\ claimed = "login" /\ pc = "gates" /\ was' = (larkState \in Running)
  /\ loginTask' = TRUE /\ cancelled' = FALSE
  /\ IF larkState \in Running THEN StopInternal("login")
       ELSE /\ larkState' = "logging_in" /\ pc' = "announce" /\ UNCHANGED <<cont, watchers>>
  /\ UNCHANGED <<claimed, seen, succeeded, stale, processes, canceller, settings>>
StoppedForLogin ==
  /\ Gone /\ cont = "login" /\ larkState' = "logging_in" /\ Goto("announce")
  /\ UNCHANGED <<processes, loginVars, watchers, settings>>
Announced ==
  /\ pc = "announce" /\ Goto("tool")
  /\ UNCHANGED <<larkState, processes, loginVars, watchers, settings>>
\* _logout_lark_claimed
LogoutStops == larkState \in Running
LogoutGates ==
  /\ claimed = "logout" /\ pc = "gates"
  /\ IF LogoutStops THEN StopInternal("logout")
       ELSE larkState' = larkState /\ pc' = "tool" /\ UNCHANGED <<cont, watchers>>
  /\ UNCHANGED <<claimed, seen, was, succeeded, stale, processes, loginVars, settings>>
StoppedForLogout ==
  /\ Gone /\ cont = "logout" /\ larkState' = "stopped" /\ Goto("tool")
  /\ UNCHANGED <<processes, loginVars, watchers, settings>>
\* The login or logout process, until it ends or its time is over.
ToolStarts ==
  /\ pc = "tool" /\ tool' = TRUE /\ Goto("tool runs")
  /\ UNCHANGED <<larkState, larkOwner, victim, made, live, doomed, at, loginVars, watchers, settings>>
ToolFails ==
  /\ pc = "tool" /\ larkState' = IF claimed = "login" THEN "failed" ELSE larkState
  /\ claimed' = "none" /\ pc' = "idle" /\ cont' = "none" /\ was' = FALSE /\ succeeded' = FALSE
  /\ stale' = FALSE /\ loginTask' = FALSE
  /\ UNCHANGED <<seen, cancelled, canceller, processes, watchers, settings>>
ToolEnds ==
  /\ tool /\ tool' = FALSE
  /\ UNCHANGED <<larkState, opVars, larkOwner, victim, made, live, doomed, at, loginVars, watchers,
                 settings>>
ToolOver(ok) ==
  /\ pc = "tool runs" /\ (ok => ~tool) /\ succeeded' = ok /\ pc' = "cleanup"
  /\ loginTask' = FALSE
  /\ UNCHANGED <<larkState, claimed, cont, seen, was, stale, processes, cancelled, canceller, watchers,
                 settings>>
\* The finally clause has waited for the process.
CleanedUp ==
  /\ pc = "cleanup" /\ ~tool
  /\ LET done == succeeded /\ ~(claimed = "login" /\ cancelled)
     IN /\ Goto(IF done THEN "latest" ELSE "end")
        /\ larkState' = CASE done -> larkState
                          [] claimed = "login" /\ ~cancelled -> "failed"
                          [] OTHER -> "stopped"
  /\ UNCHANGED <<processes, loginVars, watchers, settings>>
ReadLatest ==
  /\ pc = "latest" /\ pc' = "write" /\ stale' = FALSE
  /\ UNCHANGED <<larkState, claimed, cont, seen, was, succeeded, processes, loginVars, watchers, settings>>
\* ConfigStore.update refuses another revision than the one just read: the error leaves
\* the operation, and the state, as they are.
WriteRefused ==
  /\ pc = "write" /\ stale /\ Finish /\ UNCHANGED <<larkState, processes, watchers, settings>>
Resumes == claimed = "login" /\ was
Write ==
  /\ pc = "write" /\ ~stale /\ loggedIn' = (claimed = "login") /\ larkState' = "stopped"
  /\ claimed' = (IF Resumes THEN "start" ELSE claimed) /\ pc' = (IF Resumes THEN "read" ELSE "end")
  /\ UNCHANGED <<cont, seen, was, succeeded, stale, processes, loginVars, watchers, owned, port,
                 editor, saves>>

\* cancel_lark_login: the login wakes in its await with CancelledError, and the teardown it
\* is in, or the start of its process, is given up.
CancelLogin ==
  /\ MayCancel /\ loginTask /\ canceller' = "waiting" /\ cancelled' = TRUE
  /\ loginTask' = FALSE /\ pc' = "cleanup" /\ cont' = "none"
  /\ UNCHANGED <<larkState, claimed, seen, was, succeeded, stale, processes, watchers, settings>>
\* Without a task to cancel, or after waiting four seconds for it.
CancelLate ==
  /\ MayCancel /\ larkState' = "stopped" /\ canceller' = "idle" /\ cancelled' = TRUE
  /\ \/ ~loginTask /\ larkState = "logging_in" /\ canceller = "idle"
     \/ canceller = "waiting" /\ claimed = "login"
  /\ UNCHANGED <<opVars, processes, loginTask, watchers, settings>>

\* _lark_health_loop
HealthWakes ==
  /\ health = "sleep" /\ missed' = missed /\ watched' = watched
  /\ health' = IF larkState \in Running /\ larkOwner \in live THEN "probe" ELSE "none"
  /\ UNCHANGED <<larkState, opVars, processes, loginVars, settings>>
Probed(ok, patched) ==
  /\ health = "probe"
  /\ missed' = IF ok THEN 0 ELSE IF missed < ProbeLimit THEN missed + 1 ELSE missed
  /\ larkState' = CASE ok /\ larkState = "unhealthy" -> IF patched THEN "running" ELSE "running_degraded"
                    [] ~ok /\ missed' = ProbeLimit -> "unhealthy"
                    [] OTHER -> larkState
  /\ health' = IF larkState' \in Running THEN "sleep" ELSE "none"
  /\ UNCHANGED <<watched, opVars, processes, loginVars, settings>>
\* _lark_exit_watcher
ExitSeen ==
  /\ watched # 0 /\ watched \notin live /\ watched' = 0
  /\ larkState' = IF larkOwner = watched /\ larkState \in Running THEN "failed" ELSE larkState
  /\ UNCHANGED <<health, missed, opVars, processes, loginVars, settings>>
ServerExits(s) ==
  /\ s \in live /\ live' = live \ {s} /\ doomed' = doomed \ {s}
  /\ UNCHANGED <<larkState, opVars, larkOwner, victim, made, at, tool, loginVars, watchers, settings>>

\* The routes that change the settings check the state, not the claim ...
MayEdit(what) ==
  \/ what = "revoke" /\ larkState = "stopped"
  \/ what = "move" /\ larkState \in {"stopped", "failed"}   \* another port or App ID
  \/ what = "other"                                         \* a confirmation, other settings
BeginEdit(what) ==
  /\ saves < MaxSaves /\ editor = "none" /\ MayEdit(what) /\ editor' = what /\ saves' = saves + 1
  /\ UNCHANGED <<larkState, opVars, processes, loginVars, watchers, owned, port, loggedIn>>
\* ... and are at an await before they write, or are refused for their revision.
EndEdit(accepted) ==
  /\ editor # "none" /\ editor' = "none"
  /\ stale' = (stale \/ (accepted /\ pc = "write"))
  /\ owned' = IF accepted THEN (CASE editor = "revoke" -> FALSE
                                  [] editor = "other" -> TRUE [] OTHER -> owned) ELSE owned
  /\ port' = IF accepted /\ editor = "move" THEN 3 - port ELSE port
  /\ UNCHANGED <<larkState, claimed, pc, cont, seen, was, succeeded, processes, loginVars, watchers,
                 loggedIn, saves>>
\* Everything has come to rest.
LarkOver == claimed = "none" /\ live = {} /\ made = MaxServers /\ UNCHANGED larkvars

Operation ==
  \/ Read \/ GateFails \/ StartGates \/ PortChecked \/ Starting \/ TornForSpawn \/ SpawnLark
  \/ StartFails \/ StartFailed \/ (\E b \in BOOLEAN : Listens(b)) \/ End \/ Stopping
  \/ TakeOwner \/ Stopped \/ LoginGates \/ StoppedForLogin \/ Announced \/ LogoutGates
  \/ StoppedForLogout \/ ToolStarts \/ ToolFails \/ (\E b \in BOOLEAN : ToolOver(b))
  \/ CleanedUp \/ ReadLatest \/ WriteRefused \/ Write
Killed == (\E s \in doomed : ServerExits(s)) \/ (pc = "cleanup" /\ ToolEnds)
LarkNext ==
  \/ Operation \/ Stop \/ ToolEnds \/ CancelLogin \/ CancelLate \/ HealthWakes \/ ExitSeen
  \/ \E what \in {"start", "login", "logout"} : Begin(what)
  \/ \E ok, patched \in BOOLEAN : Probed(ok, patched)
  \/ \E s \in live : ServerExits(s)
  \/ \E what \in {"revoke", "move", "other"} : BeginEdit(what)
  \/ \E accepted \in BOOLEAN : EndEdit(accepted)
  \/ LarkOver

LarkSpec == LarkInit /\ [][LarkNext]_larkvars

-----------------------------------------------------------------------------
LarkTypeOK ==
  /\ larkState \in Running \cup Transient \cup {"stopped", "failed"}
  /\ claimed \in {"none", "start", "stop", "login", "logout"}
  /\ (claimed = "none") = (pc = "idle")
  /\ larkOwner \in 0..made /\ victim \in 0..made /\ watched \in 0..made /\ made \in 0..MaxServers
  /\ live \subseteq 1..made /\ doomed \subseteq live
  /\ at \in [Servers -> 0..2] /\ seen \in 1..2 /\ port \in 1..2
  /\ cont \in {"none", "spawn", "failed", "end", "login", "logout"}
  /\ health \in {"none", "sleep", "probe"} /\ missed \in 0..ProbeLimit
  /\ canceller \in {"idle", "waiting"} /\ editor \in {"none", "revoke", "move", "other"}
  /\ {was, succeeded, stale, tool, loginTask, cancelled, owned, loggedIn} \subseteq BOOLEAN
  /\ saves \in 0..MaxSaves

(* At most one server runs that was not told to end, and it is the one the service can end:
   no start overwrites the process of another. *)
OneServer == \A s \in Open : s = larkOwner
(* Between operations a state that serves belongs to a process with a watcher for its exit. *)
ServingIsWatched ==
  claimed = "none" /\ larkState \in Running => larkOwner # 0 /\ (larkOwner \in live => watched = larkOwner)
(* A state that refuses every operation is held by the operation that will end it. *)
TransientIsClaimed == larkState \in Transient => claimed # "none"
(* When the service says stopped and nothing is under way, no server runs. *)
StoppedIsStopped == claimed = "none" /\ larkState \in {"stopped", "failed"} => Open = {}
(* A login or a logout has the port and the token storage to itself. *)
ToolAlone == tool => live = {}
(* The login metadata are cleared only when no server holds the old tokens. *)
ClearedWhileStopped == loggedIn /\ ~loggedIn' => Open = {}
(* A stop that is answered leaves only servers that were told to end. *)
StopStops == claimed = "stop" /\ claimed' = "none" => larkState' = "stopped" /\ Open = {}
\* One server at most, watched while it serves; a state that passes belongs to
\* an operation.  (A cancelled login and a save that overtakes an operation
\* break the last two: see the README.)
LarkSafe ==
  /\ LarkTypeOK /\ OneServer /\ ServingIsWatched
  /\ ~MayCancel /\ MaxSaves = 0 => TransientIsClaimed /\ StoppedIsStopped /\ ToolAlone
=============================================================================

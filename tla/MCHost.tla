------------------------------- MODULE MCHost -------------------------------
(***************************************************************************)
(* What the backend keeps on the host, for TLC: its configuration and      *)
(* credentials, services and tunnels, the MCP server and its installation, *)
(* the runs and the bypass of the VPN, each by itself: they share no       *)
(* variable.  `part' names the one that moves in a behaviour; the others   *)
(* stay in their initial state.                                            *)
(***************************************************************************)
EXTENDS Naturals

VARIABLES
  part,
  file, backup, flock, mutex, job, reply, mail, heard, run, faults,
  disk, copy, chain, change, up, bound,
  closing, registered, service, group, readers, reading, command, opClose, monitorClose, monitor, misses, started,
  groups, ending,
  larkState, claimed, pc, cont, seen, was, succeeded, stale, larkOwner, victim, made, live, doomed, at, tool,
  loginTask, cancelled, canceller, watched, health, missed, owned, port, loggedIn, editor, saves,
  jobs, active, shown, step, why, thread, npm, ended, node, named, packages,
  table, routes, pending, cache, snapshot, installed, daemon, runner, sweep, read, unswept, dest, gateway, desired,
  events, saved, request, installer, wish, others, crashes, applies, late,
  life, gate, record, current, task, worker, browser, held, kept, clean, link, left

config == <<file, backup, flock, mutex, job, reply, mail, heard, run, faults>>
credentials == <<disk, copy, chain, change, up, bound>>
services == <<closing, registered, service, group, readers, reading, command, opClose, monitorClose, monitor,
              misses, started, groups, ending>>
lark == <<larkState, claimed, pc, cont, seen, was, succeeded, stale, larkOwner, victim, made, live, doomed, at,
          tool, loginTask, cancelled, canceller, watched, health, missed, owned, port, loggedIn, editor, saves>>
install == <<jobs, active, shown, step, why, thread, npm, ended, node, named, packages>>
bypass == <<table, routes, pending, cache, snapshot, installed, daemon, runner, sweep, read, unswept, dest, gateway,
            desired, events, saved, request, installer, wish, others, crashes, applies, late>>
vpn == <<life, gate, record, current, task, worker, browser, held, kept, clean, link, left>>
vars == <<part, config, credentials, services, lark, install, bypass, vpn>>

-----------------------------------------------------------------------------
(* A removal of two commits, an acceptance of a run and an edit from       *)
(* another process; two processes that migrate the file, and an edit       *)
Apps == {"desk", "cli"}
Editors == {"remove", "accept", "edit"}
AppOf == [remove |-> "desk", accept |-> "desk", edit |-> "cli"]
Does == [remove |-> "remove", accept |-> "accept", edit |-> "edit"]
Contention == INSTANCE ConfigStore WITH
  Procs <- Apps, Callers <- Editors, Home <- AppOf, Kind <- Does,
  Journal <- "desk", Schema <- "current", Cancels <- 1, Faults <- 1, Deaths <- 1, Nobody <- "nobody"
Starters == {"start", "startToo", "edit"}
StarterOf == [start |-> "desk", startToo |-> "cli", edit |-> "desk"]
StarterDoes == [start |-> "migrate", startToo |-> "migrate", edit |-> "other"]
Migration == INSTANCE ConfigStore WITH
  Procs <- Apps, Callers <- Starters, Home <- StarterOf, Kind <- StarterDoes,
  Journal <- "desk", Schema <- "old", Cancels <- 1, Faults <- 1, Deaths <- 1, Nobody <- "nobody"

(* A library of the old configuration and one that the user creates; two    *)
(* that the user creates, and one with more failures                       *)
OldLib == {"old"}
NoLibs == {}
OneLib == {"first"}
TwoLibs == {"first", "second"}
Import == INSTANCE SettingsCredentials WITH
  Legacy <- OldLib, Fresh <- OneLib, NoLib <- "none", Moves <- 1, MaxRev <- 8, Imports <- 2, Failures <- 2,
  Crashes <- 1, op <- change
Libraries == INSTANCE SettingsCredentials WITH
  Legacy <- NoLibs, Fresh <- TwoLibs, NoLib <- "none", Moves <- 2, MaxRev <- 8, Imports <- 0, Failures <- 1,
  Crashes <- 1, op <- change
Library == INSTANCE SettingsCredentials WITH
  Legacy <- NoLibs, Fresh <- OneLib, NoLib <- "none", Moves <- 2, MaxRev <- 8, Imports <- 0, Failures <- 2,
  Crashes <- 1, op <- change

(* code-server and a tunnel; the places of two tunnels, of which one may be taken *)
Managed == {"code", "t1"}
OneTunnel == {"t1"}
TwoTunnels == {"t1", "t2"}
Services == INSTANCE ServiceLifecycle WITH
  Records <- Managed, Tunnels <- OneTunnel, MaxTunnels <- 1, FailureLimit <- 2, MaxStarts <- 2,
  SlowClose <- FALSE, state <- service, owner <- group, op <- command, failures <- misses, alive <- groups
Places == INSTANCE ServiceLifecycle WITH
  Records <- TwoTunnels, Tunnels <- TwoTunnels, MaxTunnels <- 1, FailureLimit <- 2, MaxStarts <- 1,
  SlowClose <- FALSE, state <- service, owner <- group, op <- command, failures <- misses, alive <- groups

(* A server that nobody disturbs; logins cancelled and settings saved meanwhile *)
Lark == INSTANCE LarkLifecycle WITH ProbeLimit <- 2, MaxServers <- 2, MaxSaves <- 0, MayCancel <- FALSE
Disturbed == INSTANCE LarkLifecycle WITH ProbeLimit <- 2, MaxServers <- 2, MaxSaves <- 1, MayCancel <- TRUE

Install == INSTANCE RuntimeInstall WITH MaxJobs <- 2, JobCancels <- FALSE, job <- shown, told <- ended
Cancelled == INSTANCE RuntimeInstall WITH MaxJobs <- 2, JobCancels <- TRUE, job <- shown, told <- ended

(* A configuration that moves to another gateway and is switched off; one  *)
(* with more crashes while others change the table; one with room for a    *)
(* single route                                                            *)
Destinations == {1, 2}
AppOnly == {2}
Hops == {"g1", "g2"}
Moving == {[enabled |-> TRUE, gateway |-> "g1", targets |-> {1, 2}],
           [enabled |-> TRUE, gateway |-> "g2", targets |-> {1}],
           [enabled |-> FALSE, gateway |-> "g1", targets |-> {1}]}
Bypass == INSTANCE BypassDaemon WITH
  Nothing <- "nothing", Foreign <- "foreign", Nets <- Destinations, Gateways <- Hops, Configs <- Moving,
  AppNets <- AppOnly, MaxRoutes <- 2, MaxOthers <- 0, MaxCrashes <- 1, MaxApplies <- 3,
  owner <- routes, job <- daemon, seen <- read
Meddled == INSTANCE BypassDaemon WITH
  Nothing <- "nothing", Foreign <- "foreign", Nets <- Destinations, Gateways <- Hops, Configs <- Moving,
  AppNets <- AppOnly, MaxRoutes <- 2, MaxOthers <- 1, MaxCrashes <- 2, MaxApplies <- 2,
  owner <- routes, job <- daemon, seen <- read
Full == INSTANCE BypassDaemon WITH
  Nothing <- "nothing", Foreign <- "foreign", Nets <- Destinations, Gateways <- Hops, Configs <- Moving,
  AppNets <- AppOnly, MaxRoutes <- 1, MaxOthers <- 0, MaxCrashes <- 1, MaxApplies <- 3,
  owner <- routes, job <- daemon, seen <- read

(* Two runs that overlap, on the ladder without a login; two calls with    *)
(* one request, of which the second logs in after a restart; one login     *)
(* that is out of time, and whose pids are taken by others                 *)
Calls == {"one", "two"}
TwoRequests == [one |-> "a", two |-> "b"]
OneRequest == [one |-> "a", two |-> "a"]
Climbs == {[relogin |-> FALSE, top |-> 2]}
Relogins == {[relogin |-> TRUE, top |-> 3]}
Ladder == INSTANCE VpnRuns WITH
  Callers <- Calls, Request <- TwoRequests, Kinds <- Climbs, Window <- TRUE, Timed <- TRUE, Reused <- FALSE,
  MaxTries <- 0, MaxFlips <- 1, MaxRestarts <- 0, Nobody <- "nobody"
Again == INSTANCE VpnRuns WITH
  Callers <- Calls, Request <- OneRequest, Kinds <- Relogins, Window <- FALSE, Timed <- FALSE, Reused <- FALSE,
  MaxTries <- 0, MaxFlips <- 0, MaxRestarts <- 1, Nobody <- "nobody"
SingleCall == {"one"}
SingleRequest == [one |-> "a"]
Login == INSTANCE VpnRuns WITH
  Callers <- SingleCall, Request <- SingleRequest, Kinds <- Relogins, Window <- FALSE, Timed <- TRUE, Reused <- TRUE,
  MaxTries <- 1, MaxFlips <- 0, MaxRestarts <- 1, Nobody <- "nobody"

ASSUME InstancesAssumption ==
  /\ Contention!HomeAssumption /\ Migration!HomeAssumption
  /\ Import!SettingsAssumption /\ Libraries!SettingsAssumption /\ Library!SettingsAssumption
  /\ Services!LifecycleAssumption /\ Places!LifecycleAssumption
  /\ Lark!LarkAssumption /\ Disturbed!LarkAssumption
  /\ Install!InstallAssumption /\ Cancelled!InstallAssumption
  /\ Bypass!BypassAssumption /\ Meddled!BypassAssumption /\ Full!BypassAssumption
  /\ Ladder!VpnAssumption /\ Again!VpnAssumption /\ Login!VpnAssumption

-----------------------------------------------------------------------------
Init ==
  /\ part \in {"contention", "migration", "import", "libraries", "library", "services", "places", "lark", "disturbed",
               "install", "cancelled", "bypass", "meddled", "full", "ladder", "again", "login"}
  /\ IF part = "migration" THEN Migration!ConfigInit ELSE Contention!ConfigInit
  /\ CASE part = "libraries" -> Libraries!SettingsInit
       [] part = "library" -> Library!SettingsInit
       [] OTHER -> Import!SettingsInit
  /\ IF part = "places" THEN Places!ServicesInit ELSE Services!ServicesInit
  /\ Lark!LarkInit /\ Install!InstallInit /\ Bypass!BypassInit
  /\ CASE part = "again" -> Again!Init [] part = "login" -> Login!Init [] OTHER -> Ladder!Init
  /\ part \notin {"ladder", "again", "login"} => link
  /\ part \notin {"bypass", "meddled", "full"} => dest = 1 /\ table = [n \in {1, 2} |-> "nothing"]

Configuration ==
  /\ \/ part = "contention" /\ Contention!ConfigNext
     \/ part = "migration" /\ Migration!ConfigNext
  /\ UNCHANGED <<part, credentials, services, lark, install, bypass, vpn>>

Credentials ==
  /\ \/ part = "import" /\ Import!SettingsNext
     \/ part = "libraries" /\ Libraries!SettingsNext
     \/ part = "library" /\ Library!SettingsNext
  /\ UNCHANGED <<part, config, services, lark, install, bypass, vpn>>

AllServices ==
  /\ \/ part = "services" /\ Services!ServicesNext
     \/ part = "places" /\ Places!ServicesNext
  /\ UNCHANGED <<part, config, credentials, lark, install, bypass, vpn>>

Mcp ==
  \/ /\ \/ part = "lark" /\ Lark!LarkNext
        \/ part = "disturbed" /\ Disturbed!LarkNext
     /\ UNCHANGED <<part, config, credentials, services, install, bypass, vpn>>
  \/ /\ \/ part = "install" /\ Install!InstallNext
        \/ part = "cancelled" /\ Cancelled!InstallNext
     /\ UNCHANGED <<part, config, credentials, services, lark, bypass, vpn>>

Routes ==
  /\ \/ part = "bypass" /\ Bypass!BypassNext
     \/ part = "meddled" /\ Meddled!BypassNext
     \/ part = "full" /\ Full!BypassNext
  /\ UNCHANGED <<part, config, credentials, services, lark, install, vpn>>

Connection ==
  /\ \/ part = "ladder" /\ Ladder!Next
     \/ part = "again" /\ Again!Next
     \/ part = "login" /\ Login!Next
  /\ UNCHANGED <<part, config, credentials, services, lark, install, bypass>>

(* No caller is inside the configuration; the user changes no more settings *)
Quiet ==
  /\ \/ part \in {"contention", "migration"} /\ \A c \in DOMAIN job : job[c].pc \in {"idle", "over"}
     \/ part \in {"import", "libraries", "library"} /\ change.at = "idle"
     \/ part \in {"ladder", "again", "login"} /\ life = "down"
  /\ UNCHANGED vars

Next == Configuration \/ Credentials \/ AllServices \/ Mcp \/ Routes \/ Connection \/ Quiet
Spec == Init /\ [][Next]_vars

-----------------------------------------------------------------------------
(* The configuration and its secrets (ConfigStore.update, run, migrate;    *)
(* SettingsService): what an active run froze does not change, a thread    *)
(* that outlives its caller keeps the lock, revisions are announced in     *)
(* order; and no PAT is sent to an address it was not given for or left    *)
(* in the Keychain without an entry that lists it.                         *)
SettingsSafe ==
  /\ part = "contention" => Contention!ConfigSafe
  /\ part = "migration" => Migration!ConfigSafe
  /\ part = "import" => Import!CredentialsSafe
  /\ part = "libraries" => Libraries!CredentialsSafe
  /\ part = "library" => Library!CredentialsSafe
(* Services and tunnels (ServicesService): one process of each, which is   *)
(* read and watched while it serves; after the shutdown, which cuts off    *)
(* operations at any await, none that was not told to end; and never more  *)
(* tunnels than allowed, however operations and exits overlap.             *)
(* The MCP server and its runtime (McpService): one server at most that    *)
(* was not told to end, watched while it serves, a login alone with the    *)
(* token storage; one installation, and no Node named that is not there.   *)
SupervisedSafe ==
  /\ part = "services" => Services!ServicesSafe
  /\ part = "places" => Places!ServicesSafe
  /\ part = "lark" => Lark!LarkSafe
  /\ part = "disturbed" => Disturbed!LarkSafe
  /\ part = "install" => Install!InstallSafe
  /\ part = "cancelled" => Cancelled!InstallSafe
(* The runs of the VPN (VpnService): one at a time, which cancel and close *)
(* reach; a success is a connection, a relogin a login; and a login leaves *)
(* no worker, no Chrome and no wrong process killed, with interruptions at *)
(* every await and deaths of the backend.                                  *)
(* The VPN bypass (bypass_daemon.py, bypass_installer.py): every route of  *)
(* the daemon is in its journal, which the next sweep can read; the job    *)
(* runs only for a snapshot that is on, and an undo that reports nothing   *)
(* has left no route, through kills between any two steps.                 *)
VpnSafe ==
  /\ part = "ladder" => Ladder!VpnSafe
  /\ part = "again" => Again!VpnSafe
  /\ part = "login" => Login!VpnSafe
  /\ part = "bypass" => Bypass!BypassSafe
  /\ part = "meddled" => Meddled!BypassSafe
  /\ part = "full" => Full!BypassSafe

(* Every step of the configuration store, of two processes with locks,     *)
(* threads, cancelled callers and failed writes, is one of the register    *)
(* ConfigRegister or none: a commit extends what its writer read, and what *)
(* a caller is told is what happened.  And what no step does: write over a *)
(* damaged file or over an old one without                                 *)
(* a copy; complete an import without its PATs; take a revision again;     *)
(* forget the login while a server holds its tokens; answer a stop while a *)
(* server runs; complete an installation whose packages are not whole, or  *)
(* change its end, unless its time runs out while that is published;       *)
(* remove a route of others that the sweep has seen; or change the end of  *)
(* a VPN run, or make one succeed that is cancelled.                       *)
HostSteps ==
  [][/\ part = "contention" => [Contention!Register!RegisterNext]_(Contention!Register!rvars)
     /\ part = "migration" =>
          Migration!OriginalKept /\ [Migration!Register!RegisterNext]_(Migration!Register!rvars)
     /\ part = "import" => Import!CredentialsStep
     /\ part = "libraries" => Libraries!CredentialsStep
     /\ part = "library" => Library!CredentialsStep
     /\ part = "lark" => Lark!ClearedWhileStopped
     /\ part = "disturbed" => Disturbed!StopStops
     /\ part = "install" => Install!CompletedIsWhole
     /\ part = "cancelled" => Cancelled!EndStays
     /\ part = "meddled" => Meddled!OthersUntouched
     /\ part = "ladder" => Ladder!EndStands
     /\ part = "again" => Again!EndStands]_vars
=============================================================================

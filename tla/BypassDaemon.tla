---------------------------- MODULE BypassDaemon ----------------------------
(***************************************************************************)
(* The VPN bypass: a root daemon (vpn/bypass_daemon.py) that keeps routes  *)
(* of its own in the table of the system, each entered in a journal before *)
(* it is added, so that a crash leaves no route nobody answers for; the    *)
(* installer (vpn/bypass_installer.py) that stops the daemon, replaces its *)
(* snapshot and repairs once; and the service that asks for it             *)
(* (services/vpn_bypass.py).  The daemon may be killed between two steps,  *)
(* and others change the table at any time.                                *)
(***************************************************************************)
EXTENDS Naturals, FiniteSets

CONSTANTS
  Nets,       \* destinations, compared as in sorted()
  Gateways,   \* gateway and interface of a route
  Configs,    \* the configurations that are saved
  AppNets,    \* destinations the programs of the configuration talk to
  MaxRoutes,  \* MAX_ROUTES
  MaxOthers, MaxCrashes, MaxApplies,  \* bounds: changes by others, kills, requests
  Nothing, Foreign  \* an absent route, and one through another gateway

BypassAssumption ==
  /\ Nets \subseteq Nat /\ Nothing \notin Gateways /\ Foreign \notin Gateways
  /\ Nothing # Foreign /\ AppNets \subseteq Nets
  /\ IsFiniteSet(Nets) /\ MaxRoutes \in Nat /\ MaxOthers \in Nat /\ MaxCrashes \in Nat /\ MaxApplies \in Nat
  /\ Configs \subseteq [enabled : BOOLEAN, gateway : Gateways, targets : SUBSET Nets]

VARIABLES
  table,             \* the unscoped route of a destination
  owner, pending,    \* the journal: the gateway of a route, or Nothing; its phase
  cache,             \* discovered destinations
  snapshot, installed, job,   \* config.json; whether it is there; the launchd job
  runner, sweep,        \* who holds the lock of the daemon; the step of its sweep
  seen, unswept, dest,   \* the table it read last; what the sweep has left; its destination
  gateway, desired, events,   \* of this sweep
  saved, request,    \* the saved configuration; the action the service waits for
  installer, wish,   \* the step of the installer and the snapshot it was given
  others, crashes, applies,
  late               \* destinations others changed since the last step of the sweep

journal == <<owner, pending, cache>>
sweepVars == <<sweep, seen, unswept, dest, gateway, desired, events>>
root == <<snapshot, installed, job>>
serviceVars == <<saved, request, installer, wish, applies>>
bvars == <<table, journal, root, runner, sweepVars, serviceVars, others, crashes, late>>

Default == [enabled |-> FALSE, gateway |-> Nothing, targets |-> {}]
Journaled == {n \in Nets : owner[n] # Nothing}

BypassInit ==
  /\ table \in [Nets -> {Nothing, Foreign}]
  /\ owner = [n \in Nets |-> Nothing] /\ pending = {} /\ cache = {}
  /\ snapshot = Default /\ installed = FALSE /\ job = FALSE
  /\ runner = "none" /\ sweep = "sleep" /\ seen = table /\ unswept = {} /\ dest \in Nets
  /\ gateway = Nothing /\ desired = {} /\ events = {}
  /\ saved = Default /\ request = "none" /\ installer = "idle" /\ wish = Default
  /\ others = 0 /\ crashes = 0 /\ applies = 0 /\ late = {}

\* Steps of the sweep leave everything else as it is.
InSweep ==
  runner # "none" /\ late' = {} /\ UNCHANGED <<root, runner, serviceVars, others, crashes>>
Keep == UNCHANGED <<gateway, desired>>
Journals(n, g, phase) ==
  /\ owner' = [owner EXCEPT ![n] = g]
  /\ pending' = IF phase = "pending" THEN pending \cup {n} ELSE pending \ {n}
  /\ cache' = cache
NextNet(n, event) ==
  /\ sweep' = "look" /\ unswept' = unswept \ {n} /\ events' = events \cup event /\ dest' = n

\* discover: a destination with a route of its own that is not in the journal is left alone.
Discoverable == {n \in AppNets : table[n] = Nothing \/ owner[n] # Nothing}
\* Without a usable gateway a sweep only removes.  Too many routes: no change at all.
Room(wanted) == Cardinality(wanted \cup Journaled) <= MaxRoutes
Desired(found, known) == IF snapshot.enabled THEN snapshot.targets \cup found \cup known ELSE {}
BeginSweep ==
  /\ InSweep /\ sweep = "sleep"
  /\ \E usable \in BOOLEAN, found \in SUBSET Discoverable, known \in SUBSET cache :
       /\ ~snapshot.enabled => found = {} /\ ~usable
       /\ Room(Desired(found, known)) /\ cache' = found \cup known /\ desired' = Desired(found, known)
       /\ gateway' = (IF usable THEN snapshot.gateway ELSE Nothing)
       /\ unswept' = desired' \cup Journaled
  /\ seen' = table /\ sweep' = "look" /\ events' = {} /\ UNCHANGED <<table, owner, pending, dest>>
First(S) == {n \in S : \A m \in S : n <= m}
\* reconcile, for one destination.  An entry that is still pending cannot be proven: with a
\* route it is left to the user, without one it is dropped.
Unproven(n) ==
  /\ n \in pending /\ seen[n] # Nothing /\ NextNet(n, {"conflict"})
  /\ UNCHANGED <<journal, seen>>
\* A route that others replaced is given up, and never deleted.
Replaced(n) ==
  /\ owner[n] # Nothing /\ (n \in pending => seen[n] = Nothing)
  /\ (n \notin pending => seen[n] # owner[n])
  /\ Journals(n, Nothing, "owned") /\ sweep' = "want" /\ dest' = n /\ UNCHANGED <<seen, unswept, events>>
\* Our own route that is not wanted, or not wanted this way, is looked at again and deleted.
Unwanted(n) == n \notin desired \/ (gateway # Nothing /\ gateway # owner[n])
Proven(n) == owner[n] # Nothing /\ n \notin pending /\ seen[n] = owner[n]
RetireUnread(n) ==
  Proven(n) /\ Unwanted(n) /\ dest' = n /\ sweep' = "delete" /\ UNCHANGED <<journal, seen, unswept, events>>
Retire(n) ==
  /\ Proven(n) /\ Unwanted(n) /\ dest' = n
  /\ IF table[n] = owner[n]
       THEN sweep' = "delete" /\ UNCHANGED <<journal, seen, unswept, events>>
       ELSE sweep' = "want" /\ Journals(n, Nothing, "owned") /\ UNCHANGED <<seen, unswept, events>>
Settled(n) == Proven(n) /\ ~Unwanted(n) /\ NextNet(n, {}) /\ UNCHANGED <<journal, seen>>
Missing(n) ==
  /\ owner[n] = Nothing /\ sweep' = "want" /\ dest' = n /\ UNCHANGED <<journal, seen, unswept, events>>
Looks ==
  /\ InSweep /\ sweep = "look" /\ Keep /\ UNCHANGED table
  /\ \E n \in First(unswept) : Unproven(n) \/ Replaced(n) \/ Retire(n) \/ Settled(n) \/ Missing(n)
\* /sbin/route does it or fails; the table tells.  It is not relied on to compare the gateway.
RouteDelete(n) == table[n] # Nothing /\ table' = [table EXCEPT ![n] = Nothing]
Delete ==
  /\ InSweep /\ sweep = "delete" /\ sweep' = "deleted" /\ (RouteDelete(dest) \/ UNCHANGED table)
  /\ Keep /\ UNCHANGED <<journal, seen, unswept, dest, events>>
DeletedUnread == Journals(dest, Nothing, "owned") /\ sweep' = "want" /\ UNCHANGED <<unswept, dest, events>>
Deleted ==
  IF table[dest] = owner[dest]
    THEN NextNet(dest, {"failed"}) /\ UNCHANGED journal
    ELSE Journals(dest, Nothing, "owned") /\ sweep' = "want" /\ UNCHANGED <<unswept, dest, events>>
CheckDeleted ==
  /\ InSweep /\ sweep = "deleted" /\ seen' = table /\ Deleted /\ Keep /\ UNCHANGED table
\* A wanted route is journaled as pending BEFORE it is added ...
Wanted ==
  /\ seen' = table
  /\ IF table[dest] # Nothing THEN NextNet(dest, {"conflict"}) /\ UNCHANGED journal
       ELSE sweep' = "add" /\ Journals(dest, gateway, "pending") /\ UNCHANGED <<unswept, dest, events>>
Want ==
  /\ InSweep /\ sweep = "want" /\ Keep /\ UNCHANGED table
  /\ IF dest \in desired /\ gateway # Nothing THEN Wanted
       ELSE NextNet(dest, {}) /\ UNCHANGED <<journal, seen>>
RouteAdd(n) == table[n] = Nothing /\ table' = [table EXCEPT ![n] = gateway]
Add ==
  /\ InSweep /\ sweep = "add" /\ sweep' = "added" /\ (RouteAdd(dest) \/ UNCHANGED table)
  /\ Keep /\ UNCHANGED <<journal, seen, unswept, dest, events>>
\* ... and confirmed, or left pending, by what the table says then.
CheckAdded ==
  /\ InSweep /\ sweep = "added" /\ seen' = table /\ Keep /\ UNCHANGED table
  /\ IF table[dest] = gateway THEN Journals(dest, gateway, "owned") /\ NextNet(dest, {})
                             ELSE NextNet(dest, {"failed"}) /\ UNCHANGED journal
\* The status is published; the daemon sleeps with its lock, a repair by the installer ends.
AfterSweep ==
  IF runner = "once" THEN runner' = "none" /\ installer' = "boot" ELSE UNCHANGED <<runner, installer>>
EndSweep ==
  /\ runner # "none" /\ sweep = "look" /\ unswept = {} /\ sweep' = "sleep" /\ AfterSweep /\ late' = {}
  /\ UNCHANGED <<table, journal, root, seen, unswept, dest, gateway, desired, events, saved, request,
                 wish, applies, others, crashes>>
\* A read of the table or a save fails the sweep, or there are too many routes: what was saved
\* stays, and the next sweep tries again.
SweepFails ==
  /\ runner # "none" /\ sweep' = "sleep" /\ unswept' = {} /\ events' = {"error"} /\ AfterSweep /\ late' = {}
  /\ UNCHANGED <<table, journal, root, seen, dest, gateway, desired, saved, request, wish, applies,
                 others>>
FailSweep == SweepFails /\ crashes < MaxCrashes /\ crashes' = crashes + 1
TooMany ==
  /\ sweep = "sleep" /\ \E found \in SUBSET Discoverable, known \in SUBSET cache : ~Room(Desired(found, known))
  /\ SweepFails /\ UNCHANGED crashes
DaemonKilled == runner' = "none" /\ sweep' = "sleep" /\ unswept' = {} /\ events' = {"error"}
Crash ==
  /\ runner # "none" /\ crashes < MaxCrashes /\ crashes' = crashes + 1 /\ DaemonKilled
  /\ installer' = (IF runner = "once" THEN "idle" ELSE installer)
  /\ request' = (IF runner = "once" THEN "none" ELSE request)
  /\ UNCHANGED <<table, journal, root, seen, dest, gateway, desired, saved, wish, applies, others,
                 late>>
\* launchd keeps the job alive.
LoopStarts ==
  /\ job /\ runner = "none" /\ runner' = "loop"
  /\ UNCHANGED <<table, journal, root, sweepVars, serviceVars, others, crashes, late>>

\* VpnBypassService: one request at a time, held until the administrator's work has ended.
Idle == request = "none" /\ applies < MaxApplies /\ applies' = applies + 1
Rest == UNCHANGED <<table, journal, root, runner, sweepVars, installer, others, crashes, late>>
Ask(config, action) ==
  request' = action /\ wish' = [config EXCEPT !.enabled = (action = "activate")]
Update(config) ==
  /\ Idle /\ Rest /\ saved' = config
  /\ IF installed THEN Ask(config, IF config.enabled THEN "activate" ELSE "deactivate")
                  ELSE UNCHANGED <<request, wish>>
Activate == Idle /\ Rest /\ saved.enabled /\ Ask(saved, "activate") /\ UNCHANGED saved
Deactivate == Idle /\ Rest /\ installed /\ Ask(saved, "deactivate") /\ UNCHANGED saved
\* The authorization is refused, or the installer fails at a step.
Refused ==
  /\ request # "none" /\ runner # "once" /\ request' = "none" /\ installer' = "idle"
  /\ UNCHANGED <<table, journal, root, runner, sweepVars, saved, wish, applies, others, crashes,
                 late>>
\* The installer stops the job, and with it the daemon ...
StopJob ==
  /\ request # "none" /\ installer = "idle" /\ installer' = "write" /\ job' = FALSE
  /\ IF runner = "loop" THEN DaemonKilled ELSE UNCHANGED <<runner, sweep, unswept, events>>
  /\ UNCHANGED <<table, journal, snapshot, installed, seen, dest, gateway, desired, saved, request,
                 wish, applies, others, crashes, late>>
\* ... replaces the snapshot under the lock, keeping the journal ...
KeepJournal == UNCHANGED journal
WriteSnapshot ==
  /\ installer = "write" /\ runner = "none" /\ installer' = "once" /\ snapshot' = wish
  /\ installed' = TRUE /\ KeepJournal
  /\ UNCHANGED <<table, job, runner, sweepVars, saved, request, wish, applies, others, crashes, late>>
\* ... repairs once, and has the job loaded again when the bypass is on.
Repair ==
  /\ installer = "once" /\ runner = "none" /\ runner' = "once"
  /\ UNCHANGED <<table, journal, root, sweepVars, serviceVars, others, crashes, late>>
Boot == snapshot.enabled
Bootstrap ==
  /\ installer = "boot" /\ job' = Boot /\ installer' = "idle" /\ request' = "none"
  /\ UNCHANGED <<table, journal, snapshot, installed, runner, sweepVars, saved, wish, applies,
                 others, crashes, late>>

\* Anything else that changes the table: our route is removed, or one through another
\* gateway comes or goes.
Others(n, row) ==
  /\ others < MaxOthers /\ others' = others + 1 /\ row \in {Nothing, Foreign} /\ row # table[n]
  /\ table' = [table EXCEPT ![n] = row] /\ late' = late \cup {n}
  /\ UNCHANGED <<journal, root, runner, sweepVars, serviceVars, crashes>>

\* Nothing is asked any more and nothing runs.
NothingAsked == request = "none" /\ applies = MaxApplies /\ ~job /\ runner = "none" /\ UNCHANGED bvars

Daemon ==
  \/ BeginSweep \/ Looks \/ Delete \/ CheckDeleted \/ Want \/ Add \/ CheckAdded \/ EndSweep
  \/ TooMany \/ LoopStarts
Installer == StopJob \/ WriteSnapshot \/ Repair \/ Bootstrap
BypassNext ==
  \/ Daemon \/ FailSweep \/ Crash \/ Installer \/ Refused \/ Activate \/ Deactivate \/ NothingAsked
  \/ \E config \in Configs : Update(config)
  \/ \E n \in Nets, row \in {Nothing, Foreign} : Others(n, row)
BypassSpec == BypassInit /\ [][BypassNext]_bvars

-----------------------------------------------------------------------------
Steps == {"sleep", "look", "delete", "deleted", "want", "add", "added"}
Rows == Gateways \cup {Nothing, Foreign}
Snapshots == [enabled : BOOLEAN, gateway : Gateways \cup {Nothing}, targets : SUBSET Nets]
BypassTypeOK ==
  /\ table \in [Nets -> Rows] /\ seen \in [Nets -> Rows]
  /\ owner \in [Nets -> Gateways \cup {Nothing}] /\ pending \subseteq Journaled
  /\ cache \subseteq Nets /\ snapshot \in Snapshots /\ saved \in Snapshots /\ wish \in Snapshots
  /\ installed \in BOOLEAN /\ job \in BOOLEAN
  /\ runner \in {"none", "loop", "once"} /\ sweep \in Steps
  /\ unswept \subseteq Nets /\ dest \in Nets /\ gateway \in Gateways \cup {Nothing}
  /\ desired \subseteq Nets /\ events \subseteq {"conflict", "failed", "error"}
  /\ request \in {"none", "activate", "deactivate"}
  /\ installer \in {"idle", "write", "once", "boot"}
  /\ late \subseteq Nets /\ others \in 0..MaxOthers /\ crashes \in 0..MaxCrashes /\ applies \in 0..MaxApplies

(* Whatever is killed, and wherever: every route the daemon added is in its journal, with its
   gateway, so that a later sweep can remove it or tell the user about it. *)
EveryRouteIsJournaled == \A n \in Nets : table[n] \in Gateways => owner[n] = table[n]
(* What others put in the table is not removed or replaced by the daemon, however long its sweep
   takes: only a route that came between its last look and the command itself may be lost. *)
OthersUntouched ==
  \A n \in Nets :
     table[n] = Foreign /\ table'[n] # Foreign => others' = others + 1 \/ n \in late
(* The journal never grows past what the next sweep accepts to read (validate_state). *)
JournalFits == Cardinality(Journaled) <= MaxRoutes /\ Cardinality(cache) <= MaxRoutes
(* The daemon is kept alive only while its snapshot is on. *)
JobIsEnabled == job => snapshot.enabled /\ installed
(* An undo that reports nothing has left no route of ours. *)
UndoneIsClean ==
  installer = "boot" /\ ~snapshot.enabled /\ events = {} => \A n \in Nets : table[n] \notin Gateways
(* Once nobody disturbs it any more, the daemon brings every destination of its snapshot to its
   gateway, but for those that others carry or whose entry cannot be proven. *)
Repaired ==
  job => \A n \in snapshot.targets :
           table[n] \in {snapshot.gateway, Foreign} \/ n \in pending \/ ~Room(snapshot.targets)

\* Every route of the daemon is in its journal, its job runs a configuration
\* that is enabled, and what was undone is gone.
BypassSafe ==
  BypassTypeOK /\ EveryRouteIsJournaled /\ JobIsEnabled /\ UndoneIsClean /\ JournalFits
=============================================================================

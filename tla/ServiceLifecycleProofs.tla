---------------------- MODULE ServiceLifecycleProofs ----------------------
(***************************************************************************)
(* The local services and tunnels are safe for any number of records,      *)
(* tunnels and processes; the managed MCP server for any number of its     *)
(* processes and of saves; the installation of its runtime for any number  *)
(* of jobs.                                                                *)
(***************************************************************************)
EXTENDS ServiceLifecycle, RuntimeInstall, LarkLifecycle, FiniteSetTheorems, TLAPS

States == {"stopped", "starting", "running", "unhealthy", "stopping", "failed"}
Ops == {"none", "start", "launch", "stop", "delete"}

Types ==
  /\ closing \in {"no", "yes", "over"} /\ registered \subseteq Records
  /\ state \in [Records -> States] /\ op \in [Records -> Ops]
  /\ started \in [Records -> 0..MaxStarts] /\ owner \in [Records -> 0..MaxStarts]
  /\ monitor \in [Records -> 0..MaxStarts] /\ readers \in [Records -> 0..MaxStarts]
  /\ opClose \in [Records -> 0..MaxStarts \cup {Outside}]
  /\ monitorClose \in [Records -> 0..MaxStarts \cup {Outside}]
  /\ alive \in [Records -> SUBSET (1..MaxStarts)] /\ ending \in [Records -> SUBSET (1..MaxStarts)]
  /\ reading \in [Records -> SUBSET (0..MaxStarts)]

(* The numbers of processes are those given so far; a monitor watches the  *)
(* process that the record owns.                                           *)
Numbered(r) ==
  /\ owner[r] <= started[r] /\ monitor[r] \in {0, owner[r]}
  /\ opClose[r] <= started[r] /\ monitorClose[r] <= started[r]
  /\ \A n \in alive[r] \cup ending[r] : n <= started[r]

(* Who is inside close() has taken the process and told it to end: an      *)
(* operation leaves none to the record, and the monitor has taken one that *)
(* had ended.  Every other process that runs is the record's, or is one    *)
(* that the shutdown gave up after it was told.                            *)
Closing(r) ==
  /\ opClose[r] # Outside => owner[r] = 0 /\ op[r] # "none"
  /\ opClose[r] > 0 => opClose[r] \in ending[r]
  /\ monitorClose[r] \notin alive[r]
  /\ monitorClose[r] # Outside /\ ~ SlowClose => owner[r] = 0
  /\ \A n \in alive[r] :
       n \in {owner[r], opClose[r], monitorClose[r]} \/ (closing # "no" /\ n \in ending[r])

(* A record outside the registry has nothing left to end.  The shutdown    *)
(* cuts off every operation but a launch, and leaves only processes that   *)
(* were told to end.                                                       *)
Absent(r) == owner[r] = 0 /\ alive[r] = {} /\ op[r] = "none" /\ opClose[r] = Outside
Left(r) ==
  /\ r \notin registered => Absent(r)
  /\ op[r] \in {"start", "stop", "delete"} => closing = "no"
  /\ closing = "over" => owner[r] = 0 /\ op[r] = "none" /\ alive[r] \subseteq ending[r]

(* A process without a monitor does not serve yet, and one is read as long *)
(* as the record owns it.                                                  *)
Served(r) ==
  /\ op[r] = "launch" => monitor[r] = 0 /\ state[r] = "starting"
  /\ op[r] = "start" /\ opClose[r] # Outside => state[r] \notin Serving
  /\ state[r] \in Serving /\ op[r] \in {"none", "start"} /\ closing = "no" => Watches(r)
  /\ ~ SlowClose /\ owner[r] # 0 => owner[r] \in reading[r]

LifecycleInv ==
  /\ Types /\ TunnelLimit
  /\ \A r \in Records : Numbered(r) /\ Closing(r) /\ Left(r) /\ Served(r)

-----------------------------------------------------------------------------
LEMMA InitHolds ==
  ASSUME LifecycleAssumption, ServicesInit
  PROVE  LifecycleInv
<1>1. Types
  BY DEF LifecycleAssumption, ServicesInit, Types, States, Ops, Outside
<1>2. TunnelLimit
  <2>1. registered \cap Tunnels = {}
    BY DEF ServicesInit
  <2>2. QED
    BY <2>1, FS_EmptySet DEF LifecycleAssumption, TunnelLimit
<1>3. ASSUME NEW r \in Records
      PROVE  Numbered(r) /\ Closing(r) /\ Left(r) /\ Served(r)
  BY <1>3 DEF ServicesInit, Numbered, Closing, Left, Absent, Served, Serving, Outside
<1>4. QED
  BY <1>1, <1>2, <1>3 DEF LifecycleInv

(* What a step that leaves the registry alone, or takes a record from it,  *)
(* has to show: the invariant of the record it is about                    *)
LEMMA OneRecord ==
  ASSUME LifecycleAssumption, LifecycleInv, Types', NEW r \in Records,
         registered' \subseteq registered, closing' = closing, registered \ {r} \subseteq registered',
         \A q \in Records \ {r} :
           /\ state'[q] = state[q] /\ op'[q] = op[q] /\ started'[q] = started[q] /\ owner'[q] = owner[q]
           /\ monitor'[q] = monitor[q] /\ opClose'[q] = opClose[q]
           /\ monitorClose'[q] = monitorClose[q] /\ alive'[q] = alive[q] /\ reading'[q] = reading[q]
           /\ ending'[q] = ending[q],
         Numbered(r)', Closing(r)', Left(r)', Served(r)'
  PROVE  LifecycleInv'
<1>1. TunnelLimit'
  <2>1. /\ registered' \cap Tunnels \subseteq registered \cap Tunnels
        /\ registered \cap Tunnels \subseteq Tunnels
    OBVIOUS
  <2>2. IsFiniteSet(registered \cap Tunnels)
    BY <2>1, FS_Subset DEF LifecycleAssumption
  <2>3. /\ Cardinality(registered' \cap Tunnels) <= Cardinality(registered \cap Tunnels)
        /\ IsFiniteSet(registered' \cap Tunnels)
    BY <2>1, <2>2, FS_Subset
  <2>4. Cardinality(registered' \cap Tunnels) \in Nat /\ Cardinality(registered \cap Tunnels) \in Nat
    BY <2>2, <2>3, FS_CardinalityType
  <2>5. QED
    BY <2>3, <2>4 DEF LifecycleInv, TunnelLimit, LifecycleAssumption
<1>2. ASSUME NEW q \in Records, q # r
      PROVE  (Numbered(q) /\ Closing(q) /\ Left(q) /\ Served(q))'
  <2>1. Numbered(q) /\ Closing(q) /\ Left(q) /\ Served(q)
    BY DEF LifecycleInv
  <2>2. QED
    BY <1>2, <2>1 DEF Numbered, Closing, Left, Absent, Served, Watches
<1>3. QED
  BY <1>1, <1>2 DEF LifecycleInv

-----------------------------------------------------------------------------
(* The operations                                                          *)
LEMMA ClaimKeeps ==
  ASSUME LifecycleAssumption, LifecycleInv, NEW r \in Records,
         Claim(r, "start") \/ Claim(r, "stop") \/ Claim(r, "delete") \/ Refuse(r)
  PROVE  LifecycleInv'
<1>1. Types /\ Numbered(r) /\ Closing(r) /\ Left(r) /\ Served(r)
  BY DEF LifecycleInv
<1>2. Types'
  BY <1>1 DEF Types, Claim, Refuse, Set, States, Ops, closers
<1>3. Numbered(r)' /\ Closing(r)' /\ Left(r)' /\ Served(r)'
  BY <1>1 DEF Types, Claim, Claimable, Refuse, Set, closers, Numbered, Closing, Left, Absent, Served, Serving,
     Watches
<1>4. QED
  BY <1>1, <1>2, <1>3, OneRecord DEF Types, Claim, Refuse, Set, closers

LEMMA OpCloseKeeps ==
  ASSUME LifecycleAssumption, LifecycleInv, NEW r \in Records, OpClose(r) \/ LaunchFails(r)
  PROVE  LifecycleInv'
<1>1. Types /\ Numbered(r) /\ Closing(r) /\ Left(r) /\ Served(r)
  BY DEF LifecycleInv
<1>2. Types'
  <2>1. /\ opClose' \in [Records -> 0..MaxStarts \cup {Outside}] /\ owner' \in [Records -> 0..MaxStarts]
        /\ monitor' \in [Records -> 0..MaxStarts]
    BY <1>1 DEF Types, OpClose, LaunchFails, Enter, Set, LifecycleAssumption
  <2>2. ending' \in [Records -> SUBSET (1..MaxStarts)]
    BY <1>1 DEF Types, OpClose, LaunchFails, Enter, Told, Set, LifecycleAssumption
  <2>3. QED
    BY <1>1, <2>1, <2>2 DEF Types, OpClose, LaunchFails, Enter
<1>3. Numbered(r)' /\ Closing(r)' /\ Left(r)' /\ Served(r)'
  BY <1>1 DEF Types, OpClose, LaunchFails, Enter, Told, Closes, Launching, Set, Numbered, Closing, Left, Absent,
     Served,
              Serving, Watches, Outside, LifecycleAssumption
<1>4. QED
  BY <1>1, <1>2, <1>3, OneRecord DEF Types, OpClose, LaunchFails, Enter, Told, Set

LEMMA OpClosedKeeps ==
  ASSUME LifecycleAssumption, LifecycleInv, NEW r \in Records, OpClosed(r)
  PROVE  LifecycleInv'
<1>1. Types /\ Numbered(r) /\ Closing(r) /\ Left(r) /\ Served(r)
  BY DEF LifecycleInv
<1>2. Types'
  BY <1>1 DEF Types, OpClosed, Leave, Set, After, Ended, States, Ops, LifecycleAssumption
<1>3. /\ opClose[r] # Outside /\ opClose'[r] = Outside /\ op'[r] = After(r)
      /\ alive'[r] = alive[r] \ {opClose[r]}
      /\ reading'[r] = reading[r] \ {readers[r]} /\ (op[r] = "start" => state'[r] = "starting")
      /\ UNCHANGED <<owner, monitorClose, monitor, started, ending, closing>>
      /\ r \notin registered' => r \notin registered \/ op[r] = "delete"
      /\ (op[r] # "start" => state'[r] \notin Serving)
  BY <1>1 DEF Types, OpClosed, Leave, Set, Ended, Serving
<1>4. Numbered(r)' /\ Closing(r)'
  BY <1>1, <1>3 DEF Types, Numbered, Closing, After, Outside
<1>5. Left(r)'
  BY <1>1, <1>3 DEF Types, Closing, Left, Absent, After, Outside
<1>6. Served(r)'
  BY <1>1, <1>3 DEF Types, Numbered, Closing, Served, After, Serving, Watches, Outside
<1>7. QED
  BY <1>1, <1>2, <1>4, <1>5, <1>6, OneRecord DEF Types, OpClosed, Leave, Set

LEMMA CreateKeeps ==
  ASSUME LifecycleAssumption, LifecycleInv, NEW r \in Records, CreateTunnel(r)
  PROVE  LifecycleInv'
<1> USE DEF CreateTunnel, Set, closers
<1>1. Types /\ TunnelLimit
  BY DEF LifecycleInv
<1>2. Types'
  BY <1>1 DEF Types, States, Ops
<1>3. TunnelLimit'
  <2>1. registered' \cap Tunnels = (registered \cap Tunnels) \cup {r} /\ r \notin registered \cap Tunnels
    OBVIOUS
  <2>2. IsFiniteSet(registered \cap Tunnels)
    BY FS_Subset DEF LifecycleAssumption
  <2>3. Cardinality(registered' \cap Tunnels) = Cardinality(registered \cap Tunnels) + 1
    BY <2>1, <2>2, FS_AddElement
  <2>4. Cardinality(registered \cap Tunnels) \in Nat
    BY <2>2, FS_CardinalityType
  <2>5. QED
    BY <2>3, <2>4 DEF Room, TunnelLimit, LifecycleAssumption
<1>4. ASSUME NEW q \in Records
      PROVE  (Numbered(q) /\ Closing(q) /\ Left(q) /\ Served(q))'
  <2>1. Numbered(q) /\ Closing(q) /\ Left(q) /\ Served(q)
    BY DEF LifecycleInv
  <2>2. QED
    BY <1>1, <2>1 DEF Types, Numbered, Closing, Left, Absent, Served, Serving, Watches, Outside
<1>5. QED
  BY <1>2, <1>3, <1>4 DEF LifecycleInv

-----------------------------------------------------------------------------
(* The processes and their monitors                                        *)
LEMMA SpawnKeeps ==
  ASSUME LifecycleAssumption, LifecycleInv, NEW r \in Records, Spawn(r)
  PROVE  LifecycleInv'
<1>1. Types /\ Numbered(r) /\ Closing(r) /\ Left(r) /\ Served(r)
  BY DEF LifecycleInv
<1>2. started[r] + 1 \in 1..MaxStarts
  BY <1>1 DEF Types, Spawn, LifecycleAssumption
<1>3. Types'
  BY <1>1, <1>2 DEF Types, Spawn, Set, closers
<1>4. Numbered(r)' /\ Closing(r)' /\ Left(r)' /\ Served(r)'
  BY <1>1, <1>2 DEF Types, Spawn, Launching, Set, closers, Numbered, Closing, Left, Absent, Served, Serving,
     Watches,
                    Outside, LifecycleAssumption
<1>5. QED
  BY <1>1, <1>3, <1>4, OneRecord DEF Types, Spawn, Set, closers

LEMMA LaunchedKeeps ==
  ASSUME LifecycleAssumption, LifecycleInv, NEW r \in Records, Launched(r)
  PROVE  LifecycleInv'
<1>1. Types /\ Numbered(r) /\ Closing(r) /\ Left(r) /\ Served(r)
  BY DEF LifecycleInv
<1>2. Types'
  BY <1>1 DEF Types, Launched, Watched, Set, closers, States, Ops
<1>3. Numbered(r)' /\ Closing(r)' /\ Left(r)' /\ Served(r)'
  BY <1>1 DEF Types, Launched, Launching, Ready, Watched, Set, closers, Numbered, Closing, Left, Absent, Served,
              Serving, Watches, Outside, LifecycleAssumption
<1>4. QED
  BY <1>1, <1>2, <1>3, OneRecord DEF Types, Launched, Set, closers

LEMMA CheckKeeps ==
  ASSUME LifecycleAssumption, LifecycleInv, NEW r \in Records, NEW ok \in BOOLEAN, Check(r, ok)
  PROVE  LifecycleInv'
<1>1. Types /\ Numbered(r) /\ Closing(r) /\ Left(r) /\ Served(r)
  BY DEF LifecycleInv
<1>2. PICK to \in Serving : state' = Set(state, r, to)
  BY DEF Check, Serving
<1>3. Types'
  BY <1>1, <1>2 DEF Types, Check, Set, closers, States, Serving
<1>4. Numbered(r)' /\ Closing(r)' /\ Left(r)' /\ Served(r)'
  BY <1>1, <1>2 DEF Types, Check, Set, closers, Numbered, Closing, Left, Absent, Served, Serving, Watches
<1>5. QED
  BY <1>1, <1>2, <1>3, <1>4, OneRecord DEF Types, Check, Set, closers

LEMMA SeesExitKeeps ==
  ASSUME LifecycleAssumption, LifecycleInv, NEW r \in Records, SeesExit(r)
  PROVE  LifecycleInv'
<1>1. Types /\ Numbered(r) /\ Closing(r) /\ Left(r) /\ Served(r)
  BY DEF LifecycleInv
<1>2. Types'
  BY <1>1 DEF Types, SeesExit, Enter, Told, Set, States, LifecycleAssumption
<1>3. Numbered(r)' /\ Closing(r)' /\ Left(r)' /\ Served(r)'
  BY <1>1 DEF Types, SeesExit, Enter, Told, Set, Numbered, Closing, Left, Absent, Served, Serving, Watches,
              Outside, LifecycleAssumption
<1>4. QED
  BY <1>1, <1>2, <1>3, OneRecord DEF Types, SeesExit, Enter, Told, Set

LEMMA MonitorClosedKeeps ==
  ASSUME LifecycleAssumption, LifecycleInv, NEW r \in Records, MonitorClosed(r) \/ Exits(r)
  PROVE  LifecycleInv'
<1>1. Types /\ Numbered(r) /\ Closing(r) /\ Left(r) /\ Served(r)
  BY DEF LifecycleInv
<1>2. Types'
  BY <1>1, SMTT(30) DEF Types, MonitorClosed, Exits, GroupEnds, Leave, Set, closers, Ended, LifecycleAssumption
<1>3. Numbered(r)' /\ Closing(r)' /\ Left(r)' /\ Served(r)'
  BY <1>1 DEF Types, MonitorClosed, Exits, GroupEnds, Leave, Set, closers, Ended, Numbered, Closing, Left,
              Absent, Served, Serving, Watches, Outside, LifecycleAssumption
<1>4. QED
  BY <1>1, <1>2, <1>3, OneRecord DEF Types, MonitorClosed, Exits, GroupEnds, Leave, Set, closers

-----------------------------------------------------------------------------
(* The shutdown                                                            *)
LEMMA BeginningKeeps ==
  ASSUME LifecycleAssumption, LifecycleInv, ShutdownBegins
  PROVE  LifecycleInv'
<1>1. Types /\ TunnelLimit
  BY DEF LifecycleInv
<1>2. Types'
  <2>1. /\ op' \in [Records -> Ops] /\ opClose' \in [Records -> 0..MaxStarts \cup {Outside}]
        /\ closing' = "yes"
    BY <1>1 DEF Types, ShutdownBegins, Ops
  <2>2. readers' \in [Records -> 0..MaxStarts] /\ reading' \in [Records -> SUBSET (0..MaxStarts)]
    BY <1>1 DEF Types, ShutdownBegins, LifecycleAssumption
  <2>3. ending' \in [Records -> SUBSET (1..MaxStarts)]
    BY <1>1 DEF Types, ShutdownBegins, Told, LifecycleAssumption
  <2>4. QED
    BY <1>1, <2>1, <2>2, <2>3 DEF Types, ShutdownBegins
<1>3. TunnelLimit'
  BY <1>1 DEF TunnelLimit, ShutdownBegins
<1>4. ASSUME NEW q \in Records
      PROVE  (Numbered(q) /\ Closing(q) /\ Left(q) /\ Served(q))'
  <2>1. Numbered(q) /\ Closing(q) /\ Left(q) /\ Served(q)
    BY DEF LifecycleInv
  <2>2. /\ op'[q] = (IF Launching(q) THEN "launch" ELSE "none") /\ opClose'[q] = Outside
        /\ ending'[q] = ending[q] \cup ({owner[q]} \ {0}) /\ closing = "no" /\ closing' = "yes"
        /\ Cut(q) \/ reading'[q] = reading[q]
        /\ UNCHANGED <<registered, state[q], owner[q], monitorClose[q], monitor[q], started[q], alive[q]>>
    BY <1>1 DEF Types, ShutdownBegins, Told
  <2>3. Numbered(q)'
    BY <1>1, <2>1, <2>2 DEF Types, Numbered, Outside
  <2>4. Closing(q)'
    BY <1>1, <2>1, <2>2 DEF Types, Numbered, Closing, Launching, Outside
  <2>5. Left(q)'
    BY <2>1, <2>2 DEF Left, Absent, Launching
  <2>6. Served(q)'
    BY <2>1, <2>2 DEF Served, Closing, Launching, Cut, Outside
  <2>7. QED
    BY <2>3, <2>4, <2>5, <2>6
<1>5. QED
  BY <1>2, <1>3, <1>4 DEF LifecycleInv

LEMMA EndKeeps ==
  ASSUME LifecycleAssumption, LifecycleInv, ShutdownEnds
  PROVE  LifecycleInv'
<1>1. Types /\ TunnelLimit
  BY DEF LifecycleInv
<1>2. Types'
  <2>1. alive' \in [Records -> SUBSET (1..MaxStarts)] /\ reading' \in [Records -> SUBSET (0..MaxStarts)]
    BY <1>1 DEF Types, ShutdownEnds
  <2>2. /\ owner' \in [Records -> 0..MaxStarts] /\ monitor' \in [Records -> 0..MaxStarts]
        /\ readers' \in [Records -> 0..MaxStarts]
    BY <1>1 DEF Types, ShutdownEnds, LifecycleAssumption
  <2>3. state' \in [Records -> States] /\ closing' = "over"
    BY <1>1 DEF Types, ShutdownEnds, States
  <2>4. QED
    BY <1>1, <2>1, <2>2, <2>3 DEF Types, ShutdownEnds, closers
<1>3. TunnelLimit'
  BY <1>1 DEF TunnelLimit, ShutdownEnds
<1>4. ASSUME NEW q \in Records
      PROVE  (Numbered(q) /\ Closing(q) /\ Left(q) /\ Served(q))'
  <2>1. Numbered(q) /\ Closing(q) /\ Left(q) /\ Served(q)
    BY DEF LifecycleInv
  <2>2. op[q] = "none" /\ opClose[q] = Outside /\ Outside \notin alive[q] /\ closing = "yes"
    BY <1>1, <2>1 DEF Types, ShutdownEnds, Closing, Outside
  <2>3. /\ q \notin registered => owner[q] = 0 /\ alive[q] = {}
        /\ \A n \in alive[q] : n = owner[q] \/ n \in ending[q]
    BY <2>1, <2>2 DEF Closing, Left, Absent
  <2>4. /\ owner'[q] = 0 /\ monitor'[q] = 0 /\ closing' = "over" /\ op' = op /\ opClose' = opClose
        /\ alive'[q] \subseteq alive[q] \ {owner[q]} /\ registered' = registered
        /\ UNCHANGED <<monitorClose, started, ending>>
    BY <1>1, <2>1, <2>3 DEF Types, ShutdownEnds, Doomed, closers, Numbered
  <2>5. Numbered(q)' /\ Closing(q)'
    BY <1>1, <2>1, <2>2, <2>3, <2>4 DEF Types, Numbered, Closing, Outside
  <2>6. Left(q)' /\ Served(q)'
    BY <2>2, <2>3, <2>4 DEF Left, Absent, Served
  <2>7. QED
    BY <2>5, <2>6
<1>5. QED
  BY <1>2, <1>3, <1>4 DEF LifecycleInv

LEMMA NextKeeps ==
  ASSUME LifecycleAssumption, LifecycleInv, [ServicesNext]_lvars
  PROVE  LifecycleInv'
<1>1. ASSUME NEW r \in Records, Step(r)
      PROVE  LifecycleInv'
  BY <1>1, ClaimKeeps, CreateKeeps, SpawnKeeps, LaunchedKeeps, OpCloseKeeps, OpClosedKeeps, SeesExitKeeps,
     MonitorClosedKeeps, CheckKeeps DEF Step, Own
<1>2. CASE UNCHANGED lvars
  BY <1>2 DEF lvars, closers, LifecycleInv, Types, TunnelLimit, Numbered, Closing, Left, Absent, Served, Watches
<1>3. QED
  BY <1>1, <1>2, BeginningKeeps, EndKeeps DEF ServicesNext, Over

(* A service has one process, which its owner reads and watches while it   *)
(* serves; the shutdown gives up only processes that were told to end, and *)
(* after it no record owns one and every one that still runs was told to   *)
(* end; there are no more tunnels than allowed (services/services.py,      *)
(* ServicesService.close, ServiceRecord.close, _launch, _monitor).         *)
THEOREM ServicesAreSafe ==
  ASSUME LifecycleAssumption
  PROVE  ServicesSpec => []ServicesSafe
<1>1. ServicesInit => LifecycleInv
  BY InitHolds
<1>2. LifecycleInv /\ [ServicesNext]_lvars => LifecycleInv'
  BY NextKeeps
<1>3. ASSUME LifecycleInv
      PROVE  ServicesSafe
  <2>1. Types /\ TunnelLimit /\ \A r \in Records : Numbered(r) /\ Closing(r) /\ Left(r) /\ Served(r)
    BY <1>3 DEF LifecycleInv
  <2>2. LifecycleTypeOK
    BY <2>1 DEF Types, States, Ops, LifecycleTypeOK, Numbered
  <2>3. OneProcess /\ NothingSurvives
    BY <2>1 DEF OneProcess, NothingSurvives, Closing, Left
  <2>4. ~ SlowClose => ServingIsRead
    <3> SUFFICES ASSUME ~ SlowClose, NEW r \in Records, state[r] \in Serving, op[r] = "none", closing = "no"
                 PROVE  Watches(r) /\ owner[r] \in reading[r]
      BY DEF ServingIsRead
    <3>1. Watches(r)
      BY <2>1 DEF Served
    <3>2. QED
      BY <2>1, <3>1 DEF Served, Watches
  <2>5. QED
    BY <2>1, <2>2, <2>3, <2>4 DEF ServicesSafe
<1>4. QED
  BY <1>1, <1>2, <1>3, PTL DEF ServicesSpec

-----------------------------------------------------------------------------
(* The installation of the runtime (RuntimeInstall).                       *)
Places == Awaits \cup {"none", "closing", "closed", "leave", "over"}
Shown == {"none", "running", "completed", "failed", "cancelled"}
Causes == {"none", "timeout", "shutdown", "cancelled"}
Threads == {"none", "verify", "removed", "done", "failed"}
Outcomes == {"none", "runs", "ok", "bad"}
InstallTypes ==
  /\ jobs \in 0..MaxJobs /\ active \in 0..jobs /\ job \in [Jobs -> Shown] /\ step \in [Jobs -> Places]
  /\ why \in [Jobs -> Causes] /\ thread \in [Jobs -> Threads] /\ npm \in [Jobs -> Outcomes]
  /\ told \subseteq Jobs /\ (\A k \in told : npm[k] = "runs")
  /\ node \in {"none", "whole"} /\ named \in BOOLEAN /\ packages \in {"none", "partial", "whole"}

(* What a job at a place has done, and which of its process and its thread *)
(* may still run: a job that was left has none that was not told to end.   *)
JobSound(j) ==
  /\ j > jobs => step[j] = "none"
  /\ step[j] = "none" <=> job[j] = "none"
  /\ step[j] \in Awaits \ {"status"} => job[j] = "running"
  /\ step[j] = "status" => job[j] = "completed"
  /\ step[j] \in {"leave", "over"} => job[j] # "running"
  /\ step[j] = "closing" => job[j] \in {"running", "cancelled"}
  /\ step[j] = "closed" => job[j] \in {"running", "cancelled", "completed"}
  /\ step[j] \in {"closing", "closed"} /\ job[j] = "cancelled" => why[j] = "cancelled"
  /\ step[j] \in {"none", "detect", "fetch"} => thread[j] = "none"
  /\ npm[j] = "runs" => step[j] \in {"ci runs", "rebuild runs", "closing", "closed", "leave", "over"}
  /\ npm[j] = "runs" /\ step[j] \in {"closing", "closed", "leave", "over"} => j \in told
  /\ step[j] \in {"rebuild", "rebuild runs"} => npm[j] # "none"
  /\ ~JobCancels /\ npm[j] = "runs" => job[j] = "running"
  /\ ~JobCancels /\ step[j] = "closed" => npm[j] # "runs"
  /\ job[j] = "completed" => npm[j] # "runs"
(* After its npm ci the packages are whole until another one begins, which *)
(* a cancelled job's can.                                                  *)
Whole == ~JobCancels => \A j \in Jobs :
  (step[j] = "ci runs" /\ npm[j] = "ok") \/ step[j] \in {"rebuild", "rebuild runs"} => packages = "whole"
(* The Node that is named was moved by a thread, and is missing only while *)
(* another replaces it.                                                    *)
Node ==
  /\ named => \E j \in Jobs : thread[j] = "done"
  /\ (\E j \in Jobs : thread[j] = "done") /\ node = "none" => \E j \in Jobs : thread[j] = "removed"
InstallInv == InstallTypes /\ OneRunning /\ (\A j \in Jobs : JobSound(j)) /\ Whole /\ Node

(* The types name by name, and as InstallTypeOK has them.                  *)
LEMMA InstallTypesAre == InstallTypes <=> InstallTypeOK
BY DEF InstallTypes, InstallTypeOK, Places, Shown, Causes, Threads, Outcomes, Installing

(* Every place that a step leads to is one.                                *)
LEMMA PlacesAre ==
  /\ Awaits \subseteq Places /\ {"none", "closing", "closed", "leave", "over"} \subseteq Places
  /\ {"detect", "fetch", "unpack", "stage", "ci", "ci runs", "rebuild", "rebuild runs", "status"} = Awaits
BY DEF Places, Awaits

(* What a job, its thread or its process does.                             *)
ByJob(j) ==
  \/ JobStep(j) \/ CancelJob(j) \/ ThreadFails(j) \/ ThreadRemoves(j) \/ ThreadMoves(j)
  \/ \E ok \in BOOLEAN : NpmEnds(j, ok)
  \/ \E cause \in {"timeout", "shutdown"} : Interrupt(j, cause)
Alike(k) == /\ step'[k] = step[k] /\ job'[k] = job[k] /\ thread'[k] = thread[k] /\ npm'[k] = npm[k]
            /\ why'[k] = why[k] /\ (k \in told' <=> k \in told)

(* A step of a job changes what is kept of that job only.                  *)
Others(j) == \A k \in Jobs : k # j => Alike(k)
Moved(j) == step' \in [Jobs -> Places] /\ told' \subseteq Jobs /\ (\A k \in told' : npm[k] = "runs")
            /\ \A k \in Jobs : k # j => step'[k] = step[k] /\ (k \in told' <=> k \in told)

(* A step of a job moves that job only, and tells no process but its own.  *)
LEMMA Moves ==
  ASSUME InstallTypes, NEW j \in Jobs, NEW p \in Places, Proceed(j, p),
         told' = told \/ (told' = told \cup {j} /\ npm[j] = "runs")
  PROVE  Moved(j)
BY DEF InstallTypes, Proceed, Put, Moved

(* So does an interruption.                                                *)
LEMMA EndingMoves ==
  ASSUME InstallTypes, NEW j \in Jobs, Ending(j)
  PROVE  Moved(j)
BY Moves, PlacesAre DEF Ending

(* Whatever a job, its thread or its process does, the others' are as they *)
(* were.                                                                   *)
LEMMA JobTypes ==
  ASSUME InstallAssumption, InstallInv, NEW j \in Jobs, ByJob(j)
  PROVE  InstallTypes' /\ jobs' = jobs /\ Others(j)
         /\ active' \in {active, 0} /\ (active' # active => step[j] = "leave" /\ active = j)
<1>0. InstallTypes /\ JobSound(j)
  BY DEF InstallInv
<1>a. ASSUME Moved(j), UNCHANGED <<jobs, active, job, why, thread, npm, files>>
      PROVE  InstallTypes' /\ Others(j)
  BY ONLY <1>0, <1>a DEF InstallTypes, Moved, Others, Alike, files
<1>b. ASSUME Moved(j), UNCHANGED <<jobs, active, thread, npm, files>>, job' \in [Jobs -> Shown],
             why' \in [Jobs -> Causes], \A k \in Jobs : k # j => job'[k] = job[k] /\ why'[k] = why[k]
      PROVE  InstallTypes' /\ Others(j)
  BY ONLY <1>0, <1>b DEF InstallTypes, Moved, Others, Alike, files
<1>1. ASSUME NEW d \in BOOLEAN, Detect(j, d) PROVE InstallTypes' /\ UNCHANGED <<jobs, active>> /\ Others(j)
  BY <1>0, <1>1, <1>a, Moves, PlacesAre DEF Detect
<1>2. CASE Fetched(j)
  <2>1. Moved(j)
    BY <1>0, <1>2, Moves, PlacesAre DEF Fetched
  <2>2. thread' \in [Jobs -> Threads] /\ (\A k \in Jobs : k # j => thread'[k] = thread[k])
    BY ONLY <1>0, <1>2 DEF Fetched, Put, InstallTypes, Threads
  <2>3. QED
    BY ONLY <1>0, <1>2, <2>1, <2>2 DEF Fetched, InstallTypes, Others, Alike, Moved, files
<1>3. CASE Record(j)
  <2>1. Moved(j)
    BY <1>0, <1>3, Moves, PlacesAre DEF Record
  <2>2. QED
    BY ONLY <1>0, <1>3, <2>1 DEF Record, InstallTypes, Others, Alike, Moved, files
<1>4. CASE Staged(j)
  BY <1>0, <1>4, <1>a, Moves, PlacesAre DEF Staged
<1>5. CASE NpmStarts(j)
  <2>1. Moved(j)
    BY <1>0, <1>5, Moves, PlacesAre DEF NpmStarts
  <2>2. npm' \in [Jobs -> Outcomes] /\ (\A k \in Jobs : k # j => npm'[k] = npm[k]) /\ npm'[j] = "runs"
        /\ packages' \in {"none", "partial", "whole"}
    BY ONLY <1>0, <1>5 DEF NpmStarts, Put, InstallTypes, Outcomes
  <2>3. QED
    BY ONLY <1>0, <1>5, <2>1, <2>2 DEF NpmStarts, InstallTypes, Others, Alike, Moved
<1>6. CASE CiDone(j) \/ Published(j)
  BY <1>0, <1>6, <1>a, Moves, PlacesAre DEF CiDone, Published
<1>7. ASSUME Completed(j) \/ Fails(j) \/ Interrupted(j)
      PROVE  InstallTypes' /\ UNCHANGED <<jobs, active>> /\ Others(j)
  <2>1. Moved(j)
    BY <1>0, <1>7, Moves, PlacesAre DEF Completed, Fails, Interrupted
  <2>2. Outcome(j) \in Shown
    BY ONLY <1>0 DEF Outcome, Shown, InstallTypes
  <2>3. job' \in [Jobs -> Shown] /\ \A k \in Jobs : k # j => job'[k] = job[k]
    BY ONLY <1>0, <1>7, <2>2 DEF Completed, Fails, Interrupted, Put, InstallTypes, Shown
  <2>4. UNCHANGED <<jobs, active, thread, npm, files, why>>
    BY <1>7 DEF Completed, Fails, Interrupted
  <2>5. QED
    BY <1>0, <2>1, <2>3, <2>4, <1>b DEF InstallTypes
<1>8. CASE Closed(j)
  BY <1>0, <1>8, <1>a, Moves, PlacesAre DEF Closed
<1>9. CASE Leaves(j)
  <2>1. Moved(j)
    BY <1>0, <1>9, Moves, PlacesAre DEF Leaves
  <2>2. active' \in {active, 0} /\ (active' # active => step[j] = "leave" /\ active = j) /\ active' \in 0..jobs
    BY ONLY <1>0, <1>9 DEF Leaves, StillActive, InstallTypes
  <2>3. QED
    BY ONLY <1>0, <1>9, <2>1, <2>2 DEF Leaves, InstallTypes, Others, Alike, Moved, files
<1>10. CASE CancelJob(j)
  <2>1. Moved(j)
    BY <1>0, <1>10, EndingMoves, Moves, PlacesAre DEF CancelJob
  <2>2. /\ job' \in [Jobs -> Shown] /\ why' \in [Jobs -> Causes]
        /\ (\A k \in Jobs : k # j => job'[k] = job[k] /\ why'[k] = why[k])
        /\ UNCHANGED <<jobs, active, thread, npm, files>>
    BY ONLY <1>0, <1>10 DEF CancelJob, Put, InstallTypes, Shown, Causes
  <2>3. QED
    BY <2>1, <2>2, <1>b
<1>11. ASSUME NEW c \in {"timeout", "shutdown"}, Interrupt(j, c)
       PROVE  InstallTypes' /\ UNCHANGED <<jobs, active>> /\ Others(j)
  <2>1. Moved(j)
    BY <1>0, <1>11, EndingMoves DEF Interrupt
  <2>2. /\ why' \in [Jobs -> Causes] /\ (\A k \in Jobs : k # j => why'[k] = why[k])
        /\ UNCHANGED <<jobs, active, job, thread, npm, files>>
    BY ONLY <1>0, <1>11 DEF Interrupt, Put, InstallTypes, Causes
  <2>3. QED
    BY <1>0, <2>1, <2>2, <1>b DEF InstallTypes
<1>12. CASE ThreadFails(j) \/ ThreadRemoves(j) \/ ThreadMoves(j)
  <2>1. thread' \in [Jobs -> Threads] /\ (\A k \in Jobs : k # j => thread'[k] = thread[k])
    BY ONLY <1>0, <1>12 DEF ThreadFails, ThreadRemoves, ThreadMoves, Put, InstallTypes, Threads
  <2>2. QED
    BY ONLY <1>0, <1>12, <2>1 DEF ThreadFails, ThreadRemoves, ThreadMoves, InstallTypes, Others, Alike, files
<1>13. ASSUME NEW ok \in BOOLEAN, NpmEnds(j, ok) PROVE InstallTypes' /\ UNCHANGED <<jobs, active>> /\ Others(j)
  <2>1. npm' \in [Jobs -> Outcomes] /\ (\A k \in Jobs : k # j => npm'[k] = npm[k])
        /\ packages' \in {"none", "partial", "whole"}
    BY ONLY <1>0, <1>13 DEF NpmEnds, Put, InstallTypes, Outcomes
  <2>2. QED
    BY ONLY <1>0, <1>13, <2>1 DEF NpmEnds, InstallTypes, Others, Alike
<1>14. QED
  BY <1>1, <1>2, <1>3, <1>4, <1>5, <1>6, <1>7, <1>8, <1>9, <1>10, <1>11, <1>12, <1>13
  DEF ByJob, JobStep, Fetched, Record, Staged, NpmStarts, CiDone, Published, Closed, CancelJob, ThreadFails,
     ThreadRemoves, ThreadMoves

(* The place of a job says what it has done, after each of its steps.      *)
LEMMA JobStaysSound ==
  ASSUME InstallAssumption, InstallInv, NEW j \in Jobs, ByJob(j)
  PROVE  JobSound(j)'
<1>1. /\ JobSound(j) /\ jobs' = jobs /\ job[j] \in Shown
      /\ step \in [Jobs -> Places]
      /\ job \in [Jobs -> Shown]
      /\ thread \in [Jobs -> Threads] /\ why \in [Jobs -> Causes]
      /\ npm \in [Jobs -> Outcomes] /\ told \subseteq Jobs
  BY JobTypes DEF InstallInv, InstallTypes, Shown
<1>2. ASSUME NEW d \in BOOLEAN, Detect(j, d) PROVE JobSound(j)'
  BY ONLY <1>1, <1>2 DEF Detect, JobSound, Put, Proceed, files, Awaits
<1>3. CASE Fetched(j)
  BY ONLY <1>1, <1>3 DEF Fetched, JobSound, Put, Proceed, files, Awaits
<1>4. CASE Record(j) \/ Staged(j)
  BY ONLY <1>1, <1>4 DEF Record, Staged, JobSound, Put, Proceed, files, Awaits
<1>5. CASE NpmStarts(j)
  BY ONLY <1>1, <1>5 DEF NpmStarts, JobSound, Put, Proceed, files, Awaits
<1>6. CASE CiDone(j)
  BY ONLY <1>1, <1>6 DEF CiDone, CiSucceeded, JobSound, Put, Proceed, files, Awaits
<1>7. CASE Completed(j)
  BY ONLY <1>1, <1>7 DEF Completed, JobSound, Put, Proceed, files, Awaits
<1>p. CASE Published(j)
  BY ONLY <1>1, <1>p DEF Published, JobSound, Put, Proceed, files, Awaits
<1>8. CASE Fails(j)
  BY ONLY <1>1, <1>8 DEF Fails, JobSound, Put, Proceed, files, Awaits
<1>9. CASE Closed(j)
  BY ONLY <1>1, <1>9 DEF Closed, JobSound, Put, Proceed, files, Awaits
<1>10. CASE Interrupted(j)
  <2>1. Outcome(j) \in {"failed", "cancelled"} \/ (Outcome(j) = "completed" /\ job[j] = "completed")
    BY <1>1, <1>10 DEF Outcome, Interrupted, JobSound
  <2>2. /\ job'[j] \in {"failed", "cancelled"} \/ (job'[j] = "completed" /\ job[j] = "completed")
        /\ step'[j] = "leave" /\ step[j] = "closed"
        /\ UNCHANGED <<npm, thread, told, jobs>>
    BY ONLY <1>1, <2>1, <1>10 DEF Interrupted, Put, Proceed
  <2>3. QED
    BY ONLY InstallAssumption, <1>1, <2>2 DEF JobSound, Awaits, InstallAssumption
<1>11. CASE Leaves(j)
  BY ONLY <1>1, <1>11 DEF Leaves, JobSound, Put, Proceed, files, Awaits
<1>12. CASE CancelJob(j)
  BY ONLY InstallAssumption, <1>1, <1>12 DEF CancelJob, Ending, JobSound, Put, Proceed, files, Awaits,
     InstallAssumption
<1>13. CASE ThreadFails(j) \/ ThreadRemoves(j) \/ ThreadMoves(j)
  <2>1. thread[j] # "none" /\ UNCHANGED <<jobs, job, step, npm, told, why>>
    BY ONLY <1>13 DEF ThreadFails, ThreadRemoves, ThreadMoves
  <2>2. QED
    BY ONLY <1>1, <2>1 DEF JobSound
<1>14. ASSUME NEW ok \in BOOLEAN, NpmEnds(j, ok) PROVE JobSound(j)'
  <2>1. /\ npm'[j] \in {"ok", "bad"} /\ npm[j] = "runs"
        /\ UNCHANGED <<jobs, step, job, thread, why>>
    BY ONLY <1>1, <1>14 DEF NpmEnds, Put
  <2>2. QED
    BY ONLY <1>1, <2>1 DEF JobSound
<1>15. ASSUME NEW c \in {"timeout", "shutdown"}, Interrupt(j, c) PROVE JobSound(j)'
  BY ONLY <1>1, <1>15 DEF Interrupt, Ending, JobSound, Put, Proceed, files, Awaits
<1>16. QED
  BY <1>2, <1>3, <1>4, <1>5, <1>6, <1>7, <1>p, <1>8, <1>9, <1>10, <1>11, <1>12, <1>13, <1>14, <1>15
  DEF ByJob, JobStep

(* The invariant, and what a step never does, for the steps of the jobs.   *)
LEMMA JobsKept ==
  ASSUME InstallAssumption, InstallInv, NEW j \in Jobs, ByJob(j)
  PROVE  InstallInv' /\ EndStays /\ (~JobCancels => CompletedIsWhole)
<1>1. InstallTypes' /\ jobs' = jobs /\ (\A k \in Jobs : k # j => Alike(k))
      /\ active' \in {active, 0} /\ (active' # active => step[j] = "leave" /\ active = j)
  BY JobTypes DEF Others
<1>2. \A k \in Jobs : JobSound(k)'
  <2> SUFFICES ASSUME NEW k \in Jobs, k # j PROVE JobSound(k)'
    BY JobStaysSound
  <2>1. JobSound(k) /\ Alike(k)
    BY <1>1 DEF InstallInv
  <2>2. QED
    BY ONLY <1>1, <2>1 DEF JobSound, Alike
<1>3. \/ job'[j] = job[j] \/ (job[j] = "running" /\ job'[j] \in {"completed", "failed", "cancelled"})
      \/ LateTimeout(j) /\ job'[j] = "failed"
  <2>1. JobSound(j) /\ job \in [Jobs -> Shown]
    BY DEF InstallInv, InstallTypes
  <2>2. CASE Interrupted(j)
    BY <2>1, <2>2 DEF Interrupted, Outcome, JobSound, LateTimeout, Put
  <2>3. QED
    BY <2>1, <2>2 DEF ByJob, JobStep, JobSound, Detect, Fetched, Record, Staged, NpmStarts, CiDone, Completed,
       Published, Fails, Closed, Leaves, CancelJob, ThreadFails, ThreadRemoves, ThreadMoves, NpmEnds, Interrupt,
       Put, Awaits
<1>4. EndStays
  BY <1>1, <1>3 DEF EndStays, Alike
<1>5. OneRunning'
  <2>1. ASSUME NEW k \in Jobs, job'[k] = "running" PROVE active' = k
    <3>1. job[k] = "running" /\ active = k
      BY <1>1, <1>3, <2>1 DEF Alike, InstallInv, OneRunning
    <3>2. step[k] # "leave"
      BY <3>1 DEF InstallInv, JobSound
    <3>3. QED
      BY <1>1, <3>1, <3>2
  <2>2. QED
    BY <2>1 DEF OneRunning
<1>6. Node'
  <2>1. /\ thread \in [Jobs -> Threads] /\ thread'[j] \in Threads
        /\ Node /\ node \in {"none", "whole"} /\ JobSound(j)
    BY <1>1 DEF InstallInv, InstallTypes
  <2>2. \/ thread' = thread /\ node' = node /\ (named' = named \/ (named' /\ thread[j] = "done"))
        \/ thread' = [thread EXCEPT ![j] = "verify"] /\ UNCHANGED <<node, named>> /\ thread[j] = "none"
        \/ thread' = [thread EXCEPT ![j] = "failed"] /\ UNCHANGED <<node, named>> /\ thread[j] = "verify"
        \/ thread' = [thread EXCEPT ![j] = "removed"] /\ node' = "none" /\ named' = named
           /\ thread[j] = "verify"
        \/ thread' = [thread EXCEPT ![j] = "done"] /\ node' = "whole" /\ UNCHANGED named
    BY <2>1 DEF ByJob, JobStep, JobSound, Detect, Fetched, Record, Unpacked, Staged, NpmStarts, CiDone,
       Completed, Published, Fails, Closed,
       Interrupted, Leaves, CancelJob, ThreadFails, ThreadRemoves, ThreadMoves, NpmEnds, Interrupt, Put, files
  <2>3. QED
    BY ONLY <2>1, <2>2 DEF Node
<1>7. Whole' /\ (~JobCancels => CompletedIsWhole)
  <2> SUFFICES ASSUME ~JobCancels PROVE Whole' /\ CompletedIsWhole
    BY DEF Whole
  <2>1. \A k \in Jobs : step[k] \in Awaits \ {"status"} \/ npm[k] = "runs" => job[k] = "running" /\ active = k
    BY DEF InstallInv, JobSound, OneRunning
  <2>2. \A k \in Jobs : (step[k] = "ci runs" /\ npm[k] = "ok") \/ step[k] \in {"rebuild", "rebuild runs"}
          => packages = "whole"
    BY DEF InstallInv, Whole
  <2>3. /\ step \in [Jobs -> Places] /\ JobSound(j)
        /\ npm \in [Jobs -> Outcomes] /\ job \in [Jobs -> Shown]
    BY DEF InstallInv, InstallTypes
  <2>4. CompletedIsWhole
    <3>1. job[j] # "completed" /\ job'[j] = "completed" => packages = "whole"
      BY <2>2, <2>3 DEF ByJob, JobStep, JobSound, Detect, Fetched, Record, Staged, NpmStarts, CiDone,
         Completed, Published, Fails, Closed,
       Interrupted, Outcome, Leaves, CancelJob, ThreadFails, ThreadRemoves, ThreadMoves, NpmEnds, Interrupt,
       Put, Awaits
    <3>2. QED
      BY <1>1, <3>1 DEF CompletedIsWhole, Alike
  <2>5. ASSUME NEW k \in Jobs,
               (step'[k] = "ci runs" /\ npm'[k] = "ok") \/ step'[k] \in {"rebuild", "rebuild runs"}
        PROVE  packages' = "whole"
    <3>1. CASE k # j
      <4>1. Alike(k)
        BY <1>1, <3>1
      <4>2. packages = "whole" /\ active = k /\ active # j
        <5>1. packages = "whole" /\ step[k] \in {"ci runs", "rebuild", "rebuild runs"}
          BY <2>2, <2>5, <4>1 DEF Alike
        <5>2. step[k] \in Awaits \ {"status"}
          BY <5>1 DEF Awaits
        <5>3. QED
          BY <2>1, <3>1, <5>1, <5>2
      <4>3. step[j] \notin Awaits \ {"status"} /\ npm[j] # "runs"
        BY <2>1, <4>2
      <4>4. QED
        BY <4>2, <4>3 DEF ByJob, JobStep, Detect, Fetched, Record, Staged, NpmStarts, CiDone, Completed,
           Published, Fails, Closed, Interrupted, Leaves, CancelJob, ThreadFails, ThreadRemoves, ThreadMoves,
           NpmEnds, Interrupt, Awaits, files
    <3>2. CASE k = j
      <4>1. CASE \E ok \in BOOLEAN : NpmEnds(j, ok)
        <5>1. npm[j] = "runs" /\ Installing = {j}
          BY <2>1, <4>1 DEF NpmEnds, Installing
        <5>2. QED
          BY <2>1, <2>2, <2>3, <2>5, <3>2, <4>1, <5>1 DEF NpmEnds, Put
      <4>2. CASE NpmStarts(j)
        BY <2>1, <2>2, <2>3, <2>5, <3>2, <4>2 DEF NpmStarts, Put, Proceed, JobSound, Awaits
      <4>3. CASE CiDone(j)
        BY <2>2, <2>3, <2>5, <3>2, <4>3 DEF CiDone, CiSucceeded, files
      <4>4. CASE Completed(j) \/ Published(j) \/ Fails(j) \/ Closed(j) \/ Interrupted(j) \/ Leaves(j)
        BY <2>3, <2>5, <3>2, <4>4 DEF Completed, Published, Fails, Closed, Interrupted, Leaves, Put, Proceed
      <4>5. CASE (\E d \in BOOLEAN : Detect(j, d)) \/ Fetched(j) \/ Record(j) \/ Staged(j)
        BY <2>3, <2>5, <3>2, <4>5 DEF Detect, Fetched, Record, Staged, Put, Proceed, JobSound, files
      <4>6. CASE CancelJob(j) \/ \E c \in {"timeout", "shutdown"} : Interrupt(j, c)
        BY <2>3, <2>5, <3>2, <4>6 DEF CancelJob, Interrupt, Ending, Put, Proceed
      <4>7. CASE ThreadFails(j) \/ ThreadRemoves(j) \/ ThreadMoves(j)
        BY <2>2, <2>5, <3>2, <4>7 DEF ThreadFails, ThreadRemoves, ThreadMoves, files
      <4>8. QED
        BY <4>1, <4>2, <4>3, <4>4, <4>5, <4>6, <4>7 DEF ByJob, JobStep
    <3>3. QED
      BY <3>1, <3>2
  <2>6. QED
    BY <2>4, <2>5 DEF Whole
<1>8. QED
  BY <1>1, <1>2, <1>4, <1>5, <1>6, <1>7 DEF InstallInv

(* The invariant, and what a step never does, for every step.              *)
LEMMA InstallKept ==
  ASSUME InstallAssumption, InstallInv, [InstallNext]_ivars
  PROVE  InstallInv' /\ EndStays /\ (~JobCancels => CompletedIsWhole)
<1>1. CASE Install
  <2>1. /\ jobs' = jobs + 1 /\ jobs' \in Jobs /\ active' = jobs' /\ \A k \in Jobs : job[k] # "running"
        /\ step[jobs'] = "none" /\ job[jobs'] = "none" /\ thread[jobs'] = "none" /\ npm[jobs'] # "runs"
    <3>1. jobs' = jobs + 1 /\ jobs' \in Jobs /\ active' = jobs'
      BY <1>1 DEF InstallInv, InstallTypes, Install, Jobs, InstallAssumption
    <3>2. ASSUME NEW k \in Jobs, job[k] = "running" PROVE FALSE
      BY <1>1, <3>2 DEF Install, Busy, InstallInv, OneRunning, Jobs
    <3>3. JobSound(jobs') /\ jobs' > jobs
      BY <3>1 DEF InstallInv, InstallTypes, Jobs
    <3>4. QED
      BY <3>1, <3>2, <3>3 DEF JobSound
  <2>2. /\ job' = [job EXCEPT ![jobs'] = "running"] /\ step' = [step EXCEPT ![jobs'] = "detect"]
        /\ UNCHANGED <<why, thread, npm, told, node, named, packages>>
    BY <1>1 DEF Install, Put, Proceed, files
  <2>3. InstallTypes'
    <3>1. InstallTypes /\ jobs' \in 0..MaxJobs /\ active' \in 0..jobs'
      BY <2>1 DEF InstallInv, Jobs, InstallAssumption, InstallTypes
    <3>2. job' \in [Jobs -> Shown]
      BY ONLY <2>2, <3>1 DEF InstallTypes, Shown
    <3>3. step' \in [Jobs -> Places]
      BY ONLY <2>2, <3>1, PlacesAre DEF InstallTypes
    <3>4. QED
      BY ONLY <2>2, <3>1, <3>2, <3>3 DEF InstallTypes
  <2>4. OneRunning'
    BY <2>1, <2>2 DEF OneRunning, InstallInv, InstallTypes
  <2>5. ASSUME NEW k \in Jobs PROVE JobSound(k)'
    <3>1. JobSound(k) /\ step \in [Jobs -> Places]
          /\ job \in [Jobs -> Shown] /\ jobs \in Nat /\ k \in Nat
      BY DEF InstallInv, InstallTypes, Jobs
    <3>2. CASE k = jobs'
      <4>1. /\ step'[k] = "detect" /\ job'[k] = "running" /\ thread'[k] = "none" /\ npm'[k] # "runs"
            /\ ~ (k > jobs')
        BY ONLY <2>1, <2>2, <3>1, <3>2
      <4>2. QED
        BY ONLY <4>1 DEF JobSound, Awaits
    <3>3. CASE k # jobs'
      <4>1. step'[k] = step[k] /\ job'[k] = job[k] /\ (k > jobs' => k > jobs)
        BY ONLY <2>1, <2>2, <3>1, <3>3
      <4>2. QED
        BY ONLY <2>2, <3>1, <4>1 DEF JobSound
    <3>4. QED
      BY <3>2, <3>3
  <2>6. Whole' /\ Node'
    BY <2>1, <2>2 DEF InstallInv, InstallTypes, Whole, Node
  <2>7. EndStays /\ CompletedIsWhole
    BY <2>1, <2>2 DEF InstallInv, InstallTypes, EndStays, CompletedIsWhole
  <2>8. QED
    BY <2>3, <2>4, <2>5, <2>6, <2>7 DEF InstallInv
<1>2. CASE UNCHANGED ivars
  <2>1. UNCHANGED <<jobs, active, job, step, why, thread, npm, told, node, named, packages>>
    BY <1>2 DEF ivars, files
  <2>2. InstallTypes' /\ OneRunning'
    BY <2>1 DEF InstallInv, InstallTypes, OneRunning
  <2>3. Whole' /\ Node'
    BY <2>1 DEF InstallInv, Whole, Node
  <2>4. \A j \in Jobs : JobSound(j)'
    BY <2>1 DEF InstallInv, JobSound
  <2>5. EndStays /\ CompletedIsWhole
    BY <2>1 DEF EndStays, CompletedIsWhole
  <2>6. QED
    BY <2>2, <2>3, <2>4, <2>5 DEF InstallInv
<1>3. QED
  BY <1>1, <1>2, JobsKept DEF InstallNext, InstallOver, ByJob

(* The invariant holds before the first job.                               *)
LEMMA InstallAtFirst ==
  ASSUME InstallAssumption, InstallInit
  PROVE  InstallInv
<1>1. InstallTypes
  <2>1. jobs \in 0..MaxJobs /\ active \in 0..jobs
    BY DEF InstallAssumption, InstallInit
  <2>2. step \in [Jobs -> Places]
    BY PlacesAre DEF InstallInit
  <2>3. QED
    BY <2>1, <2>2 DEF InstallInit, InstallTypes, Shown, Causes, Threads, Outcomes
<1>2. OneRunning /\ (\A j \in Jobs : JobSound(j)) /\ Whole /\ Node
  BY DEF InstallInit, OneRunning, JobSound, Whole, Node, Jobs, Awaits
<1>3. QED
  BY <1>1, <1>2 DEF InstallInv

(* The installation of the runtime of the MCP servers: one job at a time   *)
(* runs; an npm that outlives its job was told to end, and without a       *)
(* cancellation one npm at most works on the packages; the Node that the   *)
(* settings name is there.                                                 *)
THEOREM InstallIsSafe ==
  ASSUME InstallAssumption
  PROVE  InstallSpec => []InstallSafe
<1>1. InstallInit => InstallInv
  BY InstallAtFirst
<1>2. InstallInv /\ [InstallNext]_ivars => InstallInv'
  BY InstallKept
<1>3. InstallInv => InstallSafe
  <2> SUFFICES ASSUME InstallInv PROVE InstallSafe
    OBVIOUS
  <2>1. NothingLeft
    BY DEF NothingLeft, InstallInv, JobSound
  <2>2. NamedIsThere
    BY DEF NamedIsThere, InstallInv, Node, InstallTypes
  <2>3. ASSUME ~JobCancels PROVE OneInstaller
    <3>1. \A j \in Installing : j = active
      BY <2>3 DEF Installing, InstallInv, JobSound, OneRunning
    <3>2. CASE Installing = {}
      BY <3>2, FS_EmptySet DEF OneInstaller
    <3>3. CASE Installing = {active}
      <4>1. Cardinality(Installing) = 1
        BY <3>3, FS_Singleton
      <4>2. QED
        BY <4>1 DEF OneInstaller
    <3>4. QED
      BY <3>1, <3>2, <3>3
  <2>4. QED
    BY <2>1, <2>2, <2>3, InstallTypesAre DEF InstallSafe, InstallInv
<1>4. QED
  BY <1>1, <1>2, <1>3, PTL DEF InstallSpec

(* What no step does: change how a job has ended, except that a completed  *)
(* job becomes a failed one when its time runs out while its status is     *)
(* published; and, where no job is cancelled, complete one whose packages  *)
(* are not whole.                                                          *)
THEOREM InstallStepsSafe ==
  ASSUME InstallAssumption
  PROVE  InstallSpec => [][EndStays /\ (~JobCancels => CompletedIsWhole)]_ivars
<1>1. InstallInit => InstallInv
  BY InstallAtFirst
<1>2. InstallInv /\ [InstallNext]_ivars => InstallInv' /\ EndStays /\ (~JobCancels => CompletedIsWhole)
  BY InstallKept
<1>3. QED
  BY <1>1, <1>2, PTL DEF InstallSpec

-----------------------------------------------------------------------------
(* The managed MCP server (LarkLifecycle).                                 *)
LarkPcs == {"idle", "read", "gates", "port", "starting", "spawn", "probe", "stopping", "watchers", "exit",
            "end", "announce", "tool", "tool runs", "cleanup", "latest", "write"}
(* The service can end the server, and sees its exit.                      *)
Overseen == larkOwner # 0 /\ (larkOwner \in live => watched = larkOwner)
(* Where an operation is, and what it has done: a login that can be        *)
(* cancelled is at one of its own awaits, a process is released before     *)
(* another is started, and a teardown has no health loop beside it.        *)
Placed ==
  /\ pc \in LarkPcs
  /\ loginTask => /\ claimed = "login"
                  /\ pc \in {"stopping", "watchers", "exit", "announce", "tool", "tool runs"}
                  /\ pc \in {"stopping", "watchers", "exit"} => cont = "login"
  /\ pc \in {"spawn", "exit"} => larkOwner = 0
  /\ pc \in {"watchers", "exit"} => health = "none"
  /\ pc \in {"stopping", "watchers", "exit"} => (cont = "login" => claimed = "login")
  /\ pc = "announce" => claimed = "login"
(* A stop has its own way, and reaches the end only with the server        *)
(* released.                                                               *)
OfStop == claimed = "stop" =>
  /\ pc \in {"stopping", "watchers", "exit", "end"}
  /\ pc # "end" => cont = "end"
  /\ pc = "end" => larkState = "stopped" /\ larkOwner = 0
(* The health loop and a state that serves have a watched server, unless   *)
(* the operation under way, or the cleanup of a cancelled login, is about  *)
(* to change the state.                                                    *)
UnderWatch ==
  /\ health # "none" => Overseen
  /\ larkState \in Running =>
       \/ Overseen
       \/ pc \in {"watchers", "exit", "spawn", "probe"}
       \/ pc = "cleanup" /\ claimed = "login" /\ cancelled
(* Where no login is cancelled and nothing is saved: the server is ended   *)
(* by the operation that waits for it, and by nobody else.                 *)
Undisturbed ==
  /\ editor = "none" /\ ~stale /\ canceller = "idle" /\ ~cancelled
  /\ pc \in {"idle", "read", "gates", "port", "end"} =>
       larkState \notin Transient /\ (larkState \in {"stopped", "failed"} => Open = {})
  /\ pc \in {"announce", "tool", "tool runs", "cleanup", "latest", "write"} => Open = {}
  /\ pc = "tool" /\ claimed # "login" => larkState \notin Transient
  /\ doomed # {} => pc = "exit" /\ doomed = {victim}
  /\ tool => pc \in {"tool runs", "cleanup"}
(* The types, in three parts that no leaf needs together.                  *)
Words ==
  /\ larkState \in {"running", "running_degraded", "unhealthy", "starting", "stopping", "logging_in", "stopped",
                    "failed"}
  /\ claimed \in {"none", "start", "stop", "login", "logout"}
  /\ cont \in {"none", "spawn", "failed", "end", "login", "logout"} /\ health \in {"none", "sleep", "probe"}
  /\ canceller \in {"idle", "waiting"} /\ editor \in {"none", "revoke", "move", "other"}
Numbers ==
  /\ larkOwner \in 0..made /\ victim \in 0..made /\ watched \in 0..made /\ made \in 0..MaxServers
  /\ live \subseteq 1..made /\ doomed \subseteq live
  /\ at \in [Servers -> 0..2] /\ seen \in 1..2 /\ port \in 1..2
  /\ missed \in 0..ProbeLimit /\ saves \in 0..MaxSaves
Flags ==
  /\ was \in BOOLEAN /\ succeeded \in BOOLEAN /\ stale \in BOOLEAN /\ tool \in BOOLEAN /\ loginTask \in BOOLEAN
  /\ cancelled \in BOOLEAN /\ owned \in BOOLEAN /\ loggedIn \in BOOLEAN
IdleUnclaimed == claimed = "none" <=> pc = "idle"
LarkTypes == Words /\ IdleUnclaimed /\ Numbers /\ Flags
LarkInv == /\ LarkTypes /\ OneServer /\ Placed /\ OfStop /\ UnderWatch
           /\ ~MayCancel /\ MaxSaves = 0 => Undisturbed

(* The types, and as LarkTypeOK has them.                                  *)
LEMMA LarkTypesAre == LarkTypes <=> LarkTypeOK
BY DEF LarkTypes, Words, IdleUnclaimed, Numbers, Flags, LarkTypeOK, Running, Transient

(* Every step keeps the states and places,                                 *)
LEMMA LarkWords ==
  ASSUME LarkAssumption, LarkInv, [LarkNext]_larkvars
  PROVE  Words'
<1>0. Words
  BY DEF LarkInv, LarkTypes
<1> USE <1>0 DEF Words, Running, opVars, processes, loginVars, watchers, settings
<1>1. CASE Read \/ GateFails \/ End \/ WriteRefused
  BY ONLY <1>0, <1>1 DEF Read, GateFails, End, WriteRefused, Finish
<1>2. CASE StartGates \/ PortChecked
  BY ONLY <1>0, <1>2 DEF StartGates, PortChecked, Goto
<1>3. CASE Starting \/ StartFails \/ Stopping
  BY ONLY <1>0, <1>3 DEF Starting, StartFails, Stopping, Teardown, CancelWatchers, Goto
<1>4. CASE SpawnLark
  BY ONLY <1>0, <1>4 DEF SpawnLark, Goto
<1>5. CASE TakeOwner
  BY ONLY <1>0, <1>5 DEF TakeOwner, Release, Goto
<1>6. CASE TornForSpawn \/ StartFailed \/ Stopped \/ StoppedForLogin \/ StoppedForLogout
  BY ONLY <1>0, <1>6 DEF TornForSpawn, StartFailed, Stopped, StoppedForLogin, StoppedForLogout, Gone, Goto
<1>7. CASE LoginGates
  BY ONLY <1>0, <1>7 DEF LoginGates, StopInternal
<1>8. CASE LogoutGates \/ Stop
  BY ONLY <1>0, <1>8 DEF LogoutGates, Stop, LogoutStops, StopInternal, LarkFree
<1>9. CASE Announced \/ ToolFails \/ CleanedUp
  BY ONLY <1>0, <1>9 DEF Announced, ToolFails, CleanedUp, Goto
<1>10. CASE ToolStarts \/ ToolEnds
  BY ONLY <1>0, <1>10 DEF ToolStarts, ToolEnds, Goto
<1>11. CASE ReadLatest \/ Write
  BY ONLY <1>0, <1>11 DEF ReadLatest, Write, Resumes
<1>12. CASE CancelLogin \/ CancelLate
  BY ONLY <1>0, <1>12 DEF CancelLogin, CancelLate
<1>13. CASE HealthWakes
  BY ONLY <1>0, <1>13 DEF HealthWakes
<1>14. CASE ExitSeen
  BY ONLY <1>0, <1>14 DEF ExitSeen
<1>15. ASSUME NEW b \in BOOLEAN, Listens(b) PROVE Words'
  BY ONLY <1>0, <1>15 DEF Listens, Watch, Goto
<1>16. ASSUME NEW b \in BOOLEAN, ToolOver(b) PROVE Words'
  <2>1. UNCHANGED <<larkState, claimed, cont, health, canceller, editor>>
    BY ONLY <1>16 DEF ToolOver, watchers, settings
  <2>2. QED
    BY ONLY <1>0, <2>1 DEF Words
<1>17. ASSUME NEW w \in {"start", "login", "logout"}, Begin(w) PROVE Words'
  BY ONLY <1>0, <1>17 DEF Begin, LarkFree
<1>18. ASSUME NEW b \in BOOLEAN, NEW p \in BOOLEAN, Probed(b, p) PROVE Words'
  BY ONLY <1>0, <1>18 DEF Probed
<1>19. ASSUME NEW s \in live, ServerExits(s) PROVE Words'
  BY ONLY <1>0, <1>19 DEF ServerExits
<1>20. ASSUME NEW w \in {"revoke", "move", "other"}, BeginEdit(w) PROVE Words'
  BY ONLY <1>0, <1>20 DEF BeginEdit, MayEdit
<1>21. ASSUME NEW b \in BOOLEAN, EndEdit(b) PROVE Words'
  BY ONLY <1>0, <1>21 DEF EndEdit
<1>22. CASE LarkOver \/ UNCHANGED larkvars
  BY <1>22 DEF LarkOver, larkvars
<1>23. QED
  BY <1>1, <1>2, <1>3, <1>4, <1>5, <1>6, <1>7, <1>8, <1>9, <1>10, <1>11, <1>12, <1>13, <1>14, <1>15, <1>16,
     <1>17, <1>18, <1>19, <1>20, <1>21, <1>22 DEF LarkNext, Operation

(* the claim with the operation that has it,                               *)
LEMMA LarkIdle ==
  ASSUME LarkAssumption, LarkInv, [LarkNext]_larkvars
  PROVE  IdleUnclaimed'
<1>0. IdleUnclaimed /\ (loginTask => claimed = "login")
  BY DEF LarkInv, LarkTypes, Placed
<1> USE <1>0 DEF IdleUnclaimed, opVars, processes, loginVars, watchers, settings
<1>1. CASE Read \/ GateFails \/ End \/ WriteRefused
  BY ONLY <1>0, <1>1 DEF Read, GateFails, End, WriteRefused, Finish
<1>2. CASE StartGates \/ PortChecked
  BY ONLY <1>0, <1>2 DEF StartGates, PortChecked, Goto
<1>3. CASE Starting \/ StartFails \/ Stopping
  BY ONLY <1>0, <1>3 DEF Starting, StartFails, Stopping, Teardown, CancelWatchers, Goto
<1>4. CASE SpawnLark
  BY ONLY <1>0, <1>4 DEF SpawnLark, Goto
<1>5. CASE TakeOwner
  BY ONLY <1>0, <1>5 DEF TakeOwner, Release, Goto
<1>6. CASE TornForSpawn \/ StartFailed \/ Stopped \/ StoppedForLogin \/ StoppedForLogout
  BY ONLY <1>0, <1>6 DEF TornForSpawn, StartFailed, Stopped, StoppedForLogin, StoppedForLogout, Gone, Goto
<1>7. CASE LoginGates
  BY ONLY <1>0, <1>7 DEF LoginGates, StopInternal
<1>8. CASE LogoutGates \/ Stop
  BY ONLY <1>0, <1>8 DEF LogoutGates, Stop, LogoutStops, StopInternal, LarkFree
<1>9. CASE Announced \/ ToolFails \/ CleanedUp
  BY ONLY <1>0, <1>9 DEF Announced, ToolFails, CleanedUp, Goto
<1>10. CASE ToolStarts \/ ToolEnds
  BY ONLY <1>0, <1>10 DEF ToolStarts, ToolEnds, Goto
<1>11. CASE ReadLatest \/ Write
  BY ONLY <1>0, <1>11 DEF ReadLatest, Write, Resumes
<1>12. CASE CancelLogin \/ CancelLate
  BY ONLY <1>0, <1>12 DEF CancelLogin, CancelLate
<1>13. CASE HealthWakes
  BY ONLY <1>0, <1>13 DEF HealthWakes
<1>14. CASE ExitSeen
  BY ONLY <1>0, <1>14 DEF ExitSeen
<1>15. ASSUME NEW b \in BOOLEAN, Listens(b) PROVE IdleUnclaimed'
  BY ONLY <1>0, <1>15 DEF Listens, Watch, Goto
<1>16. ASSUME NEW b \in BOOLEAN, ToolOver(b) PROVE IdleUnclaimed'
  BY ONLY <1>0, <1>16 DEF ToolOver
<1>17. ASSUME NEW w \in {"start", "login", "logout"}, Begin(w) PROVE IdleUnclaimed'
  BY ONLY <1>0, <1>17 DEF Begin, LarkFree
<1>18. ASSUME NEW b \in BOOLEAN, NEW p \in BOOLEAN, Probed(b, p) PROVE IdleUnclaimed'
  BY ONLY <1>0, <1>18 DEF Probed
<1>19. ASSUME NEW s \in live, ServerExits(s) PROVE IdleUnclaimed'
  BY ONLY <1>0, <1>19 DEF ServerExits
<1>20. ASSUME NEW w \in {"revoke", "move", "other"}, BeginEdit(w) PROVE IdleUnclaimed'
  BY ONLY <1>0, <1>20 DEF BeginEdit, MayEdit
<1>21. ASSUME NEW b \in BOOLEAN, EndEdit(b) PROVE IdleUnclaimed'
  BY ONLY <1>0, <1>21 DEF EndEdit
<1>22. CASE LarkOver \/ UNCHANGED larkvars
  BY <1>22 DEF LarkOver, larkvars
<1>23. QED
  BY <1>1, <1>2, <1>3, <1>4, <1>5, <1>6, <1>7, <1>8, <1>9, <1>10, <1>11, <1>12, <1>13, <1>14, <1>15, <1>16,
     <1>17, <1>18, <1>19, <1>20, <1>21, <1>22 DEF LarkNext, Operation

(* the servers and counters,                                               *)
LEMMA LarkNumbers ==
  ASSUME LarkAssumption, LarkInv, [LarkNext]_larkvars
  PROVE  Numbers'
<1>0. LarkAssumption /\ Numbers
  BY DEF LarkInv, LarkTypes
<1> USE <1>0 DEF Numbers, Servers, LarkAssumption, opVars, processes, loginVars, watchers, settings
<1>1. CASE Read \/ GateFails \/ End \/ WriteRefused
  BY ONLY <1>0, <1>1 DEF Read, GateFails, End, WriteRefused, Finish
<1>2. CASE StartGates \/ PortChecked
  BY ONLY <1>0, <1>2 DEF StartGates, PortChecked, Goto
<1>3. CASE Starting \/ StartFails \/ Stopping
  <2>1. /\ UNCHANGED <<larkOwner, victim, made, live, doomed, at, seen, port, saves>>
        /\ watched' \in {0, watched} /\ missed' \in {0, missed}
    BY ONLY <1>3 DEF Starting, StartFails, Stopping, Teardown, CancelWatchers, Goto, processes, settings,
       watchers
  <2>2. QED
    BY ONLY <1>0, <2>1 DEF LarkAssumption, Numbers
<1>4. CASE SpawnLark
  BY ONLY <1>0, <1>4 DEF SpawnLark, Goto
<1>5. CASE TakeOwner
  BY ONLY <1>0, <1>5 DEF TakeOwner, Release, Goto
<1>6. CASE TornForSpawn \/ StartFailed \/ Stopped \/ StoppedForLogin \/ StoppedForLogout
  BY ONLY <1>0, <1>6 DEF TornForSpawn, StartFailed, Stopped, StoppedForLogin, StoppedForLogout, Gone, Goto
<1>7. CASE LoginGates
  BY ONLY <1>0, <1>7 DEF LoginGates, StopInternal
<1>8. CASE LogoutGates \/ Stop
  BY ONLY <1>0, <1>8 DEF LogoutGates, Stop, LogoutStops, StopInternal, LarkFree
<1>9. CASE Announced \/ ToolFails \/ CleanedUp
  BY ONLY <1>0, <1>9 DEF Announced, ToolFails, CleanedUp, Goto
<1>10. CASE ToolStarts \/ ToolEnds
  BY ONLY <1>0, <1>10 DEF ToolStarts, ToolEnds, Goto
<1>11. CASE ReadLatest \/ Write
  BY ONLY <1>0, <1>11 DEF ReadLatest, Write, Resumes
<1>12. CASE CancelLogin \/ CancelLate
  BY ONLY <1>0, <1>12 DEF CancelLogin, CancelLate
<1>13. CASE HealthWakes
  BY ONLY <1>0, <1>13 DEF HealthWakes
<1>14. CASE ExitSeen
  BY ONLY <1>0, <1>14 DEF ExitSeen
<1>15. ASSUME NEW b \in BOOLEAN, Listens(b) PROVE Numbers'
  BY ONLY <1>0, <1>15 DEF Listens, Watch, Goto
<1>16. ASSUME NEW b \in BOOLEAN, ToolOver(b) PROVE Numbers'
  BY ONLY <1>0, <1>16 DEF ToolOver
<1>17. ASSUME NEW w \in {"start", "login", "logout"}, Begin(w) PROVE Numbers'
  BY ONLY <1>0, <1>17 DEF Begin, LarkFree
<1>18. ASSUME NEW b \in BOOLEAN, NEW p \in BOOLEAN, Probed(b, p) PROVE Numbers'
  BY ONLY <1>0, <1>18 DEF Probed
<1>19. ASSUME NEW s \in live, ServerExits(s) PROVE Numbers'
  BY ONLY <1>0, <1>19 DEF ServerExits
<1>20. ASSUME NEW w \in {"revoke", "move", "other"}, BeginEdit(w) PROVE Numbers'
  BY ONLY <1>0, <1>20 DEF BeginEdit, MayEdit
<1>21. ASSUME NEW b \in BOOLEAN, EndEdit(b) PROVE Numbers'
  BY ONLY <1>0, <1>21 DEF EndEdit
<1>22. CASE LarkOver \/ UNCHANGED larkvars
  BY <1>22 DEF LarkOver, larkvars
<1>23. QED
  BY <1>1, <1>2, <1>3, <1>4, <1>5, <1>6, <1>7, <1>8, <1>9, <1>10, <1>11, <1>12, <1>13, <1>14, <1>15, <1>16,
     <1>17, <1>18, <1>19, <1>20, <1>21, <1>22 DEF LarkNext, Operation

(* the flags,                                                              *)
LEMMA LarkFlags ==
  ASSUME LarkAssumption, LarkInv, [LarkNext]_larkvars
  PROVE  Flags'
<1>0. Flags
  BY DEF LarkInv, LarkTypes
<1> USE <1>0 DEF Flags, opVars, processes, loginVars, watchers, settings
<1>1. CASE Read \/ GateFails \/ End \/ WriteRefused
  BY ONLY <1>0, <1>1 DEF Read, GateFails, End, WriteRefused, Finish
<1>2. CASE StartGates \/ PortChecked
  BY ONLY <1>0, <1>2 DEF StartGates, PortChecked, Goto
<1>3. CASE Starting \/ StartFails \/ Stopping
  BY ONLY <1>0, <1>3 DEF Starting, StartFails, Stopping, Teardown, CancelWatchers, Goto
<1>4. CASE SpawnLark
  BY ONLY <1>0, <1>4 DEF SpawnLark, Goto
<1>5. CASE TakeOwner
  BY ONLY <1>0, <1>5 DEF TakeOwner, Release, Goto
<1>6. CASE TornForSpawn \/ StartFailed \/ Stopped \/ StoppedForLogin \/ StoppedForLogout
  BY ONLY <1>0, <1>6 DEF TornForSpawn, StartFailed, Stopped, StoppedForLogin, StoppedForLogout, Gone, Goto
<1>7. CASE LoginGates
  <2>1. was' \in BOOLEAN /\ loginTask' = TRUE /\ cancelled' = FALSE
        /\ UNCHANGED <<succeeded, stale, tool, owned, loggedIn>>
    BY ONLY <1>7 DEF LoginGates, processes, settings
  <2>2. QED
    BY ONLY <1>0, <2>1 DEF Flags
<1>8. CASE LogoutGates \/ Stop
  BY ONLY <1>0, <1>8 DEF LogoutGates, Stop, LogoutStops, StopInternal, LarkFree
<1>9. CASE Announced \/ ToolFails \/ CleanedUp
  BY ONLY <1>0, <1>9 DEF Announced, ToolFails, CleanedUp, Goto
<1>10. CASE ToolStarts \/ ToolEnds
  BY ONLY <1>0, <1>10 DEF ToolStarts, ToolEnds, Goto
<1>11. CASE ReadLatest \/ Write
  BY ONLY <1>0, <1>11 DEF ReadLatest, Write, Resumes
<1>12. CASE CancelLogin \/ CancelLate
  BY ONLY <1>0, <1>12 DEF CancelLogin, CancelLate
<1>13. CASE HealthWakes
  BY ONLY <1>0, <1>13 DEF HealthWakes
<1>14. CASE ExitSeen
  BY ONLY <1>0, <1>14 DEF ExitSeen
<1>15. ASSUME NEW b \in BOOLEAN, Listens(b) PROVE Flags'
  BY ONLY <1>0, <1>15 DEF Listens, Watch, Goto
<1>16. ASSUME NEW b \in BOOLEAN, ToolOver(b) PROVE Flags'
  BY ONLY <1>0, <1>16 DEF ToolOver
<1>17. ASSUME NEW w \in {"start", "login", "logout"}, Begin(w) PROVE Flags'
  BY ONLY <1>0, <1>17 DEF Begin, LarkFree
<1>18. ASSUME NEW b \in BOOLEAN, NEW p \in BOOLEAN, Probed(b, p) PROVE Flags'
  BY ONLY <1>0, <1>18 DEF Probed
<1>19. ASSUME NEW s \in live, ServerExits(s) PROVE Flags'
  BY ONLY <1>0, <1>19 DEF ServerExits
<1>20. ASSUME NEW w \in {"revoke", "move", "other"}, BeginEdit(w) PROVE Flags'
  BY ONLY <1>0, <1>20 DEF BeginEdit, MayEdit
<1>21. ASSUME NEW b \in BOOLEAN, EndEdit(b) PROVE Flags'
  BY ONLY <1>0, <1>21 DEF EndEdit
<1>22. CASE LarkOver \/ UNCHANGED larkvars
  BY <1>22 DEF LarkOver, larkvars
<1>23. QED
  BY <1>1, <1>2, <1>3, <1>4, <1>5, <1>6, <1>7, <1>8, <1>9, <1>10, <1>11, <1>12, <1>13, <1>14, <1>15, <1>16,
     <1>17, <1>18, <1>19, <1>20, <1>21, <1>22 DEF LarkNext, Operation

(* what an operation has done at its place, a stop's with it,              *)
LEMMA LarkPlaced ==
  ASSUME LarkAssumption, LarkInv, [LarkNext]_larkvars
  PROVE  (Placed /\ OfStop)'
<1>0. LarkAssumption /\ LarkTypes /\ OneServer /\ Placed /\ OfStop /\ UnderWatch
  BY DEF LarkInv
<1>p. Placed /\ OfStop /\ loginTask \in BOOLEAN
  BY DEF LarkInv, LarkTypes, Flags
<1> USE <1>0 DEF LarkTypes, Words, IdleUnclaimed, Numbers, Flags, LarkPcs, Placed, OfStop, UnderWatch,
   Overseen, Running, opVars, processes, loginVars, watchers, settings
<1>1. CASE Read
  BY <1>1 DEF Read, Finish
<1>2. CASE GateFails
  BY <1>2 DEF GateFails, Finish
<1>3. CASE StartGates
  BY <1>3 DEF StartGates, Goto
<1>4. CASE PortChecked
  BY <1>4 DEF PortChecked, Goto
<1>5. CASE Starting
  BY <1>5 DEF Starting, Teardown, CancelWatchers, Goto
<1>6. CASE TornForSpawn
  <2>1. /\ pc = "exit" /\ pc' \in {"spawn", "end"} /\ UNCHANGED <<claimed, cont, health, larkOwner, loginTask>>
        /\ claimed = "stop" => cont = "end" /\ pc' = "end" /\ larkState' = "stopped"
        /\ larkOwner = 0 /\ ~loginTask
    BY ONLY <1>p, <1>6 DEF TornForSpawn, Gone, Goto, Placed, OfStop, processes, loginVars, watchers
  <2>2. QED
    BY ONLY <1>p, <2>1 DEF Placed, OfStop, LarkPcs
<1>7. CASE SpawnLark
  BY <1>7 DEF SpawnLark, Goto
<1>8. CASE StartFails
  BY <1>8 DEF StartFails, Teardown, CancelWatchers
<1>9. CASE StartFailed
  <2>1. /\ pc = "exit" /\ pc' \in {"spawn", "end"} /\ UNCHANGED <<claimed, cont, health, larkOwner, loginTask>>
        /\ claimed = "stop" => cont = "end" /\ pc' = "end" /\ larkState' = "stopped"
        /\ larkOwner = 0 /\ ~loginTask
    BY ONLY <1>p, <1>9 DEF StartFailed, Gone, Goto, Placed, OfStop, processes, loginVars, watchers
  <2>2. QED
    BY ONLY <1>p, <2>1 DEF Placed, OfStop, LarkPcs
<1>10. CASE End
  BY <1>10 DEF End, Finish
<1>11. CASE Stopping
  BY <1>11 DEF Stopping, Teardown, CancelWatchers
<1>12. CASE TakeOwner
  BY <1>12 DEF TakeOwner, Release, Goto
<1>13. CASE Stopped
  <2>1. /\ pc = "exit" /\ pc' \in {"spawn", "end"} /\ UNCHANGED <<claimed, cont, health, larkOwner, loginTask>>
        /\ claimed = "stop" => cont = "end" /\ pc' = "end" /\ larkState' = "stopped"
        /\ larkOwner = 0 /\ ~loginTask
    BY ONLY <1>p, <1>13 DEF Stopped, Gone, Goto, Placed, OfStop, processes, loginVars, watchers
  <2>2. QED
    BY ONLY <1>p, <2>1 DEF Placed, OfStop, LarkPcs
<1>14. CASE LoginGates
  BY <1>14 DEF LoginGates, StopInternal
<1>15. CASE StoppedForLogin
  BY <1>15 DEF StoppedForLogin, Gone, Goto
<1>16. CASE Announced
  BY <1>16 DEF Announced, Goto
<1>17. CASE LogoutGates
  BY <1>17 DEF LogoutGates, LogoutStops, StopInternal
<1>18. CASE StoppedForLogout
  BY <1>18 DEF StoppedForLogout, Gone, Goto
<1>19. CASE ToolStarts
  BY <1>19 DEF ToolStarts, Goto
<1>20. CASE ToolFails
  BY <1>20 DEF ToolFails
<1>21. CASE CleanedUp
  BY <1>21 DEF CleanedUp, Goto
<1>22. CASE ReadLatest
  BY <1>22 DEF ReadLatest
<1>23. CASE WriteRefused
  BY <1>23 DEF WriteRefused, Finish
<1>24. CASE Write
  BY <1>24 DEF Write, Resumes
<1>25. CASE Stop
  BY <1>25 DEF Stop, LarkFree, StopInternal
<1>26. CASE ToolEnds
  BY <1>26 DEF ToolEnds
<1>27. CASE CancelLogin
  BY <1>27 DEF CancelLogin
<1>28. CASE CancelLate
  BY <1>28 DEF CancelLate
<1>29. CASE HealthWakes
  BY <1>29 DEF HealthWakes
<1>30. CASE ExitSeen
  BY <1>30 DEF ExitSeen
<1>31. CASE LarkOver
  BY <1>31 DEF LarkOver, larkvars
<1>32. ASSUME NEW b \in BOOLEAN, Listens(b) PROVE (Placed /\ OfStop)'
  BY <1>32 DEF Listens, Watch, Goto
<1>33. ASSUME NEW b \in BOOLEAN, ToolOver(b) PROVE (Placed /\ OfStop)'
  BY <1>33 DEF ToolOver
<1>34. ASSUME NEW w \in {"start", "login", "logout"}, Begin(w) PROVE (Placed /\ OfStop)'
  BY <1>34 DEF Begin, LarkFree
<1>35. ASSUME NEW b \in BOOLEAN, NEW p \in BOOLEAN, Probed(b, p) PROVE (Placed /\ OfStop)'
  BY <1>35 DEF Probed
<1>36. ASSUME NEW s \in live, ServerExits(s) PROVE (Placed /\ OfStop)'
  BY <1>36 DEF ServerExits
<1>37. ASSUME NEW w \in {"revoke", "move", "other"}, BeginEdit(w) PROVE (Placed /\ OfStop)'
  BY <1>37 DEF BeginEdit, MayEdit
<1>38. ASSUME NEW b \in BOOLEAN, EndEdit(b) PROVE (Placed /\ OfStop)'
  BY <1>38 DEF EndEdit
<1>39. CASE UNCHANGED larkvars
  BY <1>39 DEF larkvars
<1>40. QED
  BY <1>1, <1>2, <1>3, <1>4, <1>5, <1>6, <1>7, <1>8, <1>9, <1>10, <1>11, <1>12, <1>13, <1>14, <1>15, <1>16,
     <1>17, <1>18, <1>19, <1>20, <1>21, <1>22, <1>23, <1>24, <1>25, <1>26, <1>27, <1>28, <1>29, <1>30, <1>31,
        <1>32, <1>33, <1>34, <1>35, <1>36, <1>37, <1>38, <1>39 DEF LarkNext, Operation

(* one server at most that is not being ended,                             *)
LEMMA LarkOneServer ==
  ASSUME LarkAssumption, LarkInv, [LarkNext]_larkvars
  PROVE  OneServer'
<1>a. live \subseteq 1..made /\ doomed \subseteq live /\ made \in Nat /\ larkOwner \in 0..made
  BY DEF LarkInv, LarkTypes, Numbers, LarkAssumption
<1>b. pc \in {"spawn", "exit"} => larkOwner = 0
  BY DEF LarkInv, Placed
<1>c. OneServer
  BY DEF LarkInv
<1>0. /\ OneServer /\ (pc \in {"spawn", "exit"} => larkOwner = 0)
      /\ live \subseteq 1..made /\ doomed \subseteq live /\ made \in Nat /\ larkOwner \in 0..made
  BY <1>a, <1>b, <1>c
<1> USE <1>0 DEF OneServer, Open, Placed, opVars, processes, loginVars, watchers, settings
<1>1. CASE Read \/ GateFails \/ End \/ WriteRefused
  BY ONLY <1>0, <1>1 DEF Read, GateFails, End, WriteRefused, Finish
<1>2. CASE StartGates \/ PortChecked
  BY ONLY <1>0, <1>2 DEF StartGates, PortChecked, Goto
<1>3. CASE Starting \/ StartFails \/ Stopping
  BY ONLY <1>0, <1>3 DEF Starting, StartFails, Stopping, Teardown, CancelWatchers, Goto
<1>4. CASE SpawnLark
  BY ONLY <1>0, <1>4 DEF SpawnLark, Goto
<1>5. CASE TakeOwner
  BY ONLY <1>0, <1>5 DEF TakeOwner, Release, Goto
<1>6. CASE TornForSpawn \/ StartFailed \/ Stopped \/ StoppedForLogin \/ StoppedForLogout
  BY ONLY <1>0, <1>6 DEF TornForSpawn, StartFailed, Stopped, StoppedForLogin, StoppedForLogout, Gone, Goto
<1>7. CASE LoginGates
  BY ONLY <1>0, <1>7 DEF LoginGates, StopInternal
<1>8. CASE LogoutGates \/ Stop
  BY ONLY <1>0, <1>8 DEF LogoutGates, Stop, LogoutStops, StopInternal, LarkFree
<1>9. CASE Announced \/ ToolFails \/ CleanedUp
  BY ONLY <1>0, <1>9 DEF Announced, ToolFails, CleanedUp, Goto
<1>10. CASE ToolStarts \/ ToolEnds
  BY ONLY <1>0, <1>10 DEF ToolStarts, ToolEnds, Goto
<1>11. CASE ReadLatest \/ Write
  BY ONLY <1>0, <1>11 DEF ReadLatest, Write, Resumes
<1>12. CASE CancelLogin \/ CancelLate
  BY ONLY <1>0, <1>12 DEF CancelLogin, CancelLate
<1>13. CASE HealthWakes
  BY ONLY <1>0, <1>13 DEF HealthWakes
<1>14. CASE ExitSeen
  BY ONLY <1>0, <1>14 DEF ExitSeen
<1>15. ASSUME NEW b \in BOOLEAN, Listens(b) PROVE OneServer'
  BY ONLY <1>0, <1>15 DEF Listens, Watch, Goto
<1>16. ASSUME NEW b \in BOOLEAN, ToolOver(b) PROVE OneServer'
  BY ONLY <1>0, <1>16 DEF ToolOver
<1>17. ASSUME NEW w \in {"start", "login", "logout"}, Begin(w) PROVE OneServer'
  BY ONLY <1>0, <1>17 DEF Begin, LarkFree
<1>18. ASSUME NEW b \in BOOLEAN, NEW p \in BOOLEAN, Probed(b, p) PROVE OneServer'
  BY ONLY <1>0, <1>18 DEF Probed
<1>19. ASSUME NEW s \in live, ServerExits(s) PROVE OneServer'
  BY ONLY <1>0, <1>19 DEF ServerExits
<1>20. ASSUME NEW w \in {"revoke", "move", "other"}, BeginEdit(w) PROVE OneServer'
  BY ONLY <1>0, <1>20 DEF BeginEdit, MayEdit
<1>21. ASSUME NEW b \in BOOLEAN, EndEdit(b) PROVE OneServer'
  BY ONLY <1>0, <1>21 DEF EndEdit
<1>22. CASE LarkOver \/ UNCHANGED larkvars
  BY <1>22 DEF LarkOver, larkvars
<1>23. QED
  BY <1>1, <1>2, <1>3, <1>4, <1>5, <1>6, <1>7, <1>8, <1>9, <1>10, <1>11, <1>12, <1>13, <1>14, <1>15, <1>16,
     <1>17, <1>18, <1>19, <1>20, <1>21, <1>22 DEF LarkNext, Operation

(* the watch of a server that serves,                                      *)
LEMMA LarkWatched ==
  ASSUME LarkAssumption, LarkInv, [LarkNext]_larkvars
  PROVE  UnderWatch'
<1>0. LarkAssumption /\ LarkTypes /\ OneServer /\ Placed /\ OfStop /\ UnderWatch
  BY DEF LarkInv
<1> USE <1>0 DEF LarkTypes, Words, IdleUnclaimed, Numbers, Flags, Placed, UnderWatch, Overseen, Running,
   opVars, processes, loginVars, watchers, settings
<1>1. CASE Read
  BY <1>1 DEF Read, Finish
<1>2. CASE GateFails
  BY <1>2 DEF GateFails, Finish
<1>3. CASE StartGates
  BY <1>3 DEF StartGates, Goto
<1>4. CASE PortChecked
  BY <1>4 DEF PortChecked, Goto
<1>5. CASE Starting
  BY <1>5 DEF Starting, Teardown, CancelWatchers, Goto
<1>6. CASE TornForSpawn
  BY <1>6 DEF TornForSpawn, Gone, Goto
<1>7. CASE SpawnLark
  BY <1>7 DEF SpawnLark, Goto
<1>8. CASE StartFails
  BY <1>8 DEF StartFails, Teardown, CancelWatchers
<1>9. CASE StartFailed
  BY <1>9 DEF StartFailed, Gone, Goto
<1>10. CASE End
  BY <1>10 DEF End, Finish
<1>11. CASE Stopping
  BY <1>11 DEF Stopping, Teardown, CancelWatchers
<1>12. CASE TakeOwner
  BY <1>12 DEF TakeOwner, Release, Goto
<1>13. CASE Stopped
  BY <1>13 DEF Stopped, Gone, Goto
<1>14. CASE LoginGates
  BY <1>14 DEF LoginGates, StopInternal
<1>15. CASE StoppedForLogin
  BY <1>15 DEF StoppedForLogin, Gone, Goto
<1>16. CASE Announced
  BY <1>16 DEF Announced, Goto
<1>17. CASE LogoutGates
  BY <1>17 DEF LogoutGates, LogoutStops, StopInternal
<1>18. CASE StoppedForLogout
  BY <1>18 DEF StoppedForLogout, Gone, Goto
<1>19. CASE ToolStarts
  BY <1>19 DEF ToolStarts, Goto
<1>20. CASE ToolFails
  BY <1>20 DEF ToolFails
<1>21. CASE CleanedUp
  BY <1>21 DEF CleanedUp, Goto
<1>22. CASE ReadLatest
  BY <1>22 DEF ReadLatest
<1>23. CASE WriteRefused
  BY <1>23 DEF WriteRefused, Finish
<1>24. CASE Write
  BY <1>24 DEF Write, Resumes
<1>25. CASE Stop
  BY <1>25 DEF Stop, LarkFree, StopInternal
<1>26. CASE ToolEnds
  BY <1>26 DEF ToolEnds
<1>27. CASE CancelLogin
  BY <1>27 DEF CancelLogin
<1>28. CASE CancelLate
  BY <1>28 DEF CancelLate
<1>29. CASE HealthWakes
  BY <1>29 DEF HealthWakes
<1>30. CASE ExitSeen
  BY <1>30 DEF ExitSeen
<1>31. CASE LarkOver
  BY <1>31 DEF LarkOver, larkvars
<1>32. ASSUME NEW b \in BOOLEAN, Listens(b) PROVE UnderWatch'
  BY <1>32 DEF Listens, Watch, Goto
<1>33. ASSUME NEW b \in BOOLEAN, ToolOver(b) PROVE UnderWatch'
  BY <1>33 DEF ToolOver
<1>34. ASSUME NEW w \in {"start", "login", "logout"}, Begin(w) PROVE UnderWatch'
  BY <1>34 DEF Begin, LarkFree
<1>35. ASSUME NEW b \in BOOLEAN, NEW p \in BOOLEAN, Probed(b, p) PROVE UnderWatch'
  BY <1>35 DEF Probed
<1>36. ASSUME NEW s \in live, ServerExits(s) PROVE UnderWatch'
  BY <1>36 DEF ServerExits
<1>37. ASSUME NEW w \in {"revoke", "move", "other"}, BeginEdit(w) PROVE UnderWatch'
  BY <1>37 DEF BeginEdit, MayEdit
<1>38. ASSUME NEW b \in BOOLEAN, EndEdit(b) PROVE UnderWatch'
  BY <1>38 DEF EndEdit
<1>39. CASE UNCHANGED larkvars
  BY <1>39 DEF larkvars
<1>40. QED
  BY <1>1, <1>2, <1>3, <1>4, <1>5, <1>6, <1>7, <1>8, <1>9, <1>10, <1>11, <1>12, <1>13, <1>14, <1>15, <1>16,
     <1>17, <1>18, <1>19, <1>20, <1>21, <1>22, <1>23, <1>24, <1>25, <1>26, <1>27, <1>28, <1>29, <1>30, <1>31,
        <1>32, <1>33, <1>34, <1>35, <1>36, <1>37, <1>38, <1>39 DEF LarkNext, Operation

(* and, where nobody disturbs it, the server of the operation.             *)
LEMMA LarkUndisturbed ==
  ASSUME LarkAssumption, LarkInv, ~MayCancel, MaxSaves = 0, [LarkNext]_larkvars
  PROVE  Undisturbed'
<1>0. LarkAssumption /\ LarkTypes /\ OneServer /\ Placed /\ OfStop /\ UnderWatch
  BY DEF LarkInv
<1>s. saves \in Nat /\ MaxSaves \in Nat /\ ~(saves < MaxSaves)
  BY DEF LarkInv, LarkTypes, Numbers, LarkAssumption
<1>z. ~MayCancel /\ MaxSaves = 0 /\ Undisturbed
  BY DEF LarkInv
<1> USE <1>0, <1>z DEF LarkTypes, Words, IdleUnclaimed, Numbers, Flags, OneServer, Open, Placed, UnderWatch,
   Overseen, Undisturbed, Running, Transient, opVars, processes, loginVars, watchers, settings
<1>1. CASE Read
  BY <1>1 DEF Read, Finish
<1>2. CASE GateFails
  BY <1>2 DEF GateFails, Finish
<1>3. CASE StartGates
  BY <1>3 DEF StartGates, Goto
<1>4. CASE PortChecked
  BY <1>4 DEF PortChecked, Goto
<1>5. CASE Starting
  BY <1>5 DEF Starting, Teardown, CancelWatchers, Goto
<1>6. CASE TornForSpawn
  BY <1>6 DEF TornForSpawn, Gone, Goto
<1>7. CASE SpawnLark
  BY <1>7 DEF SpawnLark, Goto
<1>8. CASE StartFails
  BY <1>8 DEF StartFails, Teardown, CancelWatchers
<1>9. CASE StartFailed
  BY <1>9 DEF StartFailed, Gone, Goto
<1>10. CASE End
  BY <1>10 DEF End, Finish
<1>11. CASE Stopping
  BY <1>11 DEF Stopping, Teardown, CancelWatchers
<1>12. CASE TakeOwner
  BY <1>12 DEF TakeOwner, Release, Goto
<1>13. CASE Stopped
  BY <1>13 DEF Stopped, Gone, Goto
<1>14. CASE LoginGates
  BY <1>14 DEF LoginGates, StopInternal
<1>15. CASE StoppedForLogin
  BY <1>15 DEF StoppedForLogin, Gone, Goto
<1>16. CASE Announced
  BY <1>16 DEF Announced, Goto
<1>17. CASE LogoutGates
  BY <1>17 DEF LogoutGates, LogoutStops, StopInternal
<1>18. CASE StoppedForLogout
  BY <1>18 DEF StoppedForLogout, Gone, Goto
<1>19. CASE ToolStarts
  BY <1>19 DEF ToolStarts, Goto
<1>20. CASE ToolFails
  BY <1>20 DEF ToolFails
<1>21. CASE CleanedUp
  BY <1>21 DEF CleanedUp, Goto
<1>22. CASE ReadLatest
  BY <1>22 DEF ReadLatest
<1>23. CASE WriteRefused
  BY <1>23 DEF WriteRefused, Finish
<1>24. CASE Write
  BY <1>24 DEF Write, Resumes
<1>25. CASE Stop
  BY <1>25 DEF Stop, LarkFree, StopInternal
<1>26. CASE ToolEnds
  BY <1>26 DEF ToolEnds
<1>27. CASE CancelLogin
  BY <1>27 DEF CancelLogin
<1>28. CASE CancelLate
  BY <1>28 DEF CancelLate
<1>29. CASE HealthWakes
  BY <1>29 DEF HealthWakes
<1>30. CASE ExitSeen
  BY <1>30 DEF ExitSeen
<1>31. CASE LarkOver
  BY <1>31 DEF LarkOver, larkvars
<1>32. ASSUME NEW b \in BOOLEAN, Listens(b) PROVE Undisturbed'
  BY <1>32 DEF Listens, Watch, Goto
<1>33. ASSUME NEW b \in BOOLEAN, ToolOver(b) PROVE Undisturbed'
  BY <1>33 DEF ToolOver
<1>34. ASSUME NEW w \in {"start", "login", "logout"}, Begin(w) PROVE Undisturbed'
  BY <1>34 DEF Begin, LarkFree
<1>35. ASSUME NEW b \in BOOLEAN, NEW p \in BOOLEAN, Probed(b, p) PROVE Undisturbed'
  BY <1>35 DEF Probed
<1>36. ASSUME NEW s \in live, ServerExits(s) PROVE Undisturbed'
  BY <1>36 DEF ServerExits
<1>37. ASSUME NEW w \in {"revoke", "move", "other"}, BeginEdit(w) PROVE Undisturbed'
  BY ONLY <1>s, <1>37 DEF BeginEdit
<1>38. ASSUME NEW b \in BOOLEAN, EndEdit(b) PROVE Undisturbed'
  BY <1>38 DEF EndEdit
<1>39. CASE UNCHANGED larkvars
  BY <1>39 DEF larkvars
<1>40. QED
  BY <1>1, <1>2, <1>3, <1>4, <1>5, <1>6, <1>7, <1>8, <1>9, <1>10, <1>11, <1>12, <1>13, <1>14, <1>15, <1>16,
     <1>17, <1>18, <1>19, <1>20, <1>21, <1>22, <1>23, <1>24, <1>25, <1>26, <1>27, <1>28, <1>29, <1>30, <1>31,
        <1>32, <1>33, <1>34, <1>35, <1>36, <1>37, <1>38, <1>39 DEF LarkNext, Operation

(* Every step keeps the invariant.                                         *)
LEMMA LarkKept ==
  ASSUME LarkAssumption, LarkInv, [LarkNext]_larkvars
  PROVE  LarkInv'
BY LarkWords, LarkIdle, LarkNumbers, LarkFlags, LarkPlaced, LarkOneServer, LarkWatched,
   LarkUndisturbed DEF LarkInv, LarkTypes

(* The invariant holds before the first operation.                         *)
LEMMA LarkAtFirst ==
  ASSUME LarkAssumption, LarkInit
  PROVE  LarkInv
<1>1. LarkTypes
  <2>1. Words
    BY DEF LarkInit, Words
  <2>0. IdleUnclaimed
    BY DEF LarkInit, IdleUnclaimed
  <2>2. Numbers
    BY DEF LarkInit, LarkAssumption, Numbers
  <2>3. Flags
    BY DEF LarkInit, Flags
  <2>4. QED
    BY <2>1, <2>0, <2>2, <2>3 DEF LarkTypes
<1>2. OneServer /\ Placed /\ OfStop /\ UnderWatch /\ Undisturbed
  BY DEF LarkInit, OneServer, Open, Placed, LarkPcs, OfStop, UnderWatch, Running, Transient, Undisturbed
<1>3. QED
  BY <1>1, <1>2 DEF LarkInv

(* The managed MCP server, through starts, stops, logins that are          *)
(* cancelled and settings saved meanwhile: one server at most is not being *)
(* ended, the one that the service can end, and a state that serves is     *)
(* watched.  Where no login is cancelled and nothing saved, a state that   *)
(* passes belongs to an operation, stopped means stopped, and a login or   *)
(* logout has the port and the token storage to itself.                    *)
THEOREM LarkIsSafe ==
  ASSUME LarkAssumption
  PROVE  LarkSpec => []LarkSafe
<1>1. LarkInit => LarkInv
  BY LarkAtFirst
<1>2. LarkInv /\ [LarkNext]_larkvars => LarkInv'
  BY LarkKept
<1>3. LarkInv => LarkSafe
  <2> SUFFICES ASSUME LarkInv PROVE LarkSafe
    OBVIOUS
  <2>1. ServingIsWatched
    BY DEF ServingIsWatched, LarkInv, UnderWatch, Overseen, LarkTypes, IdleUnclaimed
  <2>2. ASSUME ~MayCancel /\ MaxSaves = 0
        PROVE  TransientIsClaimed /\ StoppedIsStopped /\ ToolAlone
    <3>1. Undisturbed /\ Words /\ IdleUnclaimed /\ doomed \subseteq live
      BY <2>2 DEF LarkInv, LarkTypes, Numbers
    <3>2. TransientIsClaimed /\ StoppedIsStopped
      BY <3>1 DEF TransientIsClaimed, StoppedIsStopped, Undisturbed, Words, IdleUnclaimed
    <3>3. ToolAlone
      BY <3>1 DEF ToolAlone, Undisturbed, Open
    <3>4. QED
      BY <3>2, <3>3
  <2>3. QED
    BY <2>1, <2>2, LarkTypesAre DEF LarkSafe, LarkInv
<1>4. QED
  BY <1>1, <1>2, <1>3, PTL DEF LarkSpec

(* A stop gives up its claim at its end only, where no server is left to   *)
(* end.                                                                    *)
LEMMA StopEnds ==
  ASSUME LarkAssumption, LarkInv, [LarkNext]_larkvars
  PROVE  StopStops
<1> SUFFICES ASSUME claimed = "stop", claimed' = "none" PROVE larkState' = "stopped" /\ Open = {}
  BY DEF StopStops
<1>1. /\ pc \in {"stopping", "watchers", "exit", "end"} /\ ~loginTask
      /\ pc = "end" => larkState = "stopped" /\ larkOwner = 0
      /\ OneServer /\ 0 \notin live
  BY DEF LarkInv, OfStop, Placed, LarkTypes, IdleUnclaimed, Numbers, Flags
<1>2. pc = "end" /\ larkState' = larkState
  <2>1. CASE Read \/ GateFails \/ WriteRefused \/ ToolFails \/ Write
    BY <1>1, <2>1 DEF Read, GateFails, WriteRefused, ToolFails, Write
  <2>2. CASE End
    BY <2>2 DEF End
  <2>3. CASE StartGates \/ PortChecked \/ Starting \/ TornForSpawn \/ SpawnLark \/ StartFails \/ StartFailed
             \/ (\E b \in BOOLEAN : Listens(b)) \/ Stopping \/ TakeOwner \/ Stopped
    BY <2>3 DEF StartGates, Goto, PortChecked, Starting, Teardown, TornForSpawn, SpawnLark, StartFails,
       StartFailed, Listens,
       Stopping, TakeOwner, Stopped
  <2>4. CASE LoginGates \/ StoppedForLogin \/ Announced \/ LogoutGates \/ StoppedForLogout \/ ToolStarts
             \/ (\E b \in BOOLEAN : ToolOver(b)) \/ CleanedUp \/ ReadLatest
    BY <2>4 DEF LoginGates, StoppedForLogin, Announced, LogoutGates, StoppedForLogout, ToolStarts, ToolOver,
       CleanedUp,
       ReadLatest, Goto
  <2>5. CASE Stop \/ LarkOver \/ \E w \in {"start", "login", "logout"} : Begin(w)
    BY <2>5 DEF Stop, LarkFree, LarkOver, Begin
  <2>6. CASE ToolEnds \/ CancelLogin \/ CancelLate \/ HealthWakes \/ ExitSeen \/ UNCHANGED larkvars
    BY <1>1, <2>6 DEF ToolEnds, CancelLogin, CancelLate, HealthWakes, ExitSeen, opVars, larkvars
  <2>7. CASE \/ \E ok, patched \in BOOLEAN : Probed(ok, patched)
             \/ \E s \in live : ServerExits(s)
             \/ \E what \in {"revoke", "move", "other"} : BeginEdit(what)
             \/ \E accepted \in BOOLEAN : EndEdit(accepted)
    BY <2>7 DEF Probed, ServerExits, BeginEdit, EndEdit, opVars
  <2>8. QED
    BY <2>1, <2>2, <2>3, <2>4, <2>5, <2>6, <2>7 DEF LarkNext, Operation
<1>3. QED
  BY <1>1, <1>2 DEF OneServer, Open

(* The login is forgotten by the write of a logout, which has stopped the  *)
(* server.                                                                 *)
LEMMA ClearedStopped ==
  ASSUME LarkAssumption, LarkInv, ~MayCancel, MaxSaves = 0, [LarkNext]_larkvars
  PROVE  ClearedWhileStopped
<1> SUFFICES ASSUME loggedIn' # loggedIn PROVE Open = {}
  BY DEF ClearedWhileStopped
<1>1. pc = "write"
  BY DEF LarkNext, Operation, larkvars, settings, Read, GateFails, StartGates, PortChecked, Starting,
     TornForSpawn, SpawnLark, StartFails, StartFailed, Listens, End, Stopping, TakeOwner, Stopped, LoginGates,
     StoppedForLogin, Announced, LogoutGates, StoppedForLogout, ToolStarts, ToolFails, ToolOver, CleanedUp,
     ReadLatest,
     WriteRefused, Write, Stop, ToolEnds, CancelLogin, CancelLate, HealthWakes, ExitSeen, Begin, Probed,
     ServerExits, BeginEdit, EndEdit, LarkOver
<1>2. QED
  BY <1>1 DEF LarkInv, Undisturbed

(* What no step does: answer a stop while a server runs that was not told  *)
(* to end; and, where nothing is cancelled or saved meanwhile, forget the  *)
(* login while a server holds its tokens.                                  *)
THEOREM LarkStepsSafe ==
  ASSUME LarkAssumption
  PROVE  LarkSpec => [][StopStops /\ (~MayCancel /\ MaxSaves = 0 => ClearedWhileStopped)]_larkvars
<1>1. LarkInit => LarkInv
  BY LarkAtFirst
<1>2. LarkInv /\ [LarkNext]_larkvars
        => LarkInv' /\ StopStops /\ (~MayCancel /\ MaxSaves = 0 => ClearedWhileStopped)
  BY LarkKept, StopEnds, ClearedStopped
<1>3. QED
  BY <1>1, <1>2, PTL DEF LarkSpec
=============================================================================

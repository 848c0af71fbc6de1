-------------------------- MODULE AiSessionsProofs --------------------------
(***************************************************************************)
(* Sessions, their tasks and their processes agree, for any number of      *)
(* requests, sessions, auxiliary calls, limits and crashes of the backend. *)
(***************************************************************************)
EXTENDS AiSessions, AiChat, FiniteSetTheorems, TLAPS

Inside   == {"locked", "storing", "stored"}
EndReasons  == {"user_closed", "process_exited", "interrupted_on_exit", "startFailed"}
AtWork  == {"starting", "started", "serving"} \cup EndReasons
RowRec   == [state: {"none", "starting", "idle", "closing"} \cup Terminal,
             reason: {"none", "deleted", "backend_restart", "start_failed"} \cup EndReasons]

Types ==
  /\ backend \in {"up", "closing", "down"} /\ lock \in Callers \cup {Free}
  /\ caller \in [Callers -> {"idle", "done", "refused", "cancelled", "lost"} \cup Inside]
  /\ aux \in [Aux -> {"idle", "reserved", "done"}]
  /\ row \in [Sid -> RowRec] /\ record \in [Sid -> {"none", "open", "ended"}] /\ active \subseteq Sid
  /\ task \in [Sid -> {"none", "done"} \cup AtWork]
  /\ order \in [Sid -> {"none", "user_closed", "interrupted_on_exit"}]
  /\ proc \in [Sid -> {"none", "up", "dying", "gone"}] /\ pid \in [Sid -> {"ours", "foreign", "nobody"}]

(* Who is inside create holds the lock.  It has counted, and nobody else   *)
(* adds a session before it does: its own has no task yet.                 *)
Room(s) == Cardinality(active) < KindLimit /\ Cardinality(Sessions(CliOf(s))) < CliLimit
Creating ==
  \A c \in Callers :
    /\ caller[c] \in Inside => lock = c
    /\ caller[c] = "storing" => row[RequestOf(c)] = NoRow /\ Room(RequestOf(c))
    /\ caller[c] = "stored" => /\ row[RequestOf(c)].state = "starting" /\ RequestOf(c) \notin active
                               /\ Room(RequestOf(c))

(* A session is active as long as its task works, which is before its row  *)
(* ends; and only a task that works has a process which is not dying.      *)
Owned ==
  \A s \in Sid :
    /\ s \in active <=> task[s] \in AtWork
    /\ s \in active => row[s].state \notin Terminal \cup {"none"}
    /\ row[s].state = "none" => row[s] = NoRow
    /\ proc[s] = "up" => s \in active

(* A backend that is down has nothing.                                     *)
Nothing ==
  backend = "down" => /\ active = {} /\ lock = Free /\ \A c \in Callers : caller[c] \notin Inside

SessionsInv ==
  /\ Types /\ Creating /\ Owned /\ Nothing /\ SessionsWithinLimits /\ NoForeignKill
  /\ ~ MayCancel => LiveIsOwned

-----------------------------------------------------------------------------
(* Counting                                                                *)

LEMMA CountsAre ==
  ASSUME SessionsAssumption, active \subseteq Sid, NEW k
  PROVE  /\ IsFiniteSet(active) /\ IsFiniteSet(Sessions(k)) /\ IsFiniteSet(Reserved(k))
         /\ Cardinality(active) \in Nat /\ Cardinality(Sessions(k)) \in Nat /\ Cardinality(Reserved(k)) \in Nat
<1>1. Sessions(k) \subseteq Sid /\ Reserved(k) \subseteq Aux
  BY DEF Sessions, Reserved
<1>2. QED
  BY <1>1, FS_Subset, FS_CardinalityType DEF SessionsAssumption

(* Fewer sessions: the limits and the room are kept.                       *)
LEMMA FewerSessions ==
  ASSUME SessionsAssumption, active \subseteq Sid, active' \subseteq active
  PROVE  /\ SessionsWithinLimits => SessionsWithinLimits'
         /\ \A s \in Sid : Room(s) => Room(s)'
<1>1. \A k : /\ Cardinality(Sessions(k)') <= Cardinality(Sessions(k))
             /\ Cardinality(Sessions(k)') \in Nat /\ Cardinality(Sessions(k)) \in Nat
  <2> TAKE k
  <2>1. Sessions(k)' \subseteq Sessions(k)
    BY DEF Sessions
  <2>2. IsFiniteSet(Sessions(k)) /\ Cardinality(Sessions(k)) \in Nat
    BY CountsAre
  <2>3. QED
    BY <2>1, <2>2, FS_Subset, FS_CardinalityType
<1>2. Cardinality(active') <= Cardinality(active) /\ Cardinality(active') \in Nat /\ Cardinality(active) \in Nat
  <2>1. IsFiniteSet(active) /\ Cardinality(active) \in Nat
    BY CountsAre
  <2>2. QED
    BY <2>1, FS_Subset, FS_CardinalityType
<1>3. KindLimit \in Nat /\ CliLimit \in Nat
  BY DEF SessionsAssumption
<1>4. SessionsWithinLimits => SessionsWithinLimits'
  <2> SUFFICES ASSUME SessionsWithinLimits
               PROVE  SessionsWithinLimits'
    OBVIOUS
  <2>1. Cardinality(active') <= KindLimit
    BY <1>2, <1>3 DEF SessionsWithinLimits
  <2>2. \A s \in Sid : Cardinality(Sessions(CliOf(s))') <= CliLimit
    BY <1>1, <1>3 DEF SessionsWithinLimits
  <2>3. QED
    BY <2>1, <2>2 DEF SessionsWithinLimits
<1>5. ASSUME NEW s \in Sid, Room(s)
      PROVE  Room(s)'
  <2>1. Cardinality(active') < KindLimit
    BY <1>2, <1>3, <1>5 DEF Room
  <2>2. Cardinality(Sessions(CliOf(s))') < CliLimit
    BY <1>1, <1>3, <1>5 DEF Room
  <2>3. QED
    BY <2>1, <2>2 DEF Room
<1>6. QED
  BY <1>4, <1>5

(* One session more, for which there was room.                             *)
LEMMA OneMoreSession ==
  ASSUME SessionsAssumption, active \subseteq Sid, SessionsWithinLimits, NEW s \in Sid, Room(s),
         active' = active \cup {s}
  PROVE  SessionsWithinLimits'
<1>1. IsFiniteSet(active) /\ Cardinality(active) \in Nat
  BY CountsAre
<1>2. Cardinality(active') <= Cardinality(active) + 1
  <2>1. Cardinality(active \cup {s}) = IF s \in active THEN Cardinality(active) ELSE Cardinality(active) + 1
    BY <1>1, FS_AddElement, Zenon
  <2>2. active' = active \cup {s}
    OBVIOUS
  <2>3. QED
    BY <1>1, <2>1, <2>2
<1>3. KindLimit \in Nat /\ CliLimit \in Nat /\ active' \subseteq Sid
  BY DEF SessionsAssumption
<1>4. Cardinality(active') \in Nat
  BY <1>3, FS_Subset, FS_CardinalityType DEF SessionsAssumption
<1>5. Cardinality(active') <= KindLimit
  BY <1>1, <1>2, <1>3, <1>4 DEF Room
<1>6. ASSUME NEW x \in Sid
      PROVE  Cardinality(Sessions(CliOf(x))') <= CliLimit
  <2> DEFINE S == Sessions(CliOf(x))
  <2>1. IsFiniteSet(S) /\ Cardinality(S) \in Nat /\ Cardinality(S) <= CliLimit
    BY CountsAre DEF SessionsWithinLimits
  <2>2. CASE CliOf(x) = CliOf(s)
    <3>1. Sessions(CliOf(x))' = S \cup {s}
      BY <2>2 DEF Sessions
    <3>2. Cardinality(S \cup {s}) <= Cardinality(S) + 1 /\ Cardinality(S \cup {s}) \in Nat
      <4> HIDE DEF S
      <4>1. IsFiniteSet(S \cup {s}) /\ Cardinality(S \cup {s}) = IF s \in S THEN Cardinality(S) ELSE Cardinality(S) + 1
        BY <2>1, FS_AddElement, Zenon
      <4>2. QED
        BY <2>1, <4>1, FS_CardinalityType
    <3>3. Cardinality(S) < CliLimit
      BY <2>2 DEF Room
    <3> HIDE DEF S
    <3>4. QED
      BY <1>3, <2>1, <3>1, <3>2, <3>3
  <2>3. CASE CliOf(x) # CliOf(s)
    <3>1. Sessions(CliOf(x))' = S
      BY <2>3 DEF Sessions
    <3>2. QED
      BY <2>1, <3>1
  <2>4. QED
    BY <2>2, <2>3
<1>7. QED
  BY <1>5, <1>6 DEF SessionsWithinLimits

-----------------------------------------------------------------------------
LEMMA RowIsTyped ==
  ASSUME NEW state \in {"starting", "idle", "closing"} \cup Terminal, 
         NEW reason \in {"none", "deleted", "backend_restart", "start_failed"} \cup EndReasons
  PROVE  /\ Row(state, reason) \in RowRec /\ Row(state, reason).state = state
         /\ NoRow \in RowRec /\ NoRow.state = "none"
BY DEF Row, RowRec, NoRow

LEMMA SessionsAtFirst ==
  ASSUME SessionsAssumption, Init
  PROVE  SessionsInv
<1> USE DEF Init
<1>1. NoRow \in RowRec /\ NoRow.state = "none"
  BY DEF RowRec, NoRow
<1>2. Types
  BY <1>1 DEF Types
<1>3. Creating /\ Nothing
  BY DEF Creating, Inside, Nothing
<1>4. Owned
  BY <1>1 DEF Owned, AtWork, EndReasons
<1>5. SessionsWithinLimits
  <2>1. Cardinality({}) = 0 /\ \A k : Sessions(k) = {}
    BY FS_EmptySet DEF Sessions
  <2>2. QED
    BY <2>1 DEF SessionsWithinLimits, SessionsAssumption
<1>6. NoForeignKill /\ LiveIsOwned
  BY <1>1 DEF NoForeignKill, LiveIsOwned
<1>7. QED
  BY <1>2, <1>3, <1>4, <1>5, <1>6 DEF SessionsInv

-----------------------------------------------------------------------------
(* A step of one session, which leaves the others and create alone.        *)
LEMMA SessionKeeps ==
  ASSUME SessionsAssumption, SessionsInv, NEW s \in Sid, Types', UNCHANGED <<backend, caller, lock, struck>>,
         active' \subseteq active,
         \A x \in Sid : x # s => /\ row'[x] = row[x] /\ proc'[x] = proc[x] /\ task'[x] = task[x]
                                 /\ x \in active' <=> x \in active,
         row[s].state = "none" => row'[s] = row[s],
         row[s].state = "starting" /\ s \notin active => row'[s].state = "starting",
         s \in active' <=> task'[s] \in AtWork,
         s \in active' => row'[s].state \notin Terminal \cup {"none"},
         row'[s].state = "none" => row'[s] = NoRow,
         proc'[s] = "up" => s \in active',
         row'[s].state \notin Terminal \cup {"none"} =>
           row[s].state \notin Terminal \cup {"none"} /\ (s \in active => s \in active')
  PROVE  SessionsInv'
<1> USE DEF SessionsInv
<1>1. active \subseteq Sid /\ \A c \in Callers : RequestOf(c) \in Sid
  BY DEF Types, SessionsAssumption
<1>2. SessionsWithinLimits' /\ \A x \in Sid : Room(x) => Room(x)'
  BY <1>1, FewerSessions
<1>3. Owned'
  BY DEF Owned
<1>4. Creating'
  <2> SUFFICES ASSUME NEW c \in Callers
               PROVE  /\ caller[c] \in Inside => lock = c
                      /\ caller[c] = "storing" => row'[RequestOf(c)] = NoRow /\ Room(RequestOf(c))'
                      /\ caller[c] = "stored" => /\ row'[RequestOf(c)].state = "starting"
                                                 /\ RequestOf(c) \notin active' /\ Room(RequestOf(c))'
    BY DEF Creating
  <2>1. caller[c] \in Inside => lock = c
    BY DEF Creating
  <2>2. ASSUME caller[c] = "storing"
        PROVE  row'[RequestOf(c)] = NoRow /\ Room(RequestOf(c))'
    <3>1. row[RequestOf(c)] = NoRow /\ Room(RequestOf(c))
      BY <2>2 DEF Creating
    <3>2. NoRow.state = "none"
      BY DEF NoRow
    <3>3. QED
      BY <1>1, <1>2, <3>1, <3>2
  <2>3. ASSUME caller[c] = "stored"
        PROVE  /\ row'[RequestOf(c)].state = "starting"
               /\ RequestOf(c) \notin active' /\ Room(RequestOf(c))'
    <3>1. row[RequestOf(c)].state = "starting" /\ Room(RequestOf(c)) /\ RequestOf(c) \notin active
      BY <2>3 DEF Creating
    <3>2. QED
      BY <1>1, <1>2, <3>1
  <2>4. QED
    BY <2>1, <2>2, <2>3
<1>5. Nothing'
  BY DEF Nothing
<1>6. NoForeignKill'
  BY DEF NoForeignKill
<1>7. ~ MayCancel => LiveIsOwned'
  BY DEF LiveIsOwned
<1>8. QED
  BY <1>2, <1>3, <1>4, <1>5, <1>6, <1>7

(* StartProcess, RecordProcess, Serve: the task of a session               *)
LEMMA TaskKeeps ==
  ASSUME SessionsAssumption, SessionsInv, NEW s \in Sid, StartProcess(s) \/ RecordProcess(s) \/ Serve(s)
  PROVE  SessionsInv'
<1> USE DEF SessionsInv
<1>0. UNCHANGED <<backend, caller, lock, aux, struck, active>> /\ task[s] \in AtWork
  BY DEF StartProcess, RecordProcess, Serve, Quiet, os, AtWork
<1>b. PICK to \in AtWork : task' = [task EXCEPT ![s] = to]
  <2>1. CASE StartProcess(s) \/ RecordProcess(s)
    BY <2>1 DEF StartProcess, RecordProcess, Step, AtWork, EndReasons
  <2>2. CASE Serve(s)
    <3>1. order[s] # "none" => order[s] \in AtWork
      BY DEF Types, AtWork, EndReasons
    <3>2. "process_exited" \in AtWork
      BY DEF AtWork, EndReasons
    <3>3. QED
      BY <2>2, <3>1, <3>2 DEF Serve, Step
  <2>3. QED
    BY <2>1, <2>2
<1>1. UNCHANGED <<backend, caller, lock, aux, struck, active>> /\ task[s] \in AtWork /\ task'[s] \in AtWork
  BY <1>0, <1>b DEF Types
<1>2. s \in active /\ row[s].state \notin Terminal \cup {"none"}
  BY <1>1 DEF Owned
<1>3. /\ row' \in [Sid -> RowRec] /\ row'[s].state \notin Terminal \cup {"none"}
      /\ \A x \in Sid : x # s => row'[x] = row[x]
  <2>1. /\ Row("idle", "none") \in RowRec /\ Row("idle", "none").state = "idle"
        /\ Row("closing", "none") \in RowRec /\ Row("closing", "none").state = "closing"
    BY RowIsTyped
  <2>2. CASE UNCHANGED row
    BY <1>2, <2>2 DEF Types
  <2>3. CASE row' = [row EXCEPT ![s] = Row("idle", "none")] \/ row' = [row EXCEPT ![s] = Row("closing", "none")]
    BY <2>1, <2>3 DEF Types, Terminal
  <2>4. QED
    BY <2>2, <2>3 DEF StartProcess, RecordProcess, Serve
<1>4. /\ proc' \in [Sid -> {"none", "up", "dying", "gone"}] /\ pid' \in [Sid -> {"ours", "foreign", "nobody"}]
      /\ \A x \in Sid : x # s => proc'[x] = proc[x]
  BY DEF StartProcess, RecordProcess, Serve, Types, os
<1>5. record' \in [Sid -> {"none", "open", "ended"}] /\ order' \in [Sid -> {"none", "user_closed", "interrupted_on_exit"}]
  BY DEF StartProcess, RecordProcess, Serve, Types
<1>6. task' \in [Sid -> {"none", "done"} \cup AtWork] /\ \A x \in Sid : x # s => task'[x] = task[x]
  BY <1>b DEF Types
<1>7. Types'
  BY <1>1, <1>3, <1>4, <1>5, <1>6 DEF Types
<1>8. QED
  BY <1>1, <1>2, <1>3, <1>4, <1>6, <1>7, SessionKeeps DEF Terminal

(* Its end, once its process is closed                                     *)
LEMMA EndSessionKeeps ==
  ASSUME SessionsAssumption, SessionsInv, NEW s \in Sid, EndSession(s)
  PROVE  SessionsInv'
<1> USE DEF SessionsInv, EndSession
<1>1. task[s] \in EndReasons /\ task[s] \in AtWork
  BY DEF Ending, EndReasons, AtWork
<1>2. s \in active /\ row[s].state \notin Terminal \cup {"none"}
  BY <1>1 DEF Owned
<1>3. PICK r \in RowRec : r.state \in Terminal /\ row' = [row EXCEPT ![s] = r]
  <2>1. CASE task[s] = "startFailed"
    <3>1. "failed" \in Terminal
      BY DEF Terminal
    <3>2. Row("failed", "start_failed") \in RowRec /\ Row("failed", "start_failed").state = "failed"
      BY <3>1, RowIsTyped
    <3>3. QED
      BY <2>1, <3>1, <3>2
  <2>2. CASE task[s] # "startFailed"
    <3>1. "ended" \in Terminal
      BY DEF Terminal
    <3>2. Row("ended", task[s]) \in RowRec /\ Row("ended", task[s]).state = "ended"
      BY <1>1, <3>1, RowIsTyped
    <3>3. QED
      BY <2>2, <3>1, <3>2
  <2>3. QED
    BY <2>1, <2>2
<1>4. row' \in [Sid -> RowRec] /\ row'[s] = r /\ \A x \in Sid : x # s => row'[x] = row[x]
  BY <1>3 DEF Types
<1>5. task' \in [Sid -> {"none", "done"} \cup AtWork] /\ task'[s] = "done" /\ "done" \notin AtWork
      /\ \A x \in Sid : x # s => task'[x] = task[x]
  BY DEF Types, Step, AtWork, EndReasons
<1>6. Types'
  BY <1>4, <1>5 DEF Types, Quiet, os
<1>7. proc'[s] # "up" /\ UNCHANGED <<backend, caller, lock, struck, proc>> /\ active' = active \ {s}
  BY DEF ProcessClosed, Quiet, os
<1>8. "none" \notin Terminal
  BY DEF Terminal
<1>9. QED
  BY <1>2, <1>3, <1>4, <1>5, <1>6, <1>7, <1>8, SessionKeeps

(* The processes, their end, and the close message                         *)
LEMMA ProcessKeeps ==
  ASSUME SessionsAssumption, SessionsInv, NEW s \in Sid,
         CloseProcess(s) \/ Reap(s) \/ Exits(s) \/ Reuse(s) \/ UserCloses(s)
  PROVE  SessionsInv'
<1> USE DEF SessionsInv
<1>1. UNCHANGED <<backend, caller, lock, aux, active, task, row, record, struck>>
  BY DEF CloseProcess, Reap, Exits, Reuse, UserCloses, Quiet, mem, os
<1>2. /\ proc' \in [Sid -> {"none", "up", "dying", "gone"}] /\ pid' \in [Sid -> {"ours", "foreign", "nobody"}]
      /\ \A x \in Sid : proc'[x] = "up" => proc[x] = "up"
      /\ \A x \in Sid : x # s => proc'[x] = proc[x]
  BY DEF CloseProcess, Reap, Exits, Reuse, UserCloses, Types, os
<1>3. order' \in [Sid -> {"none", "user_closed", "interrupted_on_exit"}]
  BY DEF CloseProcess, Reap, Exits, Reuse, UserCloses, Types, mem
<1>4. Types'
  BY <1>1, <1>2, <1>3 DEF Types
<1>5. QED
  BY <1>1, <1>2, <1>4, SessionKeeps DEF Owned

LEMMA DeleteKeeps ==
  ASSUME SessionsAssumption, SessionsInv, NEW s \in Sid, Delete(s)
  PROVE  SessionsInv'
<1> USE DEF SessionsInv, Delete
<1>1. UNCHANGED <<backend, caller, lock, aux, active, task, order, proc, pid, struck>>
  BY DEF Quiet, os
<1>2. row[s] \in RowRec
  BY DEF Types
<1>3. PICK r \in RowRec : r.state = row[s].state /\ row' = [row EXCEPT ![s] = r]
  <2>1. [row[s] EXCEPT !.reason = "deleted"] \in RowRec /\ [row[s] EXCEPT !.reason = "deleted"].state = row[s].state
    BY <1>2 DEF RowRec
  <2>2. row' = [row EXCEPT ![s] = [row[s] EXCEPT !.reason = "deleted"]]
    OBVIOUS
  <2>3. QED
    BY <2>1, <2>2
<1>4. row' \in [Sid -> RowRec] /\ row'[s].state = row[s].state /\ \A x \in Sid : x # s => row'[x] = row[x]
  BY <1>3 DEF Types
<1>5. Types'
  BY <1>1, <1>4 DEF Types
<1>6. row[s].state \in Terminal /\ "none" \notin Terminal /\ "starting" \notin Terminal
  BY DEF Terminal
<1>7. QED
  BY <1>1, <1>4, <1>5, <1>6, SessionKeeps DEF Owned

-----------------------------------------------------------------------------
(* create: one caller holds the lock                                       *)
LEMMA CallerIs ==
  ASSUME NEW c \in Callers, NEW to, caller \in [Callers -> {"idle", "done", "refused", "cancelled", "lost"} \cup Inside],
         to \in {"idle", "done", "refused", "cancelled", "lost"} \cup Inside, Move(c, to)
  PROVE  /\ caller' \in [Callers -> {"idle", "done", "refused", "cancelled", "lost"} \cup Inside]
         /\ caller'[c] = to /\ \A d \in Callers : d # c => caller'[d] = caller[d]
BY DEF Move

LEMMA AcquireKeeps ==
  ASSUME SessionsAssumption, SessionsInv, NEW c \in Callers, Acquire(c)
  PROVE  SessionsInv'
<1> USE DEF SessionsInv, Acquire
<1>1. /\ caller' \in [Callers -> {"idle", "done", "refused", "cancelled", "lost"} \cup Inside]
      /\ caller'[c] = "locked" /\ \A d \in Callers : d # c => caller'[d] = caller[d]
  BY CallerIs DEF Types, Inside
<1>2. UNCHANGED <<backend, aux, active, task, order, proc, pid, struck, row, record>>
  BY DEF Same, os
<1>3. \A d \in Callers : caller[d] \notin Inside
  BY DEF Creating, Acquirable, SessionsAssumption
<1>4. Types'
  BY <1>1, <1>2 DEF Types
<1>5. Creating'
  BY <1>1, <1>3 DEF Creating, Inside
<1>6. Owned' /\ Nothing' /\ NoForeignKill' /\ SessionsWithinLimits'
  BY <1>2 DEF Owned, Nothing, NoForeignKill, SessionsWithinLimits, Sessions
<1>7. ~ MayCancel => LiveIsOwned'
  BY <1>1, <1>2 DEF LiveIsOwned
<1>8. QED
  BY <1>4, <1>5, <1>6, <1>7

LEMMA DecideKeeps ==
  ASSUME SessionsAssumption, SessionsInv, NEW c \in Callers, Decide(c)
  PROVE  SessionsInv'
<1> USE DEF SessionsInv, Decide
<1>1. PICK to \in {"done", "refused", "storing"} :
        /\ Move(c, to) /\ (lock' = IF to = "storing" THEN lock ELSE Free)
        /\ to = "storing" => backend = "up" /\ row[RequestOf(c)] = NoRow /\ Within(RequestOf(c))
  OBVIOUS
<1>2. /\ caller' \in [Callers -> {"idle", "done", "refused", "cancelled", "lost"} \cup Inside]
      /\ caller'[c] = to /\ \A d \in Callers : d # c => caller'[d] = caller[d]
  BY <1>1, CallerIs DEF Types, Inside
<1>3. UNCHANGED <<backend, aux, active, task, order, proc, pid, struck, row, record>>
  BY DEF Same, os
<1>4. /\ caller[c] \in Inside /\ lock = c /\ \A d \in Callers : d # c => caller[d] \notin Inside
      /\ "done" \notin Inside /\ "refused" \notin Inside
  BY DEF Creating, Inside
<1>5. Types'
  BY <1>1, <1>2, <1>3 DEF Types
<1>6. Creating'
  <2>1. to = "storing" => Room(RequestOf(c))
    <3> SUFFICES ASSUME Within(RequestOf(c))
                 PROVE  Room(RequestOf(c))
      BY <1>1
    <3> DEFINE k == CliOf(RequestOf(c))
    <3>1. Cardinality(Sessions(k)) \in Nat /\ Cardinality(Reserved(k)) \in Nat
      BY CountsAre DEF Types
    <3>2. Cardinality(active) < KindLimit /\ Cardinality(Sessions(k)) + Cardinality(Reserved(k)) < CliLimit
      BY DEF Within, Used
    <3>3. CliLimit \in Nat
      BY DEF SessionsAssumption
    <3> HIDE DEF k
    <3>4. Cardinality(Sessions(k)) < CliLimit
      BY <3>1, <3>2, <3>3
    <3>5. QED
      BY <3>2, <3>4 DEF Room, k
  <2>2. Room(RequestOf(c))' <=> Room(RequestOf(c))
    BY <1>3 DEF Room, Sessions
  <2>3. QED
    BY <1>1, <1>2, <1>3, <1>4, <2>1, <2>2 DEF Creating
<1>7. Owned' /\ NoForeignKill' /\ SessionsWithinLimits'
  BY <1>3 DEF Owned, NoForeignKill, SessionsWithinLimits, Sessions
<1>8. Nothing'
  BY <1>3 DEF Nothing, Up
<1>9. ~ MayCancel => LiveIsOwned'
  BY <1>2, <1>3 DEF LiveIsOwned
<1>10. QED
  BY <1>5, <1>6, <1>7, <1>8, <1>9

(* The row of the session is stored: by Store, or by the thread of a       *)
(* caller that gives up.                                                   *)
LEMMA StoreKeeps ==
  ASSUME SessionsAssumption, SessionsInv, NEW c \in Callers, Store(c) \/ CancelCaller(c)
  PROVE  SessionsInv'
<1> USE DEF SessionsInv
<1>1. PICK s \in Sid : s = RequestOf(c)
  BY DEF SessionsAssumption
<1>2. PICK to \in {"stored", "cancelled"} :
        /\ Move(c, to) /\ lock' = (IF to = "stored" THEN lock ELSE Free) /\ (to = "cancelled" => CancelCaller(c))
  BY DEF Store, CancelCaller
<1>3. /\ caller' \in [Callers -> {"idle", "done", "refused", "cancelled", "lost"} \cup Inside]
      /\ caller'[c] = to /\ \A d \in Callers : d # c => caller'[d] = caller[d]
  BY <1>2, CallerIs DEF Types, Inside
<1>4. UNCHANGED <<backend, aux, active, task, order, proc, pid, struck, record>> /\ backend # "down"
  BY DEF Same, os, Store, CancelCaller, Up
<1>5. /\ caller[c] \in {"storing", "stored"} /\ lock = c /\ \A d \in Callers : d # c => caller[d] \notin Inside
      /\ "cancelled" \notin Inside
  BY DEF Creating, Inside, Store, CancelCaller
<1>6. Row("starting", "none") \in RowRec /\ Row("starting", "none").state = "starting" /\ NoRow.state = "none"
  BY RowIsTyped
<1>7. /\ s \notin active /\ row' \in [Sid -> RowRec] /\ row'[s].state = "starting"
      /\ \A x \in Sid : x # s => row'[x] = row[x]
  <2>1. CASE caller[c] = "storing"
    <3>1. row[s] = NoRow
      BY <1>1, <2>1 DEF Creating
    <3>2. s \notin active
      BY <1>6, <3>1 DEF Owned
    <3>3. row' = [row EXCEPT ![s] = Row("starting", "none")]
      BY <1>1, <2>1 DEF Store, CancelCaller
    <3>4. QED
      BY <1>6, <3>2, <3>3 DEF Types
  <2>2. CASE caller[c] = "stored"
    BY <1>1, <2>2 DEF Store, CancelCaller, Creating, Types
  <2>3. QED
    BY <1>5, <2>1, <2>2
<1>8. Types'
  BY <1>2, <1>3, <1>4, <1>7 DEF Types
<1>9. Creating'
  <2>1. Room(s)' <=> Room(s)
    BY <1>4 DEF Room, Sessions
  <2>2. to = "stored" => Room(s)
    BY <1>1, <1>5 DEF Creating
  <2>3. QED
    BY <1>1, <1>2, <1>3, <1>4, <1>5, <1>7, <2>1, <2>2 DEF Creating
<1>10. Owned'
  BY <1>4, <1>7 DEF Owned
<1>11. NoForeignKill' /\ SessionsWithinLimits' /\ Nothing'
  BY <1>4 DEF Nothing, NoForeignKill, SessionsWithinLimits, Sessions
<1>12. ~ MayCancel => LiveIsOwned'
  <2> SUFFICES ASSUME ~ MayCancel
               PROVE  LiveIsOwned'
    OBVIOUS
  <2>1. caller'[c] = "stored" /\ ~ CancelCaller(c)
    BY <1>2, <1>3 DEF CancelCaller
  <2>2. QED
    BY <1>1, <1>3, <1>4, <1>7, <2>1 DEF LiveIsOwned
<1>13. QED
  BY <1>8, <1>9, <1>10, <1>11, <1>12

LEMMA LaunchKeeps ==
  ASSUME SessionsAssumption, SessionsInv, NEW c \in Callers, Launch(c)
  PROVE  SessionsInv'
<1> USE DEF SessionsInv
<1>1. PICK s \in Sid : s = RequestOf(c)
  BY DEF SessionsAssumption
<1>2. /\ caller' \in [Callers -> {"idle", "done", "refused", "cancelled", "lost"} \cup Inside]
      /\ caller'[c] = "done" /\ \A d \in Callers : d # c => caller'[d] = caller[d]
  BY CallerIs DEF Launch, Types, Inside
<1>3. UNCHANGED <<backend, aux, order, proc, pid, struck, row, record>> /\ backend # "down" /\ lock' = Free
  BY DEF Launch, os, Up
<1>4. caller[c] \in Inside /\ "done" \notin Inside /\ \A d \in Callers : d # c => caller[d] \notin Inside
  BY DEF Creating, Inside, Launch
<1>5. row[s].state = "starting" /\ s \notin active /\ Room(s)
  BY <1>1 DEF Creating, Launch
<1>6. active' = active \cup {s} /\ task' = [task EXCEPT ![s] = "starting"] /\ "starting" \in AtWork
  BY <1>1 DEF Launch, AtWork
<1>7. task' \in [Sid -> {"none", "done"} \cup AtWork] /\ task'[s] = "starting" /\ \A x \in Sid : x # s => task'[x] = task[x]
  BY <1>6 DEF Types
<1>8. Types'
  BY <1>2, <1>3, <1>6, <1>7 DEF Types
<1>9. Creating'
  BY <1>2, <1>4 DEF Creating, Inside
<1>10. Owned'
  BY <1>3, <1>5, <1>6, <1>7 DEF Owned, Terminal
<1>11. SessionsWithinLimits'
  BY <1>5, <1>6, OneMoreSession DEF Types
<1>12. NoForeignKill' /\ Nothing'
  BY <1>3 DEF Nothing, NoForeignKill
<1>13. ~ MayCancel => LiveIsOwned'
  BY <1>1, <1>2, <1>3, <1>6 DEF LiveIsOwned
<1>14. QED
  BY <1>8, <1>9, <1>10, <1>11, <1>12, <1>13

-----------------------------------------------------------------------------
(* The auxiliary calls, the shutdown, the end and the next start           *)
LEMMA ReserveKeeps ==
  ASSUME SessionsAssumption, SessionsInv, NEW x \in Aux, Reserve(x) \/ ReleaseCli(x)
  PROVE  SessionsInv'
<1> USE DEF SessionsInv
<1>1. UNCHANGED <<backend, caller, lock, active, task, order, row, record, proc, pid, struck>>
  BY DEF Reserve, ReleaseCli, os
<1>2. aux' \in [Aux -> {"idle", "reserved", "done"}]
  BY DEF Reserve, ReleaseCli, Types
<1>3. Types'
  BY <1>1, <1>2 DEF Types
<1>4. Creating'
  BY <1>1 DEF Creating, Room, Sessions
<1>5. Owned' /\ Nothing' /\ NoForeignKill' /\ SessionsWithinLimits' /\ (~ MayCancel => LiveIsOwned')
  BY <1>1 DEF Owned, Nothing, NoForeignKill, SessionsWithinLimits, Sessions, LiveIsOwned
<1>6. QED
  BY <1>3, <1>4, <1>5

LEMMA ShutdownKeeps ==
  ASSUME SessionsAssumption, SessionsInv, Shutdown
  PROVE  SessionsInv'
<1> USE DEF SessionsInv, Shutdown
<1>1. UNCHANGED <<caller, lock, active, row, record, proc, pid, struck>> /\ backend' = "closing"
  BY DEF os
<1>2. /\ order' \in [Sid -> {"none", "user_closed", "interrupted_on_exit"}] /\ aux' \in [Aux -> {"idle", "reserved", "done"}]
      /\ task' \in [Sid -> {"none", "done"} \cup AtWork]
  BY DEF Types, AtWork, EndReasons
<1>3. Types'
  BY <1>1, <1>2 DEF Types
<1>4. \A s \in Sid : task'[s] \in AtWork <=> task[s] \in AtWork
  BY DEF AtWork, EndReasons
<1>5. Owned'
  BY <1>1, <1>4 DEF Owned
<1>6. Creating'
  BY <1>1 DEF Creating, Room, Sessions
<1>7. Nothing' /\ NoForeignKill' /\ SessionsWithinLimits' /\ LiveIsOwned'
  BY <1>1 DEF Nothing, NoForeignKill, SessionsWithinLimits, Sessions, LiveIsOwned
<1>8. QED
  BY <1>3, <1>5, <1>6, <1>7

LEMMA GoneKeeps ==
  ASSUME SessionsAssumption, SessionsInv, Gone
  PROVE  SessionsInv'
<1> USE DEF SessionsInv, Gone
<1>1. /\ UNCHANGED <<row, record, pid, struck>> /\ backend' = "down" /\ active' = {} /\ lock' = Free
  OBVIOUS
<1>2. /\ caller' \in [Callers -> {"idle", "done", "refused", "cancelled", "lost"} \cup Inside]
      /\ \A c \in Callers : caller'[c] \notin Inside
  BY DEF Types, Inside
<1>3. /\ task' \in [Sid -> {"none", "done"} \cup AtWork] /\ \A s \in Sid : task'[s] \notin AtWork
  BY DEF Types, AtWork, EndReasons
<1>4. /\ proc' \in [Sid -> {"none", "up", "dying", "gone"}] /\ \A s \in Sid : proc'[s] # "up"
  BY DEF Types, Eof
<1>5. order' \in [Sid -> {"none", "user_closed", "interrupted_on_exit"}] /\ aux' \in [Aux -> {"idle", "reserved", "done"}]
  BY DEF Types
<1>6. Types'
  BY <1>1, <1>2, <1>3, <1>4, <1>5 DEF Types
<1>7. Creating'
  BY <1>2 DEF Creating, Inside
<1>8. Owned'
  BY <1>1, <1>3, <1>4 DEF Owned
<1>9. SessionsWithinLimits'
  BY <1>1, FewerSessions DEF Types
<1>10. Nothing' /\ NoForeignKill' /\ LiveIsOwned'
  BY <1>1, <1>2 DEF Nothing, NoForeignKill, LiveIsOwned
<1>11. QED
  BY <1>6, <1>7, <1>8, <1>9, <1>10

LEMMA StartKeeps ==
  ASSUME SessionsAssumption, SessionsInv, Start
  PROVE  SessionsInv'
<1> USE DEF SessionsInv, Start
<1>1. UNCHANGED <<caller, lock, aux, active, task, order>> /\ backend' = "up"
  BY DEF mem
<1>2. active = {} /\ \A c \in Callers : caller[c] \notin Inside
  BY DEF Nothing
<1>3. /\ Row("ended", "backend_restart") \in RowRec /\ Row("ended", "backend_restart").state = "ended"
      /\ "ended" \in Terminal /\ "none" \notin Terminal
  BY RowIsTyped DEF Terminal
<1>4. /\ row' \in [Sid -> RowRec]
      /\ \A s \in Sid : \/ row'[s] = row[s] /\ row[s].state \in Terminal \cup {"none"}
                        \/ row'[s].state \in Terminal
  BY <1>3 DEF Types, LiveRow
<1>5. /\ record' \in [Sid -> {"none", "open", "ended"}] /\ proc' \in [Sid -> {"none", "up", "dying", "gone"}]
      /\ pid' \in [Sid -> {"ours", "foreign", "nobody"}]
      /\ \A s \in Sid : proc'[s] = "up" => proc[s] = "up"
  BY DEF Types
<1>6. Types'
  BY <1>1, <1>4, <1>5 DEF Types
<1>7. Creating'
  BY <1>1, <1>2 DEF Creating, Inside
<1>8. Owned'
  BY <1>1, <1>2, <1>3, <1>4, <1>5 DEF Owned
<1>9. SessionsWithinLimits' /\ Nothing'
  BY <1>1 DEF SessionsWithinLimits, Sessions, Nothing
<1>10. NoForeignKill'
  BY DEF NoForeignKill, Identified
<1>11. LiveIsOwned'
  BY <1>3, <1>4 DEF LiveIsOwned
<1>12. QED
  BY <1>6, <1>7, <1>8, <1>9, <1>10, <1>11

LEMMA SessionsKept ==
  ASSUME SessionsAssumption, SessionsInv, [Next]_vars
  PROVE  SessionsInv'
<1>1. ASSUME NEW c \in Callers, CallerStep(c) \/ CancelCaller(c)
      PROVE  SessionsInv'
  BY <1>1, AcquireKeeps, DecideKeeps, StoreKeeps, LaunchKeeps DEF CallerStep
<1>2. ASSUME NEW s \in Sid, TaskStep(s) \/ UserCloses(s) \/ Delete(s) \/ Reap(s) \/ Exits(s) \/ Reuse(s)
      PROVE  SessionsInv'
  BY <1>2, TaskKeeps, EndSessionKeeps, ProcessKeeps, DeleteKeeps DEF TaskStep
<1>3. ASSUME NEW x \in Aux, Reserve(x) \/ ReleaseCli(x)
      PROVE  SessionsInv'
  BY <1>3, ReserveKeeps
<1>4. CASE Shutdown \/ Stopped \/ Crash \/ Start
  BY <1>4, ShutdownKeeps, GoneKeeps, StartKeeps DEF Stopped, Crash
<1>5. CASE UNCHANGED vars
  BY <1>5, SMTT(30) DEF vars, mem, os, SessionsInv, Types, Creating, Room, Owned, Nothing, SessionsWithinLimits, Sessions,
              NoForeignKill, LiveIsOwned
<1>6. QED
  BY <1>1, <1>2, <1>3, <1>4, <1>5 DEF Next

(* Every live session has a task, unless a request that created one was    *)
(* given up; what is over has no process; the limits hold; and no process  *)
(* of another program is killed (AISessionService.create, _run, recover).  *)
THEOREM SessionsAreSafe ==
  ASSUME SessionsAssumption
  PROVE  Spec => []SessionsSafe
<1>1. Init => SessionsInv
  BY SessionsAtFirst
<1>2. SessionsInv /\ [Next]_vars => SessionsInv'
  BY SessionsKept
<1>3. SessionsInv => SessionsSafe
  <2> SUFFICES ASSUME SessionsInv
               PROVE  SessionsSafe
    OBVIOUS
  <2>1. SessionTypeOK
    BY DEF SessionsInv, Types, Creating, Inside, RowRec, SessionTypeOK
  <2>2. OverHasNoProcess
    BY DEF SessionsInv, Owned, OverHasNoProcess
  <2>3. QED
    BY <2>1, <2>2 DEF SessionsInv, SessionsSafe
<1>4. QED
  BY <1>1, <1>2, <1>3, PTL DEF Spec

(* What a session ended as is changed by nothing but its deletion: neither *)
(* by a task that ends late nor by the next start.                         *)
THEOREM EndsStay ==
  ASSUME SessionsAssumption
  PROVE  Spec => [][EndsOnce]_vars
<1>1. Init => SessionsInv
  BY SessionsAtFirst
<1>2. SessionsInv /\ [Next]_vars => SessionsInv'
  BY SessionsKept
<1>3. SessionsInv /\ [Next]_vars => EndsOnce
  <2> SUFFICES ASSUME SessionsInv, [Next]_vars, NEW s \in Sid, row[s].state \in Terminal
               PROVE  row'[s] = row[s] \/ row'[s] = [row[s] EXCEPT !.reason = "deleted"]
    BY DEF EndsOnce
  <2>1. row \in [Sid -> RowRec] /\ s \notin active /\ task[s] \notin AtWork /\ "none" \notin Terminal
        /\ "starting" \notin Terminal
    BY DEF SessionsInv, Types, Owned, Terminal
  <2>2. CASE UNCHANGED row
    BY <2>2
  <2>3. ASSUME NEW x \in Sid, RecordProcess(x) \/ Serve(x) \/ EndSession(x) \/ Delete(x)
        PROVE  row'[s] = row[s] \/ row'[s] = [row[s] EXCEPT !.reason = "deleted"]
    <3>1. CASE x # s
      BY <2>1, <2>3, <3>1 DEF RecordProcess, Serve, EndSession, Delete
    <3>2. CASE x = s
      <4>1. Delete(s)
        BY <2>1, <2>3, <3>2 DEF RecordProcess, Serve, EndSession, Ending, AtWork, EndReasons
      <4>2. QED
        BY <2>1, <4>1 DEF Delete
    <3>3. QED
      BY <3>1, <3>2
  <2>4. ASSUME NEW c \in Callers, Store(c) \/ CancelCaller(c)
        PROVE  row'[s] = row[s] \/ row'[s] = [row[s] EXCEPT !.reason = "deleted"]
    <3>1. caller[c] = "storing" => RequestOf(c) # s
      BY <2>1 DEF SessionsInv, Creating, NoRow
    <3>2. QED
      BY <2>1, <2>4, <3>1 DEF Store, CancelCaller
  <2>5. CASE Start
    BY <2>1, <2>5 DEF Start, LiveRow
  <2>6. QED
    BY <2>2, <2>3, <2>4, <2>5 DEF Next, vars, CallerStep, Acquire, Decide, Launch, TaskStep, StartProcess,
       CloseProcess, UserCloses, Reap, Exits, Reuse, Reserve, ReleaseCli, Shutdown, Stopped, Crash, Gone
<1>4. QED
  BY <1>1, <1>2, <1>3, PTL DEF Spec

-----------------------------------------------------------------------------
(* One headless session: its turns and its approvals *)

Places == {"none", "starting", "running", "gone"}
Reports == {"completed", "failed", "interrupted"}
Message ==
  [act: {"wake", "interrupt", "close", "proc_exit"}, arg: {0}]
  \cup [act: {"approval_request", "approval_expire"}, arg: Asks]
  \cup [act: {"interrupt_grace"}, arg: Nat]
  \cup [act: {"result", "turn_done"}, arg: [kind: Reports, by: Nat]]
  \cup [act: {"approval_decided"}, arg: [ask: Asks, how: Decisions]]
EndRec == [turn: Nat, kind: Reports, by: Nat]
CliRec == [alive: BOOLEAN, todo: Seq(Nat), told: [Asks -> Seq({"allow", "deny"})]]

TurnTypes ==
  /\ pending \in Seq(Prompts) /\ Len(pending) <= QueueLimit /\ prompt \in Seq(Prompts)
  /\ turn \in 0..Count /\ marked \in BOOLEAN /\ stale \in Nat /\ phase \in {"open", "closing", "over", "final"}
  /\ answer \in [Prompts -> {"none", "sent", "queued", "refused"}] /\ ends \in Seq(EndRec)
  /\ process \in Seq(Places) /\ Len(process) = Count
  /\ attempt \in Seq(Nat) /\ Len(attempt) = Count /\ graces \subseteq Nat
AskTypes ==
  /\ approvals \subseteq Asks /\ timers \subseteq Asks /\ overdue \subseteq Asks
  /\ rows \in [Asks -> {"none", "pending", "ruled", "allowed", "denied", "expired"}]
  /\ decider \in [Asks -> Decisions \cup {"idle", "late"}]
ChatTypes == TurnTypes /\ AskTypes /\ inbox \in Seq(Message) /\ cli \in CliRec

(* Turns have ended in their order, each but the one that runs, which is   *)
(* the last; with a process per turn a result is of its own turn.          *)
Listed(e, now) ==
  /\ \A i, j \in DOMAIN e : i < j => e[i].turn < e[j].turn
  /\ \A i \in DOMAIN e : /\ e[i].turn \in 1..Count /\ e[i].turn # now
                         /\ ~ Resident => e[i].by \in {0, e[i].turn}
  /\ \A n \in 1..Count : n # now => \E i \in DOMAIN e : e[i].turn = n
TurnIsLast == /\ turn # 0 => turn = Count
              /\ phase # "open" => turn = 0
(* A request id is in the queue or a turn once, and has its answer.        *)
Distinct ==
  /\ \A i, j \in DOMAIN pending : pending[i] = pending[j] => i = j
  /\ \A m, n \in DOMAIN prompt : prompt[m] = prompt[n] => m = n
  /\ \A i \in DOMAIN pending, n \in DOMAIN prompt : pending[i] # prompt[n]
  /\ \A i \in DOMAIN pending : answer[pending[i]] # "none"
  /\ \A n \in DOMAIN prompt : answer[prompt[n]] # "none"
(* A process that has reported is gone.  Only a resident CLI reports       *)
(* results, exits, and is given time after an interrupt.                   *)
Reported(m) ==
  /\ m.act = "turn_done" => ~ Resident /\ m.arg.by \in DOMAIN process /\ process[m.arg.by] = "gone"
  /\ m.act \in {"result", "proc_exit", "interrupt_grace"} => Resident
Processes ==
  /\ \A i \in DOMAIN inbox : Reported(inbox[i])
  /\ Resident => \A n \in DOMAIN process : process[n] = "none"
  /\ ~ Resident => ~ cli.alive /\ cli.todo = <<>> /\ graces = {}
  /\ phase = "final" => ~ cli.alive

(* What the row, the owner's memory, the decision and the CLI know of an   *)
(* approval: who is still waited for was told nothing.                     *)
AskSound(a) ==
  /\ a \in approvals => cli.told[a] = <<>> /\ rows[a] \in {"pending", "allowed", "denied", "expired"}
  /\ rows[a] = "none" => cli.told[a] = <<>>
  /\ rows[a] = "pending" => a \in approvals
  /\ rows[a] \in {"none", "pending", "ruled"} => decider[a] = "idle"
  /\ decider[a] \in {"allow_once", "allow_session"} => rows[a] = "allowed"
  /\ decider[a] = "deny" => rows[a] = "denied"
  /\ decider[a] # "idle" => a \in Deciders
  /\ \/ cli.told[a] = <<>>
     \/ cli.told[a] = <<"allow">> /\ rows[a] \in {"allowed", "ruled"}
     \/ cli.told[a] = <<"deny">> /\ rows[a] \in {"denied", "expired"}
AsksSound == \A a \in Asks : AskSound(a)
Carried(m) ==
  /\ m.act = "approval_request" => rows[m.arg] = "none"
  /\ m.act = "approval_decided" => decider[m.arg.ask] = m.arg.how
Mail ==
  /\ \A i \in DOMAIN inbox : Carried(inbox[i])
  /\ \A i, j \in DOMAIN inbox :
       inbox[i].act = "approval_request" /\ inbox[j].act = "approval_request" /\ inbox[i].arg = inbox[j].arg => i = j
Granted(k) == k # "compound" /\ \E b \in Asks \cap Deciders : KeyOf(b) = k /\ decider[b] = "allow_session"
RulesSound == /\ \A k \in rules : Granted(k)
              /\ \A a \in Asks : rows[a] = "ruled" => Granted(KeyOf(a))

TurnPart == Listed(ends, turn) /\ TurnIsLast /\ Distinct /\ Processes /\ ProcessOfTurn
AskPart == AsksSound /\ Mail /\ RulesSound
ChatInv == ChatTypes /\ TurnPart /\ AskPart

(* What is in the inbox was there before, or is the message that was posted. *)
From(S) ==
  /\ inbox' \in Seq(Message)
  /\ \E d \in {0, 1} : \A i \in DOMAIN inbox' :
        \/ i + d \in DOMAIN inbox /\ inbox'[i] = inbox[i + d]
        \/ i = Len(inbox') /\ inbox'[i] \in S

LEMMA PostIs ==
  ASSUME inbox \in Seq(Message), NEW act, NEW arg, Post(act, arg), [act |-> act, arg |-> arg] \in Message
  PROVE  From({[act |-> act, arg |-> arg]})
<1> PICK m \in Message : m = [act |-> act, arg |-> arg]
  OBVIOUS
<1>1. inbox' = Append(inbox, m)
  BY DEF Post
<1> HIDE DEF Message
<1>2. inbox' \in Seq(Message)
  BY <1>1
<1>3. \A i \in DOMAIN inbox' : (i + 0 \in DOMAIN inbox /\ inbox'[i] = inbox[i + 0]) \/ (i = Len(inbox') /\ inbox'[i] \in {m})
  BY <1>1
<1>4. QED
  BY <1>2, <1>3 DEF From

LEMMA TakeIs ==
  ASSUME inbox \in Seq(Message), inbox # <<>>, inbox' = Tail(inbox)
  PROVE  From({}) /\ Head(inbox) \in Message /\ Head(inbox) = inbox[1] /\ 1 \in DOMAIN inbox
<1>1. inbox' \in Seq(Message)
  OBVIOUS
<1>2. \A i \in DOMAIN inbox' : i + 1 \in DOMAIN inbox /\ inbox'[i] = inbox[i + 1]
  OBVIOUS
<1>3. QED
  BY <1>1, <1>2 DEF From

LEMMA TakePostIs ==
  ASSUME inbox \in Seq(Message), inbox # <<>>, NEW m \in Message, inbox' = Append(Tail(inbox), m)
  PROVE  From({m})
<1>1. Tail(inbox) \in Seq(Message) /\ Len(Tail(inbox)) = Len(inbox) - 1
  OBVIOUS
<1>2. inbox' \in Seq(Message) /\ Len(inbox') = Len(inbox)
  BY <1>1
<1>3. \A i \in DOMAIN inbox' : \/ i + 1 \in DOMAIN inbox /\ inbox'[i] = inbox[i + 1]
                               \/ i = Len(inbox') /\ inbox'[i] \in {m}
  BY <1>1, <1>2
<1>4. QED
  BY <1>2, <1>3 DEF From

LEMMA NothingPosted ==
  ASSUME inbox \in Seq(Message), inbox' = inbox \/ inbox' = <<>>
  PROVE  From({})
<1>1. CASE inbox' = inbox
  <2>1. \A i \in DOMAIN inbox' : i + 0 \in DOMAIN inbox /\ inbox'[i] = inbox[i + 0]
    BY <1>1
  <2>2. QED
    BY <1>1, <2>1 DEF From
<1>2. CASE inbox' = <<>>
  <2>1. inbox' \in Seq(Message) /\ \A i \in DOMAIN inbox' : FALSE
    BY <1>2
  <2>2. QED
    BY <2>1 DEF From
<1>3. QED
  BY <1>1, <1>2

(* A message that comes says only what Reported says.                      *)
LEMMA MailReported ==
  ASSUME \A i \in DOMAIN inbox : Reported(inbox[i]), NEW S, From(S), \A m \in S : Reported(m)',
         process' = process
  PROVE  (\A i \in DOMAIN inbox : Reported(inbox[i]))'
<1> PICK d \in {0, 1} : \A i \in DOMAIN inbox' :
        \/ i + d \in DOMAIN inbox /\ inbox'[i] = inbox[i + d]
        \/ i = Len(inbox') /\ inbox'[i] \in S
  BY DEF From
<1> QED
  BY DEF Reported

LEMMA TurnsQuiet ==
  ASSUME ChatTypes, TurnPart, NEW S, From(S), \A m \in S : Reported(m),
         UNCHANGED <<pending, turn, prompt, ends, answer, process>>, graces' \subseteq graces,
         phase' = phase \/ (phase' = "over" /\ turn = 0),
         cli'.alive => cli.alive, ~ Resident => cli'.todo = <<>>
  PROVE  TurnPart'
<1>1. Processes'
  <2>1. \A m \in S : Reported(m)'
    BY DEF Reported
  <2>2. (\A i \in DOMAIN inbox : Reported(inbox[i]))'
    BY <2>1, MailReported DEF TurnPart, Processes
  <2>3. QED
    BY <2>2 DEF TurnPart, Processes, Resident
<1>2. Listed(ends, turn)' /\ TurnIsLast' /\ Distinct' /\ ProcessOfTurn'
  BY DEF TurnPart, Listed, TurnIsLast, Distinct, ProcessOfTurn, Count, Resident
<1>3. QED
  BY <1>1, <1>2 DEF TurnPart

LEMMA AsksQuiet ==
  ASSUME ChatTypes, AskPart, NEW S, From(S), \A m \in S : m.act \notin {"approval_request", "approval_decided"},
         UNCHANGED <<approvals, rules, rows, decider>>, cli'.told = cli.told
  PROVE  AskPart'
<1> PICK d \in {0, 1} : \A i \in DOMAIN inbox' :
        \/ i + d \in DOMAIN inbox /\ inbox'[i] = inbox[i + d]
        \/ i = Len(inbox') /\ inbox'[i] \in S
  BY DEF From
<1>1. Mail'
  <2>1. (\A i \in DOMAIN inbox : Carried(inbox[i]))'
    BY DEF AskPart, Mail, Carried
  <2>2. \A i, j \in DOMAIN inbox' :
          inbox'[i].act = "approval_request" /\ inbox'[j].act = "approval_request" /\ inbox'[i].arg = inbox'[j].arg => i = j
    <3> SUFFICES ASSUME NEW i \in DOMAIN inbox', NEW j \in DOMAIN inbox', inbox'[i].act = "approval_request",
                        inbox'[j].act = "approval_request", inbox'[i].arg = inbox'[j].arg
                 PROVE  i = j
      OBVIOUS
    <3>1. i + d \in DOMAIN inbox /\ inbox'[i] = inbox[i + d] /\ j + d \in DOMAIN inbox /\ inbox'[j] = inbox[j + d]
      OBVIOUS
    <3>2. i + d = j + d
      BY <3>1 DEF AskPart, Mail
    <3>3. i \in Nat /\ j \in Nat
      BY DEF From
    <3>4. QED
      BY <3>2, <3>3
  <2>3. QED
    BY <2>1, <2>2 DEF Mail
<1>2. AsksSound' /\ RulesSound'
  BY DEF AskPart, AsksSound, AskSound, RulesSound, Granted
<1>3. QED
  BY <1>1, <1>2 DEF AskPart

(* Approvals that go on: a row that is there is settled at most once.      *)
LEMMA AsksSettle ==
  ASSUME ChatTypes, AskPart, NEW S, From(S), \A m \in S : m.act \notin {"approval_request", "approval_decided"},
         rules' = rules, AsksSound',
         \A a \in Asks : (decider[a] # "idle" => decider'[a] = decider[a]) /\ (rows[a] = "none" => rows'[a] = "none")
                         /\ (rows'[a] = "ruled" => rows[a] = "ruled")
  PROVE  AskPart'
<1> PICK d \in {0, 1} : \A i \in DOMAIN inbox' :
        \/ i + d \in DOMAIN inbox /\ inbox'[i] = inbox[i + d]
        \/ i = Len(inbox') /\ inbox'[i] \in S
  BY DEF From
<1>1. Mail'
  <2>1. ASSUME NEW i \in DOMAIN inbox'
        PROVE  Carried(inbox[i])'
    <3>1. CASE i + d \in DOMAIN inbox /\ inbox'[i] = inbox[i + d]
      <4>1. Carried(inbox[i + d]) /\ inbox[i + d] \in Message
        BY <3>1 DEF AskPart, Mail, ChatTypes
      <4>2. CASE inbox[i + d].act = "approval_request"
        <5>1. inbox[i + d].arg \in Asks
          BY <4>1, <4>2 DEF Message
        <5>2. QED
          BY <3>1, <4>1, <4>2, <5>1 DEF Carried
      <4>3. CASE inbox[i + d].act = "approval_decided"
        <5>1. inbox[i + d].arg.ask \in Asks /\ inbox[i + d].arg.how \in Decisions
          BY <4>1, <4>3 DEF Message
        <5>2. inbox[i + d].arg.how # "idle"
          BY <5>1 DEF Decisions
        <5>3. QED
          BY <3>1, <4>1, <4>3, <5>1, <5>2 DEF Carried
      <4>4. QED
        BY <3>1, <4>2, <4>3 DEF Carried
    <3>2. CASE inbox'[i] \in S
      BY <3>2 DEF Carried
    <3>3. QED
      BY <3>1, <3>2
  <2>2. \A i, j \in DOMAIN inbox' :
          inbox'[i].act = "approval_request" /\ inbox'[j].act = "approval_request" /\ inbox'[i].arg = inbox'[j].arg => i = j
    <3> SUFFICES ASSUME NEW i \in DOMAIN inbox', NEW j \in DOMAIN inbox', inbox'[i].act = "approval_request",
                        inbox'[j].act = "approval_request", inbox'[i].arg = inbox'[j].arg
                 PROVE  i = j
      OBVIOUS
    <3>1. i + d \in DOMAIN inbox /\ inbox'[i] = inbox[i + d] /\ j + d \in DOMAIN inbox /\ inbox'[j] = inbox[j + d]
      OBVIOUS
    <3>2. i + d = j + d
      BY <3>1 DEF AskPart, Mail
    <3>3. i \in Nat /\ j \in Nat
      BY DEF From
    <3>4. QED
      BY <3>2, <3>3
  <2>3. QED
    BY <2>1, <2>2 DEF Mail
<1>2. RulesSound'
  BY DEF AskPart, RulesSound, Granted
<1>3. QED
  BY <1>1, <1>2 DEF AskPart

Longer(t, s, x, S, n) ==
  /\ t \in Seq(S) /\ Len(t) = n /\ DOMAIN t = 1..n /\ t[n] = x /\ \A i \in 1..Len(s) : t[i] = s[i]

LEMMA AppendIs ==
  ASSUME NEW S, NEW s \in Seq(S), NEW x \in S, NEW n, n = Len(s) + 1
  PROVE  Longer(Append(s, x), s, x, S, n)
  BY DEF Longer

Replaced(t, s, i, x, S) ==
  /\ t \in Seq(S) /\ Len(t) = Len(s) /\ DOMAIN t = DOMAIN s /\ t[i] = x /\ \A k \in DOMAIN s \ {i} : t[k] = s[k]

LEMMA ReplaceIs ==
  ASSUME NEW S, NEW s \in Seq(S), NEW i \in DOMAIN s, NEW x \in S
  PROVE  Replaced([s EXCEPT ![i] = x], s, i, x, S)
  BY DEF Replaced

LEMMA RespondIs ==
  ASSUME cli \in CliRec, NEW a \in Asks, cli.told[a] = <<>>, NEW what \in {"allow", "deny"}
  PROVE  /\ Respond(cli, a, what) \in CliRec /\ Respond(cli, a, what).alive = cli.alive
         /\ Respond(cli, a, what).todo = cli.todo
         /\ \A b \in Asks \ {a} : Respond(cli, a, what).told[b] = cli.told[b]
         /\ Respond(cli, a, what).told[a] \in {<<>>, <<what>>}
<1>1. CASE cli.alive
  <2>1. Append(cli.told[a], what) = <<what>> /\ Append(cli.told[a], what) \in Seq({"allow", "deny"})
    BY DEF CliRec
  <2>2. Respond(cli, a, what) = [cli EXCEPT !.told = [cli.told EXCEPT ![a] = <<what>>]]
    BY <1>1, <2>1 DEF Respond
  <2> PICK told \in [Asks -> Seq({"allow", "deny"})] : told = [cli.told EXCEPT ![a] = <<what>>]
    BY <2>1 DEF CliRec
  <2>3. Respond(cli, a, what) = [cli EXCEPT !.told = told]
    BY <2>2
  <2>4. told[a] = <<what>> /\ \A b \in Asks \ {a} : told[b] = cli.told[b]
    BY DEF CliRec
  <2>5. QED
    BY <2>3, <2>4 DEF CliRec
<1>2. CASE ~ cli.alive
  BY <1>2 DEF Respond
<1>3. QED
  BY <1>1, <1>2

LEMMA FedIs ==
  ASSUME cli \in CliRec, NEW n \in Nat
  PROVE  /\ Fed(cli, n) \in CliRec /\ Fed(cli, n).alive = cli.alive /\ Fed(cli, n).told = cli.told
         /\ ~ Resident => Fed(cli, n).todo = cli.todo
<1>1. Append(cli.todo, n) \in Seq(Nat)
  BY DEF CliRec
<1> PICK todo \in Seq(Nat) : todo = Append(cli.todo, n)
  BY <1>1
<1>2. Fed(cli, n) = IF Resident /\ cli.alive THEN [cli EXCEPT !.todo = todo] ELSE cli
  BY DEF Fed
<1>3. QED
  BY <1>2 DEF CliRec

LEMMA StoppedIs ==
  ASSUME cli \in CliRec
  PROVE  Shut(cli) \in CliRec /\ ~ Shut(cli).alive /\ Shut(cli).told = cli.told /\ Shut(cli).todo = <<>>
<1>1. <<>> \in Seq(Nat)
  OBVIOUS
<1>2. QED
  BY <1>1 DEF CliRec, Shut

(* The turn that runs ends: it is the last.                                *)
LEMMA FinishIs ==
  ASSUME ChatTypes, TurnPart, NEW kind \in Reports, NEW by \in Nat, Finishes(turn, kind, by),
         ~ Resident => by \in {0, turn}
  PROVE  ends' \in Seq(EndRec) /\ Listed(ends', 0)
<1>1. CASE turn = 0
  <2>1. ends' = ends
    BY <1>1 DEF Finishes
  <2>2. QED
    BY <1>1, <2>1 DEF TurnPart, ChatTypes, TurnTypes
<1>2. CASE turn # 0
  <2>9. turn \in Nat
    BY DEF ChatTypes, TurnTypes, Count
  <2> PICK e \in EndRec : e = [turn |-> turn, kind |-> kind, by |-> by]
    BY <2>9 DEF EndRec
  <2>1. e.turn = turn /\ e.by = by
    OBVIOUS
  <2>2. ends' = Append(ends, e) /\ ends \in Seq(EndRec)
    BY <1>2 DEF Finishes, ChatTypes, TurnTypes
  <2>3. /\ ends' \in Seq(EndRec) /\ DOMAIN ends' = 1..(Len(ends) + 1) /\ DOMAIN ends = 1..Len(ends)
        /\ \A i \in DOMAIN ends : i \in DOMAIN ends' /\ ends'[i] = ends[i]
        /\ ends'[Len(ends) + 1] = e /\ Len(ends) \in Nat
    BY <2>2
  <2>4. turn = Count /\ Count \in Nat /\ \A i \in DOMAIN ends : ends[i].turn \in 1..Count /\ ends[i].turn # turn
    BY <1>2 DEF TurnPart, TurnIsLast, Listed, ChatTypes, TurnTypes, Count
  <2>5. \A i, j \in DOMAIN ends' : i < j => ends'[i].turn < ends'[j].turn
    BY <2>1, <2>3, <2>4 DEF TurnPart, Listed
  <2>6. \A i \in DOMAIN ends' : /\ ends'[i].turn \in 1..Count /\ ends'[i].turn # 0
                                /\ ~ Resident => ends'[i].by \in {0, ends'[i].turn}
    <3>1. ASSUME NEW i \in DOMAIN ends
          PROVE  ends'[i].turn \in 1..Count /\ (~ Resident => ends'[i].by \in {0, ends'[i].turn})
      BY <2>3, <3>1 DEF TurnPart, Listed
    <3>2. e.turn \in 1..Count /\ (~ Resident => e.by \in {0, e.turn})
      BY <1>2, <2>1, <2>4
    <3>3. QED
      BY <2>3, <2>4, <3>1, <3>2
  <2>7. \A n \in 1..Count : \E i \in DOMAIN ends' : ends'[i].turn = n
    <3> SUFFICES ASSUME NEW n \in 1..Count PROVE \E i \in DOMAIN ends' : ends'[i].turn = n
      OBVIOUS
    <3>1. CASE n = turn
      <4>1. Len(ends) + 1 \in DOMAIN ends' /\ ends'[Len(ends) + 1].turn = n
        BY <2>1, <2>3, <3>1
      <4>2. QED
        BY <4>1
    <3>2. CASE n # turn
      <4>1. \E i \in DOMAIN ends : ends[i].turn = n
        BY <3>2 DEF TurnPart, Listed
      <4>2. QED
        BY <2>3, <4>1
    <3>3. QED
      BY <3>1, <3>2
  <2>8. QED
    BY <2>3, <2>5, <2>6, <2>7 DEF Listed
<1>3. QED
  BY <1>1, <1>2

(* The next prompt, or what runs goes on.                                  *)
LEMMA PumpIs ==
  ASSUME ChatAssumption, ChatTypes, TurnPart, NEW now \in {0, turn}, NEW mark \in BOOLEAN, Pump(now, mark, pending, cli),
         ends' \in Seq(EndRec), Listed(ends', now), phase = "open",
         now = 0 /\ turn # 0 => process[turn] \in {"none", "gone"},
         From({}), UNCHANGED <<phase, answer, graces>>, stale' \in Nat
  PROVE  TurnTypes' /\ TurnPart' /\ cli' \in CliRec /\ cli'.told = cli.told
<1>1. /\ Count \in Nat /\ DOMAIN prompt = 1..Count /\ DOMAIN pending = 1..Len(pending) /\ DOMAIN process = 1..Count
      /\ Len(pending) \in Nat /\ pending \in Seq(Prompts) /\ prompt \in Seq(Prompts) /\ turn \in 0..Count
      /\ process \in Seq(Places) /\ attempt \in Seq(Nat) /\ Len(attempt) = Count
      /\ cli \in CliRec /\ Len(prompt) = Count /\ Len(process) = Count
  BY DEF ChatTypes, TurnTypes, Count
<1>2. CASE Startable(now, pending)
  <2>1. now = 0 /\ pending # <<>>
    BY <1>2 DEF Startable
  <2> PICK n \in Nat : n = Count + 1
    BY <1>1
  <2> PICK p \in Prompts : p = Head(pending)
    BY <1>1, <2>1
  <2> PICK st \in {"none", "starting"} : st = IF Resident THEN "none" ELSE "starting"
    OBVIOUS
  <2>2. /\ turn' = n /\ marked' = FALSE /\ prompt' = Append(prompt, p) /\ pending' = Tail(pending)
        /\ cli' = Fed(cli, n) /\ process' = Append(process, st) /\ attempt' = Append(attempt, 1)
    BY <1>2 DEF Pump
  <2>3. /\ prompt' \in Seq(Prompts) /\ Len(prompt') = n /\ DOMAIN prompt' = 1..n /\ prompt'[n] = p
        /\ \A i \in 1..Count : prompt'[i] = prompt[i]
    <3>1. Longer(Append(prompt, p), prompt, p, Prompts, n)
      BY <1>1, AppendIs
    <3>2. QED
      BY <1>1, <2>2, <3>1 DEF Longer
  <2>4. /\ process' \in Seq(Places) /\ Len(process') = n /\ DOMAIN process' = 1..n
        /\ process'[n] = st /\ \A i \in 1..Count : process'[i] = process[i]
    <3>1. st \in Places
      BY DEF Places
    <3>2. Longer(Append(process, st), process, st, Places, n)
      BY <1>1, <3>1, AppendIs
    <3>3. QED
      BY <1>1, <2>2, <3>2 DEF Longer
  <2>5. attempt' \in Seq(Nat) /\ Len(attempt') = n
    <3>1. Longer(Append(attempt, 1), attempt, 1, Nat, n)
      BY <1>1, AppendIs
    <3>2. QED
      BY <1>1, <2>2, <3>1 DEF Longer
  <2>6. /\ pending' \in Seq(Prompts) /\ Len(pending') = Len(pending) - 1 /\ DOMAIN pending' = 1..(Len(pending) - 1)
        /\ p = pending[1] /\ 1 \in DOMAIN pending
        /\ \A i \in DOMAIN pending' : i + 1 \in DOMAIN pending /\ pending'[i] = pending[i + 1]
    BY <1>1, <2>1, <2>2
  <2>7. Count' = n
    BY <2>3 DEF Count
  <2>8. /\ cli' \in CliRec /\ cli'.alive = cli.alive /\ cli'.told = cli.told /\ (~ Resident => cli'.todo = cli.todo)
    BY <1>1, <2>2, FedIs
  <2>9. TurnTypes'
    <3>1. turn' \in 0..Count' /\ Len(pending') <= QueueLimit
      BY <1>1, <2>2, <2>6, <2>7 DEF ChatAssumption, ChatTypes, TurnTypes
    <3>2. QED
      BY <2>2, <2>3, <2>4, <2>5, <2>6, <2>7, <3>1 DEF ChatTypes, TurnTypes
  <2>10. Listed(ends, turn)'
    <3>1. /\ \A i, j \in DOMAIN ends' : i < j => ends'[i].turn < ends'[j].turn
          /\ \A i \in DOMAIN ends' : /\ ends'[i].turn \in 1..Count
                                      /\ ~ Resident => ends'[i].by \in {0, ends'[i].turn}
          /\ \A m \in 1..Count : \E i \in DOMAIN ends' : ends'[i].turn = m
      BY <1>1, <2>1 DEF Listed
    <3>2. \A m \in 1..n : m # n => m \in 1..Count
      BY <1>1
    <3>3. \A m \in 1..Count : m \in 1..n /\ m # n
      BY <1>1
    <3>4. QED
      BY <2>2, <2>7, <3>1, <3>2, <3>3 DEF Listed, Resident
  <2>11. TurnIsLast'
    BY <2>2, <2>7 DEF TurnIsLast
  <2>12. Distinct'
    <3>1. /\ \A i, j \in DOMAIN pending : pending[i] = pending[j] => i = j
          /\ \A m, k \in DOMAIN prompt : prompt[m] = prompt[k] => m = k
          /\ \A i \in DOMAIN pending, k \in DOMAIN prompt : pending[i] # prompt[k]
          /\ \A i \in DOMAIN pending : answer[pending[i]] # "none"
          /\ \A k \in DOMAIN prompt : answer[prompt[k]] # "none"
      BY DEF TurnPart, Distinct
    <3>2. \A i, j \in DOMAIN pending' : pending'[i] = pending'[j] => i = j
      <4> SUFFICES ASSUME NEW i \in DOMAIN pending', NEW j \in DOMAIN pending', pending'[i] = pending'[j] PROVE i = j
        OBVIOUS
      <4>1. i + 1 = j + 1
        BY <2>6, <3>1
      <4>2. i \in Int /\ j \in Int
        BY <2>6
      <4>3. QED
        BY <4>1, <4>2
    <3>3. \A m \in DOMAIN prompt' : m \in DOMAIN prompt \/ m = n
      BY <1>1, <2>3
    <3>4. \A i \in DOMAIN pending' : pending'[i] # p
      <4> SUFFICES ASSUME NEW i \in DOMAIN pending', pending'[i] = p PROVE FALSE
        OBVIOUS
      <4>1. i + 1 = 1 /\ i \in 1..(Len(pending) - 1)
        BY <2>6, <3>1
      <4>2. QED
        BY <1>1, <4>1
    <3>5. \A m \in DOMAIN prompt : prompt'[m] = prompt[m] /\ prompt[m] # p
      <4>1. \A m \in DOMAIN prompt : prompt'[m] = prompt[m]
        BY <1>1, <2>3
      <4>2. \A m \in DOMAIN prompt : prompt[m] # p
        BY <2>6, <3>1
      <4>3. QED
        BY <4>1, <4>2
    <3>6. \A m, k \in DOMAIN prompt' : prompt'[m] = prompt'[k] => m = k
      BY <2>3, <3>1, <3>3, <3>5
    <3>7. \A i \in DOMAIN pending', k \in DOMAIN prompt' : pending'[i] # prompt'[k]
      BY <2>3, <2>6, <3>1, <3>3, <3>4, <3>5
    <3>8. /\ \A i \in DOMAIN pending' : answer'[pending'[i]] # "none"
          /\ \A k \in DOMAIN prompt' : answer'[prompt'[k]] # "none"
      <4>1. answer' = answer
        OBVIOUS
      <4>2. \A i \in DOMAIN pending' : answer[pending'[i]] # "none"
        BY <2>6, <3>1
      <4>3. \A k \in DOMAIN prompt' : answer[prompt'[k]] # "none"
        BY <2>3, <2>6, <3>1, <3>3, <3>5
      <4>4. QED
        BY <4>1, <4>2, <4>3
    <3>9. QED
      BY <3>2, <3>6, <3>7, <3>8 DEF Distinct
  <2>13. Processes'
    <3>1. (\A i \in DOMAIN inbox : Reported(inbox[i]))'
      <4> PICK d \in {0, 1} : \A i \in DOMAIN inbox' : i + d \in DOMAIN inbox /\ inbox'[i] = inbox[i + d]
        BY DEF From
      <4>1. \A m : Reported(m) => Reported(m)'
        BY <1>1, <2>4 DEF Reported, Resident
      <4>2. \A i \in DOMAIN inbox : Reported(inbox[i])
        BY DEF TurnPart, Processes
      <4>3. QED
        BY <4>1, <4>2 DEF Reported
    <3>2. Resident => \A m \in DOMAIN process' : process'[m] = "none"
      <4>1. Resident => st = "none"
        OBVIOUS
      <4>2. \A m \in 1..n : m \in 1..Count \/ m = n
        BY <1>1
      <4>3. Resident => \A m \in 1..Count : process[m] = "none"
        BY <1>1 DEF TurnPart, Processes
      <4>4. QED
        BY <2>4, <4>1, <4>2, <4>3
    <3>3. QED
      BY <2>8, <3>1, <3>2 DEF TurnPart, Processes, Resident
  <2>14. ProcessOfTurn'
    <3>1. \A m \in 1..Count : process[m] \in {"starting", "running"} => m = turn /\ turn # 0
      BY DEF TurnPart, ProcessOfTurn
    <3>2. \A m \in 1..Count : process[m] \notin {"starting", "running"}
      BY <2>1, <3>1
    <3>3. QED
      BY <1>1, <2>2, <2>4, <2>7, <3>2 DEF ProcessOfTurn
  <2>15. QED
    BY <2>8, <2>9, <2>10, <2>11, <2>12, <2>13, <2>14 DEF TurnPart
<1>3. CASE ~ Startable(now, pending)
  <2>1. turn' = now /\ marked' = mark /\ pending' = pending /\ cli' = cli /\ UNCHANGED <<prompt, process, attempt>>
    BY <1>3 DEF Pump
  <2>2. Count' = Count /\ now \in 0..Count
    BY <1>1, <2>1 DEF Count
  <2>3. TurnTypes'
    BY <1>1, <2>1, <2>2 DEF ChatTypes, TurnTypes
  <2>4. Listed(ends, turn)'
    BY <2>1, <2>2 DEF Listed, Resident
  <2>5. TurnIsLast' /\ Distinct'
    BY <2>1, <2>2 DEF TurnPart, TurnIsLast, Distinct
  <2>6. (\A i \in DOMAIN inbox : Reported(inbox[i]))'
    BY <2>1, MailReported DEF TurnPart, Processes
  <2>7. Processes'
    BY <2>1, <2>6 DEF TurnPart, Processes, Resident
  <2>8. ProcessOfTurn'
    BY <1>1, <2>1, <2>2 DEF TurnPart, ProcessOfTurn
  <2>9. QED
    BY <1>1, <2>1, <2>3, <2>4, <2>5, <2>7, <2>8 DEF TurnPart
<1>4. QED
  BY <1>2, <1>3

LEMMA TurnsKept ==
  ASSUME ChatInv, UNCHANGED <<pending, turns, answer, process, attempt>>, phase' = phase, graces' \subseteq graces,
         NEW S, From(S), \A m \in S : Reported(m), cli' \in CliRec, cli'.alive => cli.alive, ~ Resident => cli'.todo = <<>>
  PROVE  TurnTypes' /\ TurnPart'
<1>1. UNCHANGED <<turn, marked, stale, prompt, ends>>
  BY DEF turns
<1>2. TurnPart'
  BY <1>1, TurnsQuiet DEF ChatInv
<1>3. TurnTypes'
  BY <1>1 DEF ChatInv, ChatTypes, TurnTypes, Count
<1>4. QED
  BY <1>2, <1>3

LEMMA AsksKept ==
  ASSUME ChatInv, UNCHANGED <<asks, decider, timers, overdue>>, cli'.told = cli.told,
         NEW S, From(S), \A m \in S : m.act \notin {"approval_request", "approval_decided"}
  PROVE  AskTypes' /\ AskPart'
<1>1. UNCHANGED <<approvals, rules, rows>>
  BY DEF asks
<1>2. AskPart'
  BY <1>1, AsksQuiet DEF ChatInv
<1>3. AskTypes'
  BY <1>1 DEF ChatInv, ChatTypes, AskTypes
<1>4. QED
  BY <1>2, <1>3

LEMMA CliKept ==
  ASSUME ChatInv
  PROVE  cli \in CliRec /\ (~ Resident => cli.todo = <<>> /\ ~ cli.alive) /\ inbox \in Seq(Message)
  BY DEF ChatInv, ChatTypes, TurnPart, Processes

(* What is posted is a message.                                            *)
LEMMA MessageIs ==
  ASSUME NEW act, NEW arg,
         \/ act \in {"wake", "interrupt", "close", "proc_exit"} /\ arg = 0
         \/ act \in {"approval_request", "approval_expire"} /\ arg \in Asks
         \/ act = "interrupt_grace" /\ arg \in Nat
         \/ act \in {"result", "turn_done"} /\ arg \in [kind: Reports, by: Nat]
         \/ act = "approval_decided" /\ arg \in [ask: Asks, how: Decisions]
  PROVE  /\ [act |-> act, arg |-> arg] \in Message
         /\ [act |-> act, arg |-> arg].act = act /\ [act |-> act, arg |-> arg].arg = arg
  BY DEF Message

(* A post that only wakes the owner.                                       *)
LEMMA PostKeeps ==
  ASSUME ChatInv, NEW act, NEW arg, Post(act, arg),
         \/ act \in {"wake", "interrupt", "close"} /\ arg = 0
         \/ act = "proc_exit" /\ arg = 0 /\ Resident
         \/ act = "approval_expire" /\ arg \in Asks
         \/ act = "interrupt_grace" /\ arg \in Nat /\ Resident
         \/ act = "result" /\ arg \in [kind: Reports, by: Nat] /\ Resident
  PROVE  \E S : /\ From(S) /\ \A m \in S : Reported(m)
               /\ \A m \in S : m.act \notin {"approval_request", "approval_decided"}
<1> PICK m : m = [act |-> act, arg |-> arg]
  OBVIOUS
<1>1. m \in Message /\ m.act = act /\ m.arg = arg
  BY MessageIs
<1>2. From({m})
  BY <1>1, CliKept, PostIs
<1>3. Reported(m) /\ m.act \notin {"approval_request", "approval_decided"}
  BY <1>1 DEF Reported
<1>4. QED
  BY <1>2, <1>3

LEMMA SubmitKeeps ==
  ASSUME ChatAssumption, ChatInv, NEW r \in Prompts, Submit(r)
  PROVE  ChatInv'
<1>1. UNCHANGED <<turns, phase, asks, timers, graces, overdue, cli, process, attempt, decider>>
  BY DEF Submit
<1>2. UNCHANGED <<turn, marked, stale, prompt, ends>>
  BY <1>1 DEF turns
<1>3. CASE UNCHANGED <<answer, pending, inbox>>
  <2>1. From({})
    BY <1>3, CliKept, NothingPosted
  <2>2. TurnTypes' /\ TurnPart'
    BY <1>1, <1>3, <2>1, CliKept, TurnsKept
  <2>3. AskTypes' /\ AskPart'
    BY <1>1, <2>1, AsksKept
  <2>4. QED
    BY <1>1, <1>3, <2>2, <2>3, CliKept DEF ChatInv, ChatTypes
<1>4. CASE answer[r] = "none" /\ answer' = [answer EXCEPT ![r] = "refused"] /\ UNCHANGED <<pending, inbox>>
  <2>1. From({})
    BY <1>4, CliKept, NothingPosted
  <2>2. AskTypes' /\ AskPart'
    BY <1>1, <2>1, AsksKept
  <2>3. TurnTypes'
    BY <1>1, <1>2, <1>4 DEF ChatInv, ChatTypes, TurnTypes, Count
  <2>4. \A q \in Prompts : answer[q] # "none" => answer'[q] # "none"
    BY <1>4 DEF ChatInv, ChatTypes, TurnTypes
  <2>5. Distinct'
    BY <1>2, <1>4, <2>4 DEF ChatInv, ChatTypes, TurnTypes, TurnPart, Distinct
  <2>6. Listed(ends, turn)' /\ TurnIsLast' /\ Processes' /\ ProcessOfTurn'
    BY <1>1, <1>2, <1>4 DEF ChatInv, TurnPart, Listed, TurnIsLast, Processes, ProcessOfTurn, Count, Resident, Reported
  <2>7. QED
    BY <1>1, <1>4, <2>2, <2>3, <2>5, <2>6, CliKept DEF ChatInv, ChatTypes, TurnPart
<1>5. CASE /\ answer[r] = "none" /\ answer' = [answer EXCEPT ![r] = IF turn # 0 \/ pending # <<>> THEN "queued" ELSE "sent"]
           /\ pending' = Append(pending, r) /\ Post("wake", 0) /\ ~ Refused
  <2> PICK S : /\ From(S) /\ \A m \in S : Reported(m)
               /\ \A m \in S : m.act \notin {"approval_request", "approval_decided"}
    BY <1>5, PostKeeps
  <2>1. AskTypes' /\ AskPart'
    BY <1>1, AsksKept
  <2> PICK k : k = Len(pending) + 1
    OBVIOUS
  <2>2. Longer(pending', pending, r, Prompts, k)
    BY <1>5, AppendIs DEF ChatInv, ChatTypes, TurnTypes
  <2>3. /\ pending' \in Seq(Prompts) /\ Len(pending') = k /\ DOMAIN pending' = 1..k /\ pending'[k] = r
        /\ \A i \in 1..Len(pending) : pending'[i] = pending[i]
    BY <2>2 DEF Longer
  <2>4. /\ Len(pending) < QueueLimit /\ Len(pending) \in Nat /\ DOMAIN pending = 1..Len(pending)
        /\ prompt \in Seq(Prompts) /\ DOMAIN prompt = 1..Len(prompt)
    BY <1>5 DEF Refused, ChatAssumption, ChatInv, ChatTypes, TurnTypes
  <2>5. /\ answer' \in [Prompts -> {"none", "sent", "queued", "refused"}] /\ answer'[r] # "none"
        /\ \A q \in Prompts : answer[q] # "none" => answer'[q] # "none"
    BY <1>5 DEF ChatInv, ChatTypes, TurnTypes
  <2>6. TurnTypes'
    <3>1. Len(pending') <= QueueLimit
      BY <2>3, <2>4 DEF ChatAssumption
    <3>2. QED
      BY <1>1, <1>2, <2>3, <2>5, <3>1 DEF ChatInv, ChatTypes, TurnTypes, Count
  <2>7. Distinct'
    <3>1. /\ \A i, j \in DOMAIN pending : pending[i] = pending[j] => i = j
          /\ \A m, n \in DOMAIN prompt : prompt[m] = prompt[n] => m = n
          /\ \A i \in DOMAIN pending, n \in DOMAIN prompt : pending[i] # prompt[n]
          /\ \A i \in DOMAIN pending : answer[pending[i]] # "none"
          /\ \A n \in DOMAIN prompt : answer[prompt[n]] # "none"
      BY DEF ChatInv, TurnPart, Distinct
    <3>2. /\ \A i \in DOMAIN pending : pending[i] \in Prompts /\ pending[i] # r
          /\ \A n \in DOMAIN prompt : prompt[n] \in Prompts /\ prompt[n] # r
      BY <1>5, <2>4, <3>1 DEF ChatInv, ChatTypes, TurnTypes
    <3>3. \A i \in DOMAIN pending' : i = k \/ (i \in DOMAIN pending /\ pending'[i] = pending[i])
      BY <2>3, <2>4
    <3>4. \A i, j \in DOMAIN pending' : pending'[i] = pending'[j] => i = j
      BY <2>3, <3>1, <3>2, <3>3
    <3>5. \A i \in DOMAIN pending', n \in DOMAIN prompt : pending'[i] # prompt[n]
      BY <2>3, <3>1, <3>2, <3>3
    <3>6. \A i \in DOMAIN pending' : answer'[pending'[i]] # "none"
      BY <2>3, <2>5, <3>1, <3>2, <3>3
    <3>7. \A n \in DOMAIN prompt : answer'[prompt[n]] # "none"
      BY <2>5, <3>1, <3>2
    <3>8. QED
      BY <1>2, <3>1, <3>4, <3>5, <3>6, <3>7 DEF Distinct
  <2>8. (\A i \in DOMAIN inbox : Reported(inbox[i]))'
    <3>1. \A m \in S : Reported(m)'
      BY <1>1 DEF Reported
    <3>2. QED
      BY <1>1, <3>1, MailReported DEF ChatInv, TurnPart, Processes
  <2>9. Listed(ends, turn)' /\ TurnIsLast' /\ Processes' /\ ProcessOfTurn'
    BY <1>1, <1>2, <2>8 DEF ChatInv, TurnPart, Listed, TurnIsLast, Processes, ProcessOfTurn, Count, Resident
  <2>10. QED
    BY <1>1, <2>1, <2>6, <2>7, <2>9, CliKept DEF ChatInv, ChatTypes, TurnPart, From
<1>6. QED
  BY <1>3, <1>4, <1>5 DEF Submit, Known

LEMMA TakenIs ==
  ASSUME ChatInv, NEW act, Take(act)
  PROVE  /\ From({}) /\ phase = "open" /\ Head(inbox) \in Message /\ Head(inbox).act = act /\ Arg = Head(inbox).arg
         /\ Reported(Head(inbox)) /\ Carried(Head(inbox)) /\ 1 \in DOMAIN inbox /\ inbox[1] = Head(inbox)
         /\ inbox # <<>> /\ inbox' = Tail(inbox)
<1>1. inbox # <<>> /\ phase = "open" /\ Head(inbox).act = act /\ inbox' = Tail(inbox)
  BY DEF Take, Serving
<1>2. From({}) /\ Head(inbox) \in Message /\ Head(inbox) = inbox[1] /\ 1 \in DOMAIN inbox
  BY <1>1, CliKept, TakeIs
<1>3. Reported(inbox[1]) /\ Carried(inbox[1])
  BY <1>2 DEF ChatInv, TurnPart, Processes, AskPart, Mail
<1>4. QED
  BY <1>1, <1>2, <1>3 DEF Arg

(* A turn is pumped: the approvals are not touched.                        *)
LEMMA PumpKeeps ==
  ASSUME ChatAssumption, ChatInv, NEW now \in {0, turn}, NEW mark \in BOOLEAN, Pump(now, mark, pending, cli),
         ends' \in Seq(EndRec), Listed(ends', now), phase = "open",
         now = 0 /\ turn # 0 => process[turn] \in {"none", "gone"},
         From({}), UNCHANGED <<phase, answer, graces>>, stale' \in Nat,
         UNCHANGED <<asks, timers, overdue, decider>>
  PROVE  ChatInv'
<1>1. TurnTypes' /\ TurnPart' /\ cli' \in CliRec /\ cli'.told = cli.told
  BY PumpIs DEF ChatInv
<1>2. AskTypes' /\ AskPart'
  BY <1>1, AsksKept
<1>3. QED
  BY <1>1, <1>2 DEF ChatInv, ChatTypes, From

LEMMA TurnsAre ==
  ASSUME ChatInv
  PROVE  /\ turn \in Nat /\ marked \in BOOLEAN /\ stale \in Nat /\ ends \in Seq(EndRec) /\ Listed(ends, turn)
         /\ turn # 0 => turn \in DOMAIN process /\ turn = Count
         /\ turn # 0 /\ Resident => process[turn] = "none"
         /\ process \in Seq(Places) /\ DOMAIN process = 1..Count /\ Count \in Nat
  BY DEF ChatInv, ChatTypes, TurnTypes, TurnPart, TurnIsLast, Processes, Count

LEMMA WakeKeeps ==
  ASSUME ChatAssumption, ChatInv, OnWake
  PROVE  ChatInv'
<1>1. /\ Take("wake") /\ Pump(turn, marked, pending, cli)
      /\ UNCHANGED <<stale, ends, phase, asks, timers, graces, overdue, answer, decider>>
  BY DEF OnWake
<1>2. Listed(ends', turn)
  BY <1>1, TurnsAre
<1>3. QED
  BY <1>1, <1>2, TakenIs, TurnsAre, PumpKeeps

(* A turn ends and the next one starts.                                    *)
LEMMA NextKeeps ==
  ASSUME ChatAssumption, ChatInv, NEW kind \in Reports, NEW by \in Nat, Finishes(turn, kind, by),
         ~ Resident => by \in {0, turn}, After(pending), turn # 0 => process[turn] \in {"none", "gone"},
         From({}), phase = "open", stale' \in Nat,
         UNCHANGED <<phase, answer, graces, asks, timers, overdue, decider>>
  PROVE  ChatInv'
<1>1. ends' \in Seq(EndRec) /\ Listed(ends', 0)
  BY FinishIs DEF ChatInv
<1>2. Pump(0, FALSE, pending, cli)
  BY DEF After
<1>3. QED
  BY <1>1, <1>2, PumpKeeps

LEMMA StaleKeeps ==
  ASSUME ChatInv, From({}), stale' \in Nat, UNCHANGED <<turn, marked, prompt, ends, pending, cli, process, attempt>>,
         UNCHANGED <<phase, asks, timers, graces, overdue, answer, decider>>
  PROVE  ChatInv'
<1>1. AskTypes' /\ AskPart'
  BY AsksKept
<1>2. TurnPart'
  BY CliKept, TurnsQuiet DEF ChatInv
<1>3. TurnTypes'
  BY DEF ChatInv, ChatTypes, TurnTypes, Count
<1>4. QED
  BY <1>1, <1>2, <1>3, CliKept DEF ChatInv, ChatTypes, From

LEMMA ResultKeeps ==
  ASSUME ChatAssumption, ChatInv, OnResult
  PROVE  ChatInv'
<1>1. Take("result") /\ UNCHANGED <<phase, asks, timers, graces, overdue, answer, decider>>
  BY DEF OnResult
<1>2. /\ From({}) /\ phase = "open" /\ Head(inbox) \in Message /\ Head(inbox).act = "result" /\ Arg = Head(inbox).arg
      /\ Reported(Head(inbox))
  BY <1>1, TakenIs
<1>3. Resident /\ Arg \in [kind: Reports, by: Nat]
  BY <1>2 DEF Reported, Message
<1>4. CASE Swallowed \/ turn = 0
  <2>1. /\ stale' = IF Swallowed THEN stale - 1 ELSE stale
        /\ UNCHANGED <<turn, marked, prompt, ends, pending, cli, process, attempt>>
    BY <1>4 DEF OnResult
  <2>2. stale' \in Nat
    BY <2>1, TurnsAre DEF Swallowed
  <2>3. QED
    BY <1>1, <1>2, <2>1, <2>2, StaleKeeps
<1>5. CASE ~ (Swallowed \/ turn = 0)
  <2> PICK kind : kind = IF marked THEN "interrupted" ELSE Arg.kind
    OBVIOUS
  <2>1. Finishes(turn, kind, Arg.by) /\ After(pending) /\ stale' = stale
    BY <1>5 DEF OnResult
  <2>2. kind \in Reports /\ Arg.by \in Nat
    BY <1>3 DEF Reports
  <2>3. QED
    BY <1>1, <1>2, <1>3, <2>1, <2>2, TurnsAre, NextKeeps
<1>6. QED
  BY <1>4, <1>5

LEMMA TurnDoneKeeps ==
  ASSUME ChatAssumption, ChatInv, OnTurnDone
  PROVE  ChatInv'
<1>1. Take("turn_done") /\ UNCHANGED <<stale, phase, asks, timers, graces, overdue, answer, decider>>
  BY DEF OnTurnDone
<1>2. /\ From({}) /\ phase = "open" /\ Head(inbox) \in Message /\ Head(inbox).act = "turn_done" /\ Arg = Head(inbox).arg
      /\ Reported(Head(inbox))
  BY <1>1, TakenIs
<1>3. Arg \in [kind: Reports, by: Nat] /\ process[Arg.by] = "gone"
  BY <1>2 DEF Reported, Message
<1>4. CASE Current(Arg.by)
  <2>1. Finishes(turn, Arg.kind, Arg.by) /\ After(pending) /\ turn = Arg.by
    BY <1>4 DEF OnTurnDone, Current
  <2>2. QED
    BY <1>1, <1>2, <1>3, <2>1, TurnsAre, NextKeeps
<1>5. CASE ~ Current(Arg.by)
  BY <1>1, <1>2, <1>5, TurnsAre, StaleKeeps DEF OnTurnDone
<1>6. QED
  BY <1>4, <1>5

LEMMA GraceKeeps ==
  ASSUME ChatAssumption, ChatInv, OnGrace
  PROVE  ChatInv'
<1>1. Take("interrupt_grace") /\ UNCHANGED <<phase, asks, timers, graces, overdue, answer, decider>>
  BY DEF OnGrace
<1>2. From({}) /\ phase = "open" /\ Head(inbox).act = "interrupt_grace" /\ Reported(Head(inbox))
  BY <1>1, TakenIs
<1>3. Resident
  BY <1>2 DEF Reported
<1>4. CASE Current(Arg) /\ marked
  <2>1. stale' = stale + 1 /\ Finishes(turn, "interrupted", 0) /\ After(pending)
    BY <1>4 DEF OnGrace
  <2>2. "interrupted" \in Reports /\ stale' \in Nat /\ 0 \in Nat
    BY <2>1, TurnsAre DEF Reports
  <2>3. QED
    BY <1>1, <1>2, <1>3, <2>1, <2>2, TurnsAre, NextKeeps
<1>5. CASE ~ (Current(Arg) /\ marked)
  BY <1>1, <1>2, <1>5, TurnsAre, StaleKeeps DEF OnGrace
<1>6. QED
  BY <1>4, <1>5

LEMMA AsksAre ==
  ASSUME ChatInv
  PROVE  /\ AskTypes /\ AskPart /\ ChatTypes /\ \A a \in Asks : AskSound(a)
         /\ cli \in CliRec /\ \A a \in Asks : cli.told[a] \in Seq({"allow", "deny"})
  BY DEF ChatInv, ChatTypes, AskPart, AsksSound, CliRec

(* What waits is denied, and its row expires.                              *)
LEMMA ExpireIs ==
  ASSUME ChatInv, ExpireAll, cli' = Denied(cli), UNCHANGED <<rules, decider, overdue>>,
         NEW S, From(S), \A m \in S : m.act \notin {"approval_request", "approval_decided"}
  PROVE  /\ AskTypes' /\ AskPart' /\ cli' \in CliRec /\ cli'.alive = cli.alive /\ cli'.todo = cli.todo
<1>1. \A a \in Asks : /\ rows[a] = "pending" => a \in approvals /\ cli.told[a] = <<>> /\ decider[a] = "idle"
                      /\ AskSound(a)
  BY AsksAre DEF AskSound
<1>2. rows' = [a \in Asks |-> IF rows[a] = "pending" THEN "expired" ELSE rows[a]]
  BY <1>1 DEF ExpireAll
<1>3. /\ approvals' = approvals \ Changed /\ timers' \subseteq Asks /\ approvals' \subseteq Asks
      /\ approvals \cap Changed = Changed
  BY <1>1, AsksAre DEF ExpireAll, AskTypes, Changed
<1>4. AskTypes'
  BY <1>2, <1>3, AsksAre DEF AskTypes
<1> PICK told : told = [a \in Asks |-> IF cli.alive /\ rows[a] = "pending" THEN <<"deny">> ELSE cli.told[a]]
  OBVIOUS
<1>5. told \in [Asks -> Seq({"allow", "deny"})]
  <2>1. <<"deny">> \in Seq({"allow", "deny"})
    OBVIOUS
  <2>2. QED
    BY <2>1, AsksAre
<1>6. cli' = [cli EXCEPT !.told = told]
  <2>1. [a \in Asks |-> IF cli.alive /\ a \in approvals \cap Changed THEN Append(cli.told[a], "deny") ELSE cli.told[a]] = told
    <3>1. \A a \in Asks : a \in approvals \cap Changed <=> rows[a] = "pending"
      BY <1>3 DEF Changed
    <3>2. \A a \in Asks : rows[a] = "pending" => Append(cli.told[a], "deny") = <<"deny">>
      <4>1. Append(<<>>, "deny") = <<"deny">>
        OBVIOUS
      <4>2. QED
        BY <1>1, <4>1
    <3>3. QED
      BY <3>1, <3>2
  <2>2. QED
    BY <2>1 DEF Denied
<1>7. cli' \in CliRec /\ cli'.alive = cli.alive /\ cli'.todo = cli.todo /\ cli'.told = told
  BY <1>5, <1>6, AsksAre DEF CliRec
<1>8. ASSUME NEW a \in Asks
      PROVE  AskSound(a)'
  <2>1. CASE rows[a] = "pending"
    <3>1. /\ rows'[a] = "expired" /\ a \notin approvals' /\ decider'[a] = "idle" /\ cli'.told[a] \in {<<>>, <<"deny">>}
      BY <1>1, <1>2, <1>3, <1>7, <2>1 DEF Changed
    <3>2. QED
      BY <3>1 DEF AskSound
  <2>2. CASE rows[a] # "pending"
    <3>1. rows'[a] = rows[a] /\ decider'[a] = decider[a] /\ cli'.told[a] = cli.told[a] /\ (a \in approvals' <=> a \in approvals)
      BY <1>2, <1>3, <1>7, <2>2 DEF Changed
    <3>2. QED
      BY <1>1, <2>2, <3>1 DEF AskSound
  <2>3. QED
    BY <2>1, <2>2
<1>9. AskPart'
  <2>1. AsksSound'
    BY <1>8 DEF AsksSound
  <2>2. \A a \in Asks : (decider[a] # "idle" => decider'[a] = decider[a]) /\ (rows[a] = "none" => rows'[a] = "none")
                         /\ (rows'[a] = "ruled" => rows[a] = "ruled")
    BY <1>2
  <2>3. QED
    BY <2>1, <2>2, AsksAre, AsksSettle
<1>10. QED
  BY <1>4, <1>7, <1>9

LEMMA InterruptKeeps ==
  ASSUME ChatAssumption, ChatInv, OnInterrupt
  PROVE  ChatInv'
<1>1. /\ inbox # <<>> /\ phase = "open" /\ pending' = <<>> /\ ExpireAll /\ cli' = Denied(cli)
      /\ UNCHANGED <<stale, prompt, phase, rules, overdue, answer, attempt, decider>>
  BY DEF OnInterrupt, Serving
<1>2. inbox \in Seq(Message) /\ (~ Resident => cli.todo = <<>> /\ ~ cli.alive)
  BY CliKept
<1>3. CASE inbox' = Tail(inbox) /\ UNCHANGED <<turn, ends, process>> /\ marked' \in BOOLEAN
           /\ (graces' = graces \/ (graces' = graces \cup {turn} /\ Resident))
  <2>1. From({})
    BY <1>1, <1>2, <1>3, TakeIs
  <2>2. AskTypes' /\ AskPart' /\ cli' \in CliRec /\ cli'.alive = cli.alive /\ cli'.todo = cli.todo
    BY <1>1, <2>1, ExpireIs
  <2>3. TurnTypes'
    <3>1. pending' \in Seq(Prompts) /\ Len(pending') <= QueueLimit /\ graces' \subseteq Nat
      <4>1. pending' \in Seq(Prompts) /\ Len(pending') <= QueueLimit
        BY <1>1 DEF ChatAssumption
      <4>2. graces' \subseteq Nat
        <5>1. graces \subseteq Nat
          BY DEF ChatInv, ChatTypes, TurnTypes
        <5>2. QED
          BY <1>3, <5>1, TurnsAre
      <4>3. QED
        BY <4>1, <4>2
    <3>2. QED
      BY <1>1, <1>3, <3>1 DEF ChatInv, ChatTypes, TurnTypes, Count
  <2>4. (\A i \in DOMAIN inbox : Reported(inbox[i]))'
    BY <1>3, <2>1, MailReported DEF ChatInv, TurnPart, Processes
  <2>5. Processes'
    BY <1>1, <1>3, <2>2, <2>4 DEF ChatInv, TurnPart, Processes, Resident
  <2>6. Listed(ends, turn)' /\ TurnIsLast' /\ ProcessOfTurn'
    BY <1>1, <1>3 DEF ChatInv, TurnPart, Listed, TurnIsLast, ProcessOfTurn, Count, Resident
  <2>7. Distinct'
    BY <1>1 DEF ChatInv, TurnPart, Distinct
  <2>8. QED
    BY <2>1, <2>2, <2>3, <2>5, <2>6, <2>7 DEF ChatInv, ChatTypes, TurnPart, From
<1>4. CASE ~ Resident /\ turn # 0
  <2> PICK n \in Nat : n = turn
    BY TurnsAre
  <2>1. n \in DOMAIN process /\ n = Count /\ n # 0 /\ process \in Seq(Places) /\ DOMAIN process = 1..Count
    BY <1>4, TurnsAre
  <2>2. process' = [process EXCEPT ![n] = "gone"] /\ Finishes(turn, "interrupted", turn) /\ turn' = 0 /\ marked' = FALSE /\ graces' = graces
    BY <1>4 DEF OnInterrupt
  <2> PICK m : m = [act |-> "turn_done", arg |-> [kind |-> "interrupted", by |-> n]]
    OBVIOUS
  <2>3. m \in Message /\ m.act = "turn_done" /\ m.arg.by = n
    <3>1. [kind |-> "interrupted", by |-> n] \in [kind: Reports, by: Nat]
      BY DEF Reports
    <3>2. QED
      BY <3>1, MessageIs
  <2>4. inbox' = Tail(inbox) \/ inbox' = Append(Tail(inbox), m)
    BY <1>4 DEF OnInterrupt
  <2> PICK S \in {{}, {m}} : From(S)
    BY <1>1, <1>2, <2>3, <2>4, TakeIs, TakePostIs
  <2>5. AskTypes' /\ AskPart' /\ cli' \in CliRec /\ cli'.alive = cli.alive /\ cli'.todo = cli.todo
    BY <1>1, <2>3, ExpireIs
  <2>6. ends' \in Seq(EndRec) /\ Listed(ends', 0)
    BY <2>2, TurnsAre, FinishIs DEF ChatInv, Reports
  <2>7. process' \in Seq(Places) /\ DOMAIN process' = DOMAIN process /\ Len(process') = Len(process)
        /\ process'[n] = "gone" /\ \A k \in DOMAIN process : process'[k] \in {process[k], "gone"}
    <3>1. "gone" \in Places
      BY DEF Places
    <3>2. QED
      BY <2>1, <2>2, <3>1
  <2>8. TurnTypes'
    <3>1. turn' \in 0..Count' /\ Len(pending') <= QueueLimit /\ pending' \in Seq(Prompts)
      BY <1>1, <2>1, <2>2 DEF ChatAssumption, Count
    <3>2. QED
      BY <1>1, <2>2, <2>6, <2>7, <3>1 DEF ChatInv, ChatTypes, TurnTypes, Count
  <2>9. Listed(ends, turn)' /\ TurnIsLast'
    BY <1>1, <2>2, <2>6 DEF Listed, Resident, Count, TurnIsLast
  <2>10. Distinct'
    BY <1>1 DEF ChatInv, TurnPart, Distinct
  <2>11. (\A i \in DOMAIN inbox : Reported(inbox[i]))'
    <3> PICK d \in {0, 1} : \A i \in DOMAIN inbox' :
        \/ i + d \in DOMAIN inbox /\ inbox'[i] = inbox[i + d]
        \/ i = Len(inbox') /\ inbox'[i] \in S
      BY DEF From
    <3>1. \A k : Reported(k) => Reported(k)'
      BY <2>7 DEF Reported, Resident
    <3>2. Reported(m)'
      BY <1>4, <2>1, <2>3, <2>7 DEF Reported, Resident
    <3>3. \A i \in DOMAIN inbox : Reported(inbox[i])
      BY DEF ChatInv, TurnPart, Processes
    <3>4. ASSUME NEW i \in DOMAIN inbox'
          PROVE  Reported(inbox[i])'
      BY <3>1, <3>2, <3>3 DEF Reported
    <3>5. QED
      BY <3>4
  <2>12. Processes'
    BY <1>1, <1>4, <2>2, <2>5, <2>11 DEF ChatInv, TurnPart, Processes, Resident
  <2>13. ProcessOfTurn'
    BY <1>1, <2>1, <2>2, <2>7 DEF ChatInv, TurnPart, ProcessOfTurn, Count
  <2>14. QED
    BY <2>5, <2>8, <2>9, <2>10, <2>12, <2>13 DEF ChatInv, ChatTypes, TurnPart, From
<1>5. QED
  BY <1>3, <1>4, TurnsAre DEF OnInterrupt

LEMMA RequestKeeps ==
  ASSUME ChatAssumption, ChatInv, OnRequest
  PROVE  ChatInv'
<1>1. Take("approval_request") /\ UNCHANGED <<pending, turns, phase, rules, graces, overdue, answer, process, attempt, decider>>
  BY DEF OnRequest
<1>2. /\ From({}) /\ Head(inbox) \in Message /\ Head(inbox).act = "approval_request" /\ Arg = Head(inbox).arg
      /\ Carried(Head(inbox)) /\ 1 \in DOMAIN inbox /\ inbox[1] = Head(inbox) /\ inbox # <<>> /\ inbox' = Tail(inbox)
  BY <1>1, TakenIs
<1> PICK a \in Asks : a = Arg /\ rows[a] = "none" /\ a = inbox[1].arg /\ inbox[1].act = "approval_request"
  BY <1>2 DEF Carried, Message
<1> PICK verdict : verdict = IF RuleAllows(a) THEN "ruled"
                             ELSE IF Cardinality(approvals) >= ApprovalLimit THEN "denied" ELSE "pending"
  OBVIOUS
<1> PICK what \in {"allow", "deny"} : what = IF verdict = "ruled" THEN "allow" ELSE "deny"
  OBVIOUS
<1>3. /\ verdict \in {"ruled", "denied", "pending"} /\ (verdict = "ruled" => RuleAllows(a))
      /\ rows' = [rows EXCEPT ![a] = verdict]
      /\ \/ verdict = "pending" /\ approvals' = approvals \cup {a} /\ timers' = timers \cup {a} /\ cli' = cli
         \/ verdict # "pending" /\ cli' = Respond(cli, a, what) /\ UNCHANGED <<approvals, timers>>
  BY <1>1 DEF OnRequest
<1>4. /\ AskSound(a) /\ cli.told[a] = <<>> /\ a \notin approvals /\ decider[a] = "idle" /\ cli \in CliRec
  BY AsksAre DEF AskSound
<1>5. /\ cli' \in CliRec /\ cli'.alive = cli.alive /\ cli'.todo = cli.todo
      /\ \A b \in Asks \ {a} : cli'.told[b] = cli.told[b]
      /\ cli'.told[a] = <<>> \/ (verdict # "pending" /\ cli'.told[a] = <<what>>)
  <2>1. CASE verdict = "pending"
    BY <1>3, <1>4, <2>1
  <2>2. CASE verdict # "pending"
    <3>1. /\ Respond(cli, a, what) \in CliRec /\ Respond(cli, a, what).alive = cli.alive
          /\ Respond(cli, a, what).todo = cli.todo
          /\ \A b \in Asks \ {a} : Respond(cli, a, what).told[b] = cli.told[b]
          /\ Respond(cli, a, what).told[a] \in {<<>>, <<what>>}
      BY <1>4, RespondIs
    <3>2. cli' = Respond(cli, a, what)
      BY <1>3, <2>2
    <3>3. QED
      BY <2>2, <3>1, <3>2
  <2>3. QED
    BY <2>1, <2>2
<1>6. TurnTypes' /\ TurnPart'
  BY <1>1, <1>2, <1>5, CliKept, TurnsKept
<1>7. /\ rows' \in [Asks -> {"none", "pending", "ruled", "allowed", "denied", "expired"}] /\ rows'[a] = verdict
      /\ \A b \in Asks \ {a} : rows'[b] = rows[b]
  BY <1>3, AsksAre DEF AskTypes
<1>8. AskTypes'
  BY <1>1, <1>3, <1>7, AsksAre DEF AskTypes
<1>9. AsksSound'
  <2>1. ASSUME NEW b \in Asks \ {a}
        PROVE  AskSound(b)'
    <3>1. /\ rows'[b] = rows[b] /\ decider'[b] = decider[b] /\ cli'.told[b] = cli.told[b] /\ (b \in approvals' <=> b \in approvals)
      BY <1>1, <1>3, <1>5, <1>7
    <3>2. QED
      BY <3>1, AsksAre DEF AskSound
  <2>2. AskSound(a)'
    <3>1. decider'[a] = "idle" /\ (a \in approvals' <=> verdict = "pending")
      BY <1>1, <1>3, <1>4
    <3>2. QED
      BY <1>3, <1>5, <1>7, <3>1 DEF AskSound
  <2>3. QED
    BY <2>1, <2>2 DEF AsksSound
<1>10. RulesSound'
  <2>1. \A k : Granted(k) => Granted(k)'
    BY <1>1 DEF Granted
  <2>2. verdict = "ruled" => Granted(KeyOf(a))
    BY <1>3, AsksAre DEF RuleAllows, AskPart, RulesSound
  <2>3. (\A k \in rules : Granted(k)) /\ \A b \in Asks : rows[b] = "ruled" => Granted(KeyOf(b))
    BY AsksAre DEF AskPart, RulesSound
  <2>4. \A k \in rules' : Granted(k)'
    BY <1>1, <2>1, <2>3
  <2>5. \A b \in Asks : rows'[b] = "ruled" => Granted(KeyOf(b))'
    BY <1>7, <2>1, <2>2, <2>3
  <2>6. QED
    BY <2>4, <2>5 DEF RulesSound
<1>11. Mail'
  <2>1. /\ inbox' \in Seq(Message) /\ \A i \in DOMAIN inbox' : i + 1 \in DOMAIN inbox /\ inbox'[i] = inbox[i + 1] /\ i \in Nat /\ i # 0
    BY <1>2, CliKept
  <2>2. /\ \A i \in DOMAIN inbox : Carried(inbox[i])
        /\ \A i, j \in DOMAIN inbox :
              inbox[i].act = "approval_request" /\ inbox[j].act = "approval_request" /\ inbox[i].arg = inbox[j].arg => i = j
    BY AsksAre DEF AskPart, Mail
  <2>3. ASSUME NEW i \in DOMAIN inbox'
        PROVE  Carried(inbox[i])'
    <3>1. inbox'[i] = inbox[i + 1] /\ i + 1 \in DOMAIN inbox /\ i + 1 # 1 /\ Carried(inbox[i + 1]) /\ inbox[i + 1] \in Message
      BY <2>1, <2>2, CliKept
    <3>2. CASE inbox[i + 1].act = "approval_request"
      <4>1. inbox[i + 1].arg # a
        BY <1>2, <2>2, <3>1, <3>2
      <4>2. inbox[i + 1].arg \in Asks
        BY <3>1, <3>2 DEF Message
      <4>3. QED
        BY <1>7, <3>1, <3>2, <4>1, <4>2 DEF Carried
    <3>3. CASE inbox[i + 1].act # "approval_request"
      BY <1>1, <3>1, <3>3 DEF Carried
    <3>4. QED
      BY <3>2, <3>3
  <2>4. \A i, j \in DOMAIN inbox' :
          inbox'[i].act = "approval_request" /\ inbox'[j].act = "approval_request" /\ inbox'[i].arg = inbox'[j].arg => i = j
    <3> SUFFICES ASSUME NEW i \in DOMAIN inbox', NEW j \in DOMAIN inbox', inbox'[i].act = "approval_request",
                        inbox'[j].act = "approval_request", inbox'[i].arg = inbox'[j].arg
                 PROVE  i = j
      OBVIOUS
    <3>1. i + 1 = j + 1
      BY <2>1, <2>2
    <3>2. QED
      BY <2>1, <3>1
  <2>5. QED
    BY <2>3, <2>4 DEF Mail
<1>12. QED
  BY <1>5, <1>6, <1>8, <1>9, <1>10, <1>11, <1>2 DEF ChatInv, ChatTypes, AskPart, From

LEMMA DecidedKeeps ==
  ASSUME ChatAssumption, ChatInv, OnDecided
  PROVE  ChatInv'
<1>1. Take("approval_decided") /\ UNCHANGED <<pending, turns, phase, rows, graces, overdue, answer, process, attempt, decider>>
  BY DEF OnDecided
<1>2. From({}) /\ Head(inbox) \in Message /\ Head(inbox).act = "approval_decided" /\ Arg = Head(inbox).arg /\ Carried(Head(inbox))
  BY <1>1, TakenIs
<1> PICK a \in Asks, how \in Decisions : a = Arg.ask /\ how = Arg.how /\ decider[a] = how
  BY <1>2 DEF Carried, Message
<1> PICK what \in {"allow", "deny"} : what = IF how = "deny" THEN "deny" ELSE "allow"
  OBVIOUS
<1>3. CASE a \in approvals
  <2>1. /\ approvals' = approvals \ {a} /\ timers' = timers \ {a} /\ rules' = rules \cup NewRule(a, how)
        /\ cli' = Respond(cli, a, what)
    BY <1>3 DEF OnDecided
  <2>2. AskSound(a) /\ cli.told[a] = <<>> /\ cli \in CliRec /\ rows[a] = (IF how = "deny" THEN "denied" ELSE "allowed") /\ a \in Deciders
    BY <1>3, AsksAre DEF AskSound, Decisions
  <2>3. /\ cli' \in CliRec /\ cli'.alive = cli.alive /\ cli'.todo = cli.todo
        /\ \A b \in Asks \ {a} : cli'.told[b] = cli.told[b]
        /\ cli'.told[a] \in {<<>>, <<what>>}
    BY <2>1, <2>2, RespondIs
  <2>4. TurnTypes' /\ TurnPart'
    BY <1>1, <1>2, <2>3, CliKept, TurnsKept
  <2>5. AskTypes'
    BY <1>1, <2>1, AsksAre DEF AskTypes
  <2>6. AsksSound'
    <3>1. ASSUME NEW b \in Asks \ {a}
          PROVE  AskSound(b)'
      <4>1. /\ rows'[b] = rows[b] /\ decider'[b] = decider[b] /\ cli'.told[b] = cli.told[b] /\ (b \in approvals' <=> b \in approvals)
        BY <1>1, <2>1, <2>3
      <4>2. QED
        BY <4>1, AsksAre DEF AskSound
    <3>2. AskSound(a)'
      <4>1. rows'[a] = rows[a] /\ decider'[a] = decider[a] /\ a \notin approvals'
        BY <1>1, <2>1
      <4>2. QED
        BY <2>2, <2>3, <4>1 DEF AskSound, Decisions
    <3>3. QED
      BY <3>1, <3>2 DEF AsksSound
  <2>7. RulesSound'
    <3>1. \A k : Granted(k) => Granted(k)'
      BY <1>1 DEF Granted
    <3>2. \A k \in NewRule(a, how) : Granted(k)
      BY <2>2 DEF NewRule, Granted
    <3>3. QED
      BY <1>1, <2>1, <3>1, <3>2, AsksAre DEF AskPart, RulesSound
  <2>8. Mail'
    <3> PICK d \in {0, 1} : \A i \in DOMAIN inbox' : i + d \in DOMAIN inbox /\ inbox'[i] = inbox[i + d]
      BY <1>2 DEF From
    <3>1. \A m : Carried(m) => Carried(m)'
      BY <1>1 DEF Carried
    <3>2. /\ \A i \in DOMAIN inbox : Carried(inbox[i])
          /\ \A i, j \in DOMAIN inbox :
              inbox[i].act = "approval_request" /\ inbox[j].act = "approval_request" /\ inbox[i].arg = inbox[j].arg => i = j
      BY AsksAre DEF AskPart, Mail
    <3>3. ASSUME NEW i \in DOMAIN inbox'
          PROVE  Carried(inbox[i])'
      BY <3>1, <3>2 DEF Carried
    <3>4. \A i, j \in DOMAIN inbox' :
          inbox'[i].act = "approval_request" /\ inbox'[j].act = "approval_request" /\ inbox'[i].arg = inbox'[j].arg => i = j
      <4> SUFFICES ASSUME NEW i \in DOMAIN inbox', NEW j \in DOMAIN inbox', inbox'[i].act = "approval_request",
                        inbox'[j].act = "approval_request", inbox'[i].arg = inbox'[j].arg
                 PROVE  i = j
        OBVIOUS
      <4>1. i + d = j + d
        BY <3>2
      <4>2. i \in Nat /\ j \in Nat
        BY <1>2 DEF From
      <4>3. QED
        BY <4>1, <4>2
    <3>5. QED
      BY <3>3, <3>4 DEF Mail
  <2>9. QED
    BY <1>2, <2>3, <2>4, <2>5, <2>6, <2>7, <2>8 DEF ChatInv, ChatTypes, AskPart, From
<1>4. CASE a \notin approvals
  <2>1. UNCHANGED <<approvals, timers, rules, cli>>
    BY <1>4 DEF OnDecided
  <2>2. AskTypes' /\ AskPart'
    BY <1>1, <1>2, <2>1, AsksKept DEF asks
  <2>3. TurnTypes' /\ TurnPart'
    BY <1>1, <1>2, <2>1, CliKept, TurnsKept
  <2>4. QED
    BY <1>2, <2>1, <2>2, <2>3, CliKept DEF ChatInv, ChatTypes, From
<1>5. QED
  BY <1>3, <1>4

LEMMA ExpiryKeeps ==
  ASSUME ChatAssumption, ChatInv, OnExpire
  PROVE  ChatInv'
<1>1. Take("approval_expire") /\ UNCHANGED <<pending, turns, phase, rules, timers, graces, overdue, answer, process, attempt, decider>>
  BY DEF OnExpire
<1>2. From({}) /\ Head(inbox) \in Message /\ Head(inbox).act = "approval_expire" /\ Arg = Head(inbox).arg
  BY <1>1, TakenIs
<1> PICK a \in Asks : a = Arg
  BY <1>2 DEF Message
<1>3. CASE a \in approvals /\ Won(a)
  <2>1. rows' = [rows EXCEPT ![a] = "expired"] /\ approvals' = approvals \ {a} /\ cli' = Respond(cli, a, "deny")
    BY <1>3 DEF OnExpire
  <2>2. AskSound(a) /\ cli.told[a] = <<>> /\ cli \in CliRec /\ rows[a] = "pending" /\ decider[a] = "idle"
    BY <1>3, AsksAre DEF AskSound, Won
  <2>3. /\ cli' \in CliRec /\ cli'.alive = cli.alive /\ cli'.todo = cli.todo
        /\ \A b \in Asks \ {a} : cli'.told[b] = cli.told[b]
        /\ cli'.told[a] \in {<<>>, <<"deny">>}
    BY <2>1, <2>2, RespondIs
  <2>4. TurnTypes' /\ TurnPart'
    BY <1>1, <1>2, <2>3, CliKept, TurnsKept
  <2>5. /\ rows' \in [Asks -> {"none", "pending", "ruled", "allowed", "denied", "expired"}] /\ rows'[a] = "expired"
        /\ \A b \in Asks \ {a} : rows'[b] = rows[b]
    BY <2>1, AsksAre DEF AskTypes
  <2>6. AskTypes'
    BY <1>1, <2>1, <2>5, AsksAre DEF AskTypes
  <2>7. AsksSound'
    <3>1. ASSUME NEW b \in Asks \ {a}
          PROVE  AskSound(b)'
      <4>1. /\ rows'[b] = rows[b] /\ decider'[b] = decider[b] /\ cli'.told[b] = cli.told[b] /\ (b \in approvals' <=> b \in approvals)
        BY <1>1, <2>1, <2>3, <2>5
      <4>2. QED
        BY <4>1, AsksAre DEF AskSound
    <3>2. AskSound(a)'
      <4>1. decider'[a] = "idle" /\ a \notin approvals'
        BY <1>1, <2>1, <2>2
      <4>2. QED
        BY <2>3, <2>5, <4>1 DEF AskSound
    <3>3. QED
      BY <3>1, <3>2 DEF AsksSound
  <2>8. \A b \in Asks : (decider[b] # "idle" => decider'[b] = decider[b]) /\ (rows[b] = "none" => rows'[b] = "none")
                         /\ (rows'[b] = "ruled" => rows[b] = "ruled")
    BY <1>1, <2>2, <2>5
  <2>9. AskPart'
    BY <1>1, <1>2, <2>7, <2>8, AsksAre, AsksSettle
  <2>10. QED
    BY <1>2, <2>3, <2>4, <2>6, <2>9 DEF ChatInv, ChatTypes, From
<1>4. CASE ~ (a \in approvals /\ Won(a))
  <2>1. UNCHANGED <<rows, approvals, cli>>
    BY <1>4 DEF OnExpire
  <2>2. AskTypes' /\ AskPart'
    BY <1>1, <1>2, <2>1, AsksKept DEF asks
  <2>3. TurnTypes' /\ TurnPart'
    BY <1>1, <1>2, <2>1, CliKept, TurnsKept
  <2>4. QED
    BY <1>2, <2>1, <2>2, <2>3, CliKept DEF ChatInv, ChatTypes, From
<1>5. QED
  BY <1>3, <1>4

(* The loop returns: what runs ends.                                       *)
LEMMA OverKeeps ==
  ASSUME ChatAssumption, ChatInv, NEW act, Take(act), NEW now \in {"closing", "over"}, NEW kind \in {"interrupted", "failed"},
         Over(now, kind)
  PROVE  ChatInv'
<1>1. /\ phase' = now /\ ExpireAll /\ cli' = Denied(cli) /\ Finishes(turn, kind, 0) /\ turn' = 0 /\ marked' = FALSE
      /\ UNCHANGED <<stale, prompt, pending, rules, graces, overdue, answer, process, attempt, decider>>
  BY DEF Over
<1>2. From({})
  BY TakenIs
<1>3. AskTypes' /\ AskPart' /\ cli' \in CliRec /\ cli'.alive = cli.alive /\ cli'.todo = cli.todo
  BY <1>1, <1>2, ExpireIs
<1>4. ends' \in Seq(EndRec) /\ Listed(ends', 0)
  <2>1. kind \in Reports /\ 0 \in Nat
    BY DEF Reports
  <2>2. QED
    BY <1>1, <2>1, FinishIs DEF ChatInv
<1>5. TurnTypes'
  <2>1. turn' \in 0..Count'
    BY <1>1, TurnsAre DEF Count
  <2>2. QED
    BY <1>1, <1>4, <2>1 DEF ChatInv, ChatTypes, TurnTypes, Count
<1>6. Listed(ends, turn)' /\ TurnIsLast'
  BY <1>1, <1>4 DEF Listed, Resident, Count, TurnIsLast
<1>7. Distinct'
  BY <1>1 DEF ChatInv, TurnPart, Distinct
<1>8. (\A i \in DOMAIN inbox : Reported(inbox[i]))'
  BY <1>1, <1>2, MailReported DEF ChatInv, TurnPart, Processes
<1>9. Processes' /\ ProcessOfTurn'
  BY <1>1, <1>3, <1>8 DEF ChatInv, TurnPart, Processes, Resident, ProcessOfTurn
<1>10. QED
  BY <1>2, <1>3, <1>5, <1>6, <1>7, <1>9 DEF ChatInv, ChatTypes, TurnPart, From

LEMMA IdleKeeps ==
  ASSUME ChatAssumption, ChatInv, Idle
  PROVE  ChatInv'
<1>1. /\ turn = 0 /\ phase' = "over"
      /\ UNCHANGED <<inbox, pending, turns, asks, timers, graces, overdue, answer, cli, process, attempt, decider>>
  BY DEF Idle
<1>2. UNCHANGED <<turn, marked, stale, prompt, ends>>
  BY <1>1 DEF turns
<1>3. From({})
  BY <1>1, CliKept, NothingPosted
<1>4. AskTypes' /\ AskPart'
  BY <1>1, <1>3, AsksKept
<1>5. TurnPart'
  BY <1>1, <1>2, <1>3, CliKept, TurnsQuiet DEF ChatInv
<1>6. TurnTypes'
  BY <1>1, <1>2 DEF ChatInv, ChatTypes, TurnTypes, Count
<1>7. QED
  BY <1>1, <1>3, <1>4, <1>5, <1>6, CliKept DEF ChatInv, ChatTypes

LEMMA FinalizeKeeps ==
  ASSUME ChatAssumption, ChatInv, Finalize
  PROVE  ChatInv'
<1>1. /\ phase \in {"closing", "over"} /\ phase' = "final" /\ inbox' = <<>> /\ pending' = <<>>
      /\ approvals' = {} /\ timers' = {} /\ graces' = {} /\ cli' = Shut(cli)
      /\ rows' = [a \in Asks |-> IF rows[a] = "pending" THEN "expired" ELSE rows[a]]
      /\ process' = [n \in DOMAIN process |-> IF n \in Reached THEN "gone" ELSE process[n]]
      /\ UNCHANGED <<turns, rules, overdue, answer, attempt, decider>>
  BY DEF Finalize
<1>2. UNCHANGED <<turn, marked, stale, prompt, ends>> /\ turn = 0
  BY <1>1 DEF turns, ChatInv, TurnPart, TurnIsLast
<1>3. process' = process
  BY <1>1, <1>2, TurnsAre DEF Reached
<1>4. cli' \in CliRec /\ ~ cli'.alive /\ cli'.told = cli.told /\ cli'.todo = <<>>
  BY <1>1, CliKept, StoppedIs
<1>5. From({})
  BY <1>1, CliKept, NothingPosted
<1>6. AskTypes'
  BY <1>1, AsksAre DEF AskTypes
<1>7. ASSUME NEW a \in Asks
      PROVE  AskSound(a)'
  <2>1. CASE rows[a] = "pending"
    <3>1. rows'[a] = "expired" /\ a \notin approvals' /\ decider'[a] = "idle" /\ cli'.told[a] = <<>>
      BY <1>1, <1>4, <2>1, AsksAre DEF AskSound
    <3>2. QED
      BY <3>1 DEF AskSound
  <2>2. CASE rows[a] # "pending"
    <3>1. rows'[a] = rows[a] /\ a \notin approvals' /\ decider'[a] = decider[a] /\ cli'.told[a] = cli.told[a]
      BY <1>1, <1>4, <2>2
    <3>2. QED
      BY <2>2, <3>1, AsksAre DEF AskSound
  <2>3. QED
    BY <2>1, <2>2
<1>8. AskPart'
  <2>1. AsksSound'
    BY <1>7 DEF AsksSound
  <2>2. \A a \in Asks : (decider[a] # "idle" => decider'[a] = decider[a]) /\ (rows[a] = "none" => rows'[a] = "none")
                         /\ (rows'[a] = "ruled" => rows[a] = "ruled")
    BY <1>1
  <2>3. QED
    BY <1>1, <1>5, <2>1, <2>2, AsksAre, AsksSettle
<1>9. TurnTypes'
  <2>1. pending' \in Seq(Prompts) /\ Len(pending') <= QueueLimit
    BY <1>1 DEF ChatAssumption
  <2>2. QED
    BY <1>1, <1>2, <1>3, <2>1 DEF ChatInv, ChatTypes, TurnTypes, Count
<1>10. TurnPart'
  <2>1. Processes'
    BY <1>1, <1>3, <1>4 DEF ChatInv, TurnPart, Processes, Resident
  <2>2. QED
    BY <1>1, <1>2, <1>3, <2>1 DEF ChatInv, TurnPart, Listed, TurnIsLast, Distinct, ProcessOfTurn, Count, Resident
<1>11. QED
  BY <1>4, <1>5, <1>6, <1>8, <1>9, <1>10 DEF ChatInv, ChatTypes, From

(* A step that leaves the turns and approvals alone, and posts at most.    *)
LEMMA ElseKeeps ==
  ASSUME ChatInv, UNCHANGED <<pending, turns, phase, asks, overdue, answer, process, attempt, decider>>,
         graces' \subseteq graces, timers' \subseteq timers, cli' \in CliRec, cli'.alive => cli.alive, cli'.told = cli.told,
         ~ Resident => cli'.todo = <<>>,
         NEW S, From(S), \A m \in S : Reported(m), \A m \in S : m.act \notin {"approval_request", "approval_decided"}
  PROVE  ChatInv'
<1>1. TurnTypes' /\ TurnPart'
  BY TurnsKept
<1>2. AskPart'
  BY AsksQuiet DEF ChatInv, asks
<1>3. AskTypes'
  BY DEF ChatInv, ChatTypes, AskTypes, asks
<1>4. QED
  BY <1>1, <1>2, <1>3 DEF ChatInv, ChatTypes, From

LEMMA TimersKeep ==
  ASSUME ChatAssumption, ChatInv,
         \/ \E a \in Asks : Deadline(a) \/ ExpireTimer(a)
         \/ \E n \in graces : GraceTimer(n)
         \/ UserInterrupt \/ UserClose
  PROVE  ChatInv'
<1>1. CASE \E a \in Asks : Deadline(a)
  <2> PICK a \in Asks : Deadline(a)
    BY <1>1
  <2>1. /\ overdue' = overdue \cup {a}
        /\ UNCHANGED <<inbox, pending, turns, phase, asks, timers, graces, answer, cli, process, attempt, decider>>
    BY DEF Deadline
  <2>2. From({})
    BY <2>1, CliKept, NothingPosted
  <2>3. TurnTypes' /\ TurnPart'
    BY <2>1, <2>2, CliKept, TurnsKept
  <2>4. AskPart'
    BY <2>1, <2>2, AsksQuiet DEF ChatInv, asks
  <2>5. AskTypes'
    BY <2>1 DEF ChatInv, ChatTypes, AskTypes, asks
  <2>6. QED
    BY <2>1, <2>2, <2>3, <2>4, <2>5, CliKept DEF ChatInv, ChatTypes
<1>2. CASE \E a \in Asks : ExpireTimer(a)
  <2> PICK a \in Asks : ExpireTimer(a)
    BY <1>2
  <2>1. /\ timers' \subseteq timers /\ Post("approval_expire", a)
        /\ UNCHANGED <<pending, turns, phase, asks, graces, overdue, answer, cli, process, attempt, decider>>
    BY DEF ExpireTimer
  <2> PICK S : /\ From(S) /\ \A m \in S : Reported(m)
               /\ \A m \in S : m.act \notin {"approval_request", "approval_decided"}
    BY <2>1, PostKeeps
  <2>2. QED
    BY <2>1, CliKept, ElseKeeps
<1>3. CASE \E n \in graces : GraceTimer(n)
  <2> PICK n \in graces : GraceTimer(n)
    BY <1>3
  <2>1. /\ graces' \subseteq graces /\ Post("interrupt_grace", n)
        /\ UNCHANGED <<pending, turns, phase, asks, timers, overdue, answer, cli, process, attempt, decider>>
    BY DEF GraceTimer
  <2>2. n \in Nat /\ Resident
    BY DEF ChatInv, ChatTypes, TurnTypes, TurnPart, Processes
  <2> PICK S : /\ From(S) /\ \A m \in S : Reported(m)
               /\ \A m \in S : m.act \notin {"approval_request", "approval_decided"}
    BY <2>1, <2>2, PostKeeps
  <2>3. QED
    BY <2>1, CliKept, ElseKeeps
<1>4. CASE UserInterrupt \/ UserClose
  <2>1. /\ Post("interrupt", 0) \/ Post("close", 0)
        /\ UNCHANGED <<pending, turns, phase, asks, timers, graces, overdue, answer, cli, process, attempt, decider>>
    BY <1>4 DEF UserInterrupt, UserClose
  <2> PICK S : /\ From(S) /\ \A m \in S : Reported(m)
               /\ \A m \in S : m.act \notin {"approval_request", "approval_decided"}
    BY <2>1, PostKeeps
  <2>2. QED
    BY <2>1, CliKept, ElseKeeps
<1>5. QED
  BY <1>1, <1>2, <1>3, <1>4

LEMMA SettleKeeps ==
  ASSUME ChatAssumption, ChatInv, NEW a \in Asks, NEW how \in Decisions, Settle(a, how)
  PROVE  ChatInv'
<1>1. /\ a \in Deciders /\ decider[a] = "idle" /\ rows[a] = "pending"
      /\ UNCHANGED <<inbox, pending, turns, phase, approvals, rules, timers, graces, overdue, answer, cli, process, attempt>>
  BY DEF Settle
<1> PICK settled, state : /\ rows' = [rows EXCEPT ![a] = settled] /\ decider' = [decider EXCEPT ![a] = state]
                      /\ \/ settled = "expired" /\ state = "late"
                         \/ settled = "denied" /\ state = "deny"
                         \/ settled = "allowed" /\ state \in {"allow_once", "allow_session"}
  BY DEF Settle, Decisions
<1>2. From({})
  BY <1>1, CliKept, NothingPosted
<1>3. /\ rows' \in [Asks -> {"none", "pending", "ruled", "allowed", "denied", "expired"}] /\ rows'[a] = settled
      /\ \A b \in Asks \ {a} : rows'[b] = rows[b]
  BY AsksAre DEF AskTypes
<1>4. /\ decider' \in [Asks -> Decisions \cup {"idle", "late"}] /\ decider'[a] = state
      /\ \A b \in Asks \ {a} : decider'[b] = decider[b]
  BY AsksAre DEF AskTypes, Decisions
<1>5. AskTypes'
  BY <1>1, <1>3, <1>4, AsksAre DEF AskTypes
<1>6. AsksSound'
  <2>1. ASSUME NEW b \in Asks \ {a}
        PROVE  AskSound(b)'
    BY <1>1, <1>3, <1>4, AsksAre DEF AskSound
  <2>2. AskSound(a)'
    <3>1. AskSound(a) /\ cli.told[a] = <<>> /\ a \in approvals
      BY <1>1, AsksAre DEF AskSound
    <3>2. QED
      BY <1>1, <1>3, <1>4, <3>1 DEF AskSound
  <2>3. QED
    BY <2>1, <2>2 DEF AsksSound
<1>7. \A b \in Asks : (decider[b] # "idle" => decider'[b] = decider[b]) /\ (rows[b] = "none" => rows'[b] = "none")
                       /\ (rows'[b] = "ruled" => rows[b] = "ruled")
  BY <1>1, <1>3, <1>4
<1>8. AskPart'
  BY <1>1, <1>2, <1>6, <1>7, AsksAre, AsksSettle
<1>9. TurnTypes' /\ TurnPart'
  BY <1>1, <1>2, CliKept, TurnsKept
<1>10. QED
  BY <1>1, <1>2, <1>5, <1>8, <1>9, CliKept DEF ChatInv, ChatTypes

LEMMA PostIn ==
  ASSUME ChatInv, NEW act, NEW arg, Post(act, arg), [act |-> act, arg |-> arg] \in Message
  PROVE  /\ inbox' \in Seq(Message) /\ DOMAIN inbox' = 1..(Len(inbox) + 1) /\ DOMAIN inbox = 1..Len(inbox)
         /\ Len(inbox) \in Nat /\ inbox'[Len(inbox) + 1] = [act |-> act, arg |-> arg]
         /\ \A i \in DOMAIN inbox : inbox'[i] = inbox[i]
<1>1. inbox \in Seq(Message)
  BY CliKept
<1> PICK m \in Message : m = [act |-> act, arg |-> arg]
  OBVIOUS
<1> PICK n : n = Len(inbox) + 1
  OBVIOUS
<1>2. inbox' = Append(inbox, m)
  BY DEF Post
<1>3. Longer(inbox', inbox, m, Message, n)
  BY <1>1, <1>2, AppendIs
<1>4. QED
  BY <1>1, <1>3 DEF Longer

(* A decision or a request is posted.                                      *)
LEMMA TellKeeps ==
  ASSUME ChatAssumption, ChatInv, NEW a \in Asks, Tell(a) \/ CliAsks(a)
  PROVE  ChatInv'
<1>1. UNCHANGED <<pending, turns, phase, asks, timers, graces, overdue, answer, cli, process, attempt, decider>>
  BY DEF Tell, CliAsks
<1>2. CASE inbox' = inbox
  <2>1. From({})
    BY <1>2, CliKept, NothingPosted
  <2>2. QED
    BY <1>1, <2>1, CliKept, ElseKeeps
<1>3. ASSUME NEW act \in {"approval_decided", "approval_request"}, NEW arg, Post(act, arg),
             \/ act = "approval_decided" /\ arg = [ask |-> a, how |-> decider[a]] /\ decider[a] \in Decisions
             \/ act = "approval_request" /\ arg = a /\ a \notin Asked
      PROVE  ChatInv'
  <2> PICK m : m = [act |-> act, arg |-> arg]
    OBVIOUS
  <2>1. act = "approval_decided" => arg \in [ask: Asks, how: Decisions]
    BY <1>3
  <2>2. m \in Message /\ m.act = act /\ m.arg = arg
    BY <1>3, <2>1, MessageIs
  <2>3. From({m}) /\ Reported(m)
    BY <1>3, <2>2, CliKept, PostIs DEF Reported
  <2>4. TurnTypes' /\ TurnPart'
    BY <1>1, <2>3, CliKept, TurnsKept
  <2>5. AskTypes' /\ AsksSound' /\ RulesSound'
    BY <1>1, AsksAre DEF AskTypes, asks, AskPart, AsksSound, AskSound, RulesSound, Granted
  <2>6. /\ inbox' \in Seq(Message) /\ DOMAIN inbox' = 1..(Len(inbox) + 1) /\ DOMAIN inbox = 1..Len(inbox)
        /\ Len(inbox) \in Nat /\ inbox'[Len(inbox) + 1] = m
        /\ \A i \in DOMAIN inbox : inbox'[i] = inbox[i]
    BY <1>3, <2>2, PostIn
  <2>7. /\ \A i \in DOMAIN inbox : Carried(inbox[i])
        /\ \A i, j \in DOMAIN inbox :
              inbox[i].act = "approval_request" /\ inbox[j].act = "approval_request" /\ inbox[i].arg = inbox[j].arg => i = j
    BY AsksAre DEF AskPart, Mail
  <2>8. \A k : Carried(k) => Carried(k)'
    BY <1>1 DEF Carried, asks
  <2>9. act = "approval_request" => rows[a] = "none" /\ \A i \in DOMAIN inbox : ~ (inbox[i].act = "approval_request" /\ inbox[i].arg = a)
    BY <1>3 DEF Asked
  <2>10. Carried(m)
    BY <1>3, <2>2, <2>9 DEF Carried
  <2>11. \A i \in DOMAIN inbox' : i = Len(inbox) + 1 \/ (i \in DOMAIN inbox /\ inbox'[i] = inbox[i])
    BY <2>6
  <2>12. ASSUME NEW i \in DOMAIN inbox'
         PROVE  Carried(inbox[i])'
    BY <2>6, <2>7, <2>8, <2>10, <2>11 DEF Carried
  <2>13. \A i, j \in DOMAIN inbox' :
          inbox'[i].act = "approval_request" /\ inbox'[j].act = "approval_request" /\ inbox'[i].arg = inbox'[j].arg => i = j
    BY <1>3, <2>2, <2>6, <2>7, <2>9, <2>11
  <2>14. Mail'
    BY <2>12, <2>13 DEF Mail
  <2>15. QED
    BY <1>1, <2>3, <2>4, <2>5, <2>14, CliKept DEF ChatInv, ChatTypes, AskPart, From
<1>4. CASE Tell(a)
  BY <1>2, <1>3, <1>4 DEF Tell
<1>5. CASE CliAsks(a)
  BY <1>3, <1>5 DEF CliAsks
<1>6. QED
  BY <1>4, <1>5

LEMMA CliKeeps ==
  ASSUME ChatAssumption, ChatInv, (\E kind \in {"completed", "failed"} : CliReports(kind)) \/ CliExits
  PROVE  ChatInv'
<1>1. cli.alive /\ Resident /\ cli \in CliRec
  BY CliKept DEF CliReports, Working, CliExits
<1>2. CASE CliExits
  <2>1. /\ cli' = Shut(cli) /\ Post("proc_exit", 0)
        /\ UNCHANGED <<pending, turns, phase, asks, timers, graces, overdue, answer, process, attempt, decider>>
    BY <1>2 DEF CliExits
  <2> PICK S : /\ From(S) /\ \A m \in S : Reported(m)
               /\ \A m \in S : m.act \notin {"approval_request", "approval_decided"}
    BY <1>1, <2>1, PostKeeps
  <2>2. cli' \in CliRec /\ cli'.told = cli.told /\ cli'.todo = <<>>
    BY <1>1, <2>1, StoppedIs
  <2>3. QED
    BY <1>1, <2>1, <2>2, ElseKeeps
<1>3. CASE \E kind \in {"completed", "failed"} : CliReports(kind)
  <2> PICK kind \in {"completed", "failed"} : CliReports(kind)
    BY <1>3
  <2>1. /\ Post("result", [kind |-> kind, by |-> Head(cli.todo)]) /\ cli.todo # <<>>
        /\ cli' = [cli EXCEPT !.todo = Tail(cli.todo)]
        /\ UNCHANGED <<pending, turns, phase, asks, timers, graces, overdue, answer, process, attempt, decider>>
    BY DEF CliReports, Working
  <2> PICK todo \in Seq(Nat), n \in Nat : todo = Tail(cli.todo) /\ n = Head(cli.todo)
    <3>1. cli.todo \in Seq(Nat) /\ cli.todo # <<>>
      BY <1>1, <2>1 DEF CliRec
    <3>2. Tail(cli.todo) \in Seq(Nat) /\ Head(cli.todo) \in Nat
      BY <3>1
    <3>3. QED
      BY <3>2
  <2>2. [kind |-> kind, by |-> n] \in [kind: Reports, by: Nat]
    BY DEF Reports
  <2> PICK S : /\ From(S) /\ \A m \in S : Reported(m)
               /\ \A m \in S : m.act \notin {"approval_request", "approval_decided"}
    BY <1>1, <2>1, <2>2, PostKeeps
  <2>3. cli' = [cli EXCEPT !.todo = todo]
    BY <2>1
  <2>4. cli' \in CliRec /\ cli'.told = cli.told
    BY <1>1, <2>3 DEF CliRec
  <2>5. QED
    BY <1>1, <2>1, <2>4, ElseKeeps
<1>4. QED
  BY <1>2, <1>3

(* A process of a turn goes on.                                            *)
LEMMA TurnTaskKeeps ==
  ASSUME ChatAssumption, ChatInv, NEW n \in DOMAIN process, TaskStarts(n) \/ TaskOver(n)
  PROVE  ChatInv'
<1>1. /\ UNCHANGED <<pending, turns, phase, asks, timers, graces, overdue, answer, cli, decider>>
      /\ process[n] \in {"starting", "running"}
      /\ attempt' = attempt \/ attempt' = [attempt EXCEPT ![n] = 2]
      /\ \/ process' = [process EXCEPT ![n] = "starting"] /\ inbox' = inbox
         \/ process' = [process EXCEPT ![n] = "running"] /\ inbox' = inbox
         \/ \E kind \in {"completed", "failed"} : TaskDone(n, kind)
  BY DEF TaskStarts, TaskOver, TaskEnds
<1>2. UNCHANGED <<turn, marked, stale, prompt, ends>>
  BY <1>1 DEF turns
<1> PICK what \in {"starting", "running", "gone"} :
      /\ process' = [process EXCEPT ![n] = what]
      /\ \/ inbox' = inbox
         \/ \E kind \in {"completed", "failed"} : what = "gone" /\ Post("turn_done", [kind |-> kind, by |-> n])
  BY <1>1 DEF TaskDone
<1>3. ~ Resident /\ n \in Nat /\ DOMAIN process = 1..Count /\ process \in Seq(Places)
  BY <1>1, TurnsAre DEF ChatInv, TurnPart, Processes
<1>4. /\ process' \in Seq(Places) /\ DOMAIN process' = DOMAIN process /\ Len(process') = Len(process)
      /\ process'[n] = what /\ \A k \in DOMAIN process \ {n} : process'[k] = process[k]
  <2>1. what \in Places
    BY DEF Places
  <2>2. Replaced(process', process, n, what, Places)
    BY <1>3, <2>1, ReplaceIs
  <2>3. QED
    BY <2>2 DEF Replaced
<1>5. attempt' \in Seq(Nat) /\ Len(attempt') = Len(attempt)
  <2>1. attempt \in Seq(Nat) /\ 2 \in Nat
    BY DEF ChatInv, ChatTypes, TurnTypes
  <2>2. CASE attempt' = [attempt EXCEPT ![n] = 2]
    <3>1. n \in DOMAIN attempt
      BY <1>3 DEF ChatInv, ChatTypes, TurnTypes
    <3>2. Replaced(attempt', attempt, n, 2, Nat)
      BY <2>1, <2>2, <3>1, ReplaceIs
    <3>3. QED
      BY <3>2 DEF Replaced
  <2>3. QED
    BY <1>1, <2>1, <2>2
<1>6. TurnTypes'
  BY <1>1, <1>2, <1>4, <1>5 DEF ChatInv, ChatTypes, TurnTypes, Count
<1>7. \E S : From(S) /\ \A m \in S : Reported(m)' /\ m.act = "turn_done"
  <2>1. CASE inbox' = inbox
    BY <2>1, CliKept, NothingPosted
  <2>2. CASE \E kind \in {"completed", "failed"} : what = "gone" /\ Post("turn_done", [kind |-> kind, by |-> n])
    <3> PICK kind \in {"completed", "failed"} : what = "gone" /\ Post("turn_done", [kind |-> kind, by |-> n])
      BY <2>2
    <3> PICK m : m = [act |-> "turn_done", arg |-> [kind |-> kind, by |-> n]]
      OBVIOUS
    <3>1. [kind |-> kind, by |-> n] \in [kind: Reports, by: Nat]
      BY <1>3 DEF Reports
    <3>2. m \in Message /\ m.act = "turn_done" /\ m.arg.by = n
      BY <3>1, MessageIs
    <3>3. From({m})
      BY <3>2, CliKept, PostIs
    <3>4. Reported(m)'
      BY <1>3, <1>4, <3>2 DEF Reported, Resident
    <3>5. QED
      BY <3>2, <3>3, <3>4
  <2>3. QED
    BY <2>1, <2>2
<1> PICK S : From(S) /\ \A m \in S : Reported(m)' /\ m.act = "turn_done"
  BY <1>7
<1>8. Processes'
  <2> PICK d \in {0, 1} : \A i \in DOMAIN inbox' :
        \/ i + d \in DOMAIN inbox /\ inbox'[i] = inbox[i + d]
        \/ i = Len(inbox') /\ inbox'[i] \in S
    BY DEF From
  <2>1. \A m : Reported(m) => Reported(m)'
    BY <1>1, <1>4 DEF Reported, Resident
  <2>2. \A i \in DOMAIN inbox : Reported(inbox[i])
    BY DEF ChatInv, TurnPart, Processes
  <2>3. ASSUME NEW i \in DOMAIN inbox'
        PROVE  Reported(inbox[i])'
    BY <2>1, <2>2 DEF Reported
  <2>4. QED
    BY <1>1, <1>3, <2>3 DEF ChatInv, TurnPart, Processes, Resident
<1>9. ProcessOfTurn'
  BY <1>1, <1>2, <1>3, <1>4 DEF ChatInv, TurnPart, ProcessOfTurn, Count
<1>10. Listed(ends, turn)' /\ TurnIsLast' /\ Distinct'
  BY <1>1, <1>2 DEF ChatInv, TurnPart, Listed, TurnIsLast, Distinct, Count, Resident
<1>11. AskTypes' /\ AskPart'
  <2>1. \A m \in S : m.act \notin {"approval_request", "approval_decided"}
    OBVIOUS
  <2>2. QED
    BY <1>1, <2>1, AsksKept
<1>12. QED
  BY <1>1, <1>6, <1>8, <1>9, <1>10, <1>11, CliKept DEF ChatInv, ChatTypes, TurnPart, From

LEMMA ChatStarts ==
  ASSUME ChatAssumption, ChatInit
  PROVE  ChatInv
<1>1. /\ inbox = <<>> /\ pending = <<>> /\ prompt = <<>> /\ ends = <<>> /\ process = <<>> /\ attempt = <<>> /\ turn = 0
      /\ phase = "open" /\ approvals = {} /\ timers = {} /\ graces = {} /\ rules = {} /\ overdue = {}
      /\ marked = FALSE /\ stale = 0
      /\ rows = [a \in Asks |-> "none"] /\ decider = [a \in Asks |-> "idle"] /\ answer = [r \in Prompts |-> "none"]
      /\ cli = [alive |-> Resident, todo |-> <<>>, told |-> [a \in Asks |-> <<>>]]
  BY DEF ChatInit
<1>2. cli \in CliRec /\ cli.alive = Resident /\ cli.todo = <<>> /\ \A a \in Asks : cli.told[a] = <<>>
  <2>3. [a \in Asks |-> <<>>] \in [Asks -> Seq({"allow", "deny"})]
    <3>1. <<>> \in Seq({"allow", "deny"})
      OBVIOUS
    <3>2. QED
      BY <3>1
  <2> PICK told \in [Asks -> Seq({"allow", "deny"})] : told = [a \in Asks |-> <<>>]
    BY <2>3
  <2>1. cli = [alive |-> Resident, todo |-> <<>>, told |-> told] /\ Resident \in BOOLEAN /\ <<>> \in Seq(Nat)
    BY <1>1 DEF Resident
  <2>2. QED
    BY <2>1 DEF CliRec
<1>3. TurnTypes
  <2>1. /\ pending \in Seq(Prompts) /\ Len(pending) <= QueueLimit /\ prompt \in Seq(Prompts) /\ Count = 0
        /\ ends \in Seq(EndRec) /\ process \in Seq(Places) /\ Len(process) = 0 /\ attempt \in Seq(Nat) /\ Len(attempt) = 0
    BY <1>1 DEF ChatAssumption, Count
  <2>2. turn \in 0..Count /\ graces \subseteq Nat /\ marked \in BOOLEAN /\ stale \in Nat
    <3>1. turn = 0 /\ graces = {} /\ marked = FALSE /\ stale = 0 /\ Count = 0
      BY <1>1, <2>1
    <3>2. 0 \in 0..0
      OBVIOUS
    <3>3. QED
      BY <3>1, <3>2
  <2>3. answer \in [Prompts -> {"none", "sent", "queued", "refused"}]
    BY <1>1
  <2>4. QED
    BY <1>1, <2>1, <2>2, <2>3 DEF TurnTypes
<1>4. AskTypes
  BY <1>1 DEF AskTypes
<1>5. TurnPart
  BY <1>1, <1>2 DEF TurnPart, Listed, TurnIsLast, Distinct, Processes, ProcessOfTurn, Count
<1>6. AskPart
  BY <1>1, <1>2 DEF AskPart, AsksSound, AskSound, Mail, RulesSound
<1>7. QED
  BY <1>1, <1>2, <1>3, <1>4, <1>5, <1>6 DEF ChatInv, ChatTypes

LEMMA ChatNextKeeps ==
  ASSUME ChatAssumption, ChatInv, [ChatNext]_chatvars
  PROVE  ChatInv'
<1>1. CASE OnWake \/ OnResult \/ OnTurnDone \/ OnGrace \/ OnInterrupt
  BY <1>1, WakeKeeps, ResultKeeps, TurnDoneKeeps, GraceKeeps, InterruptKeeps
<1>2. CASE OnRequest \/ OnDecided \/ OnExpire
  BY <1>2, RequestKeeps, DecidedKeeps, ExpiryKeeps
<1>3. CASE OnClose \/ OnExit \/ Finalize \/ Idle
  BY <1>3, OverKeeps, FinalizeKeeps, IdleKeeps DEF OnClose, OnExit
<1>4. CASE \E r \in Prompts : Submit(r)
  BY <1>4, SubmitKeeps
<1>5. CASE \E a \in Asks : Tell(a) \/ CliAsks(a) \/ \E how \in Decisions : Settle(a, how)
  BY <1>5, TellKeeps, SettleKeeps
<1>6. CASE (\E a \in Asks : Deadline(a) \/ ExpireTimer(a)) \/ (\E n \in graces : GraceTimer(n)) \/ UserInterrupt \/ UserClose
  BY <1>6, TimersKeep
<1>7. CASE (\E kind \in {"completed", "failed"} : CliReports(kind)) \/ CliExits
  BY <1>7, CliKeeps
<1>8. CASE \E n \in DOMAIN process : TaskStarts(n) \/ TaskOver(n)
  BY <1>8, TurnTaskKeeps
<1>9. CASE UNCHANGED chatvars
  <2>1. From({}) /\ UNCHANGED <<pending, turns, phase, asks, overdue, answer, process, attempt, decider, graces, timers, cli>>
    BY <1>9, CliKept, NothingPosted DEF chatvars
  <2>2. QED
    BY <2>1, CliKept, ElseKeeps
<1>10. QED
  BY <1>1, <1>2, <1>3, <1>4, <1>5, <1>6, <1>7, <1>8, <1>9 DEF ChatNext, Owner, Finished

LEMMA ChatInvSafe ==
  ASSUME ChatInv
  PROVE  ChatSafe
<1>1. ChatTypeOK
  BY DEF ChatInv, ChatTypes, TurnTypes, AskTypes, ChatTypeOK, Places
<1>2. OneEnding
  <2>1. DOMAIN prompt = 1..Count
    BY DEF ChatInv, ChatTypes, TurnTypes, Count
  <2>2. /\ \A i, j \in DOMAIN ends : i < j => ends[i].turn < ends[j].turn
        /\ \A n \in 1..Count : n # turn => \E i \in DOMAIN ends : ends[i].turn = n
    BY DEF ChatInv, TurnPart, Listed
  <2>3. \A n \in 1..Count : n # turn => Endings(n) # {}
    BY <2>2 DEF Endings
  <2>4. QED
    BY <2>1, <2>2, <2>3 DEF ChatInv, TurnPart, TurnIsLast, Distinct, OneEnding
<1>3. ProcessOfTurn
  BY DEF ChatInv, TurnPart
<1>4. AnswerMatchesRow
  <2>1. ASSUME NEW a \in Asks
        PROVE  /\ Len(cli.told[a]) <= 1
               /\ "allow" \in AnswersTo(a) => rows[a] \in {"allowed", "ruled"}
               /\ "deny" \in AnswersTo(a) => rows[a] \in {"denied", "expired"}
    <3>1. CASE cli.told[a] = <<>>
      BY <3>1 DEF AnswersTo, Values
    <3>2. CASE cli.told[a] = <<"allow">> /\ rows[a] \in {"allowed", "ruled"}
      BY <3>2 DEF AnswersTo, Values
    <3>3. CASE cli.told[a] = <<"deny">> /\ rows[a] \in {"denied", "expired"}
      BY <3>3 DEF AnswersTo, Values
    <3>4. QED
      BY <3>1, <3>2, <3>3, AsksAre DEF AskSound
  <2>2. QED
    BY <2>1 DEF AnswerMatchesRow
<1>5. RulesAreGranted
  <2>1. ASSUME NEW a \in Asks, rows[a] = "ruled"
        PROVE  KeyOf(a) # "compound" /\ \E b \in Deciders \ {a} : KeyOf(b) = KeyOf(a) /\ decider[b] = "allow_session"
    <3>1. Granted(KeyOf(a)) /\ decider[a] = "idle"
      BY <2>1, AsksAre DEF AskPart, RulesSound, AskSound
    <3>2. QED
      BY <3>1 DEF Granted
  <2>2. QED
    BY <2>1 DEF RulesAreGranted
<1>6. CASE Resident
  <2>1. NothingLeft
    BY <1>6, TurnsAre DEF ChatInv, TurnPart, Processes, NothingLeft
  <2>2. QED
    BY <1>1, <1>2, <1>3, <1>4, <1>5, <1>6, <2>1 DEF ChatSafe
<1>7. CASE ~ Resident
  <2>1. ResultOfTurn
    BY <1>7 DEF ChatInv, TurnPart, Listed, ResultOfTurn
  <2>2. QED
    BY <1>1, <1>2, <1>3, <1>4, <1>5, <1>7, <2>1 DEF ChatSafe
<1>8. QED
  BY <1>6, <1>7

(* What ChatSafe says of a session, of every reachable state.              *)
THEOREM ChatIsSafe ==
  ASSUME ChatAssumption PROVE ChatSpec => []ChatSafe
<1>1. ChatInit => ChatInv
  BY ChatStarts
<1>2. ChatInv /\ [ChatNext]_chatvars => ChatInv'
  BY ChatNextKeeps
<1>3. ChatInv => ChatSafe
  BY ChatInvSafe
<1>4. QED
  BY <1>1, <1>2, <1>3, PTL DEF ChatSpec
=============================================================================

---------------------------- MODULE ConfigStore ----------------------------
(***************************************************************************)
(* The configuration store, adapters/config_store.py: one file that any    *)
(* number of processes replace atomically, each serialised by a lock of    *)
(* its event loop and all of them by a lock file.  The operation runs in a *)
(* thread that outlives a cancelled caller.  guard of services/tasks.py    *)
(* and the acceptance of services/runs.py run inside the locks.            *)
(***************************************************************************)
EXTENDS Naturals, Sequences, FiniteSets

CONSTANTS
  Procs,      \* processes that share the data directory
  Callers,    \* coroutines that call the store
  Home,       \* caller -> its process
  Kind,       \* caller -> "edit", "other", "remove", "accept" or "migrate"
  Journal,    \* the process that owns the run journal
  Schema,     \* schema of the file at the start: "old" or "current"
  Cancels,    \* bound: cancellations of one caller
  Faults,     \* bound: failed writes and damages of the file
  Deaths,     \* bound: processes that die
  Nobody

HomeAssumption ==
  /\ Home \in [Callers -> Procs]
  /\ Kind \in [Callers -> {"edit", "other", "remove", "accept", "migrate"}]
  /\ Journal \in Procs /\ Nobody \notin Callers
  /\ Schema \in {"old", "current"} /\ Cancels \in Nat /\ Faults \in Nat /\ Deaths \in Nat

VARIABLES
  file,       \* config.json: [schema, rev, task]; schema "damaged" when it does not parse
  backup,     \* revisions of the old schema that have a durable copy
  flock,      \* the caller whose thread holds config.lock
  mutex,      \* process -> the caller that holds _lock
  job,        \* caller -> [pc, base, tx, made, posted, out, cancels]
  reply,      \* caller -> what it is told
  mail,       \* process -> revisions posted to its event loop
  heard,      \* process -> revisions on_change was called with
  run,        \* caller that accepts -> "none", "active" or "ended"
  faults      \* faults and deaths left

cvars == <<file, backup, flock, mutex, job, reply, mail, heard, run, faults>>

None   == 0
Wanted == [c \in Callers |-> IF Kind[c] = "remove" THEN 2 ELSE IF Kind[c] = "accept" THEN 0 ELSE 1]
Revisions == Nat \ {0}
Threads == {"reading", "flocking", "deciding", "writing", "replaced", "leaving"}
Outs    == {"none", "ok", "nothing", "refused", "partial", "unsure"}

(* base: the revision the caller expects, None for run(None, ...).         *)
(* tx: the revision of the transaction's copy of the configuration.        *)
NewJob == [pc |-> "idle", base |-> None, tx |-> None, frozen |-> Nobody, made |-> 0,
           posted |-> <<>>, out |-> "none", cancels |-> 0]

ConfigTypeOK ==
  /\ file \in [schema: {"old", "current", "damaged"}, rev: Revisions, task: Callers \cup {Nobody}]
  /\ backup \subseteq Revisions
  /\ flock \in Callers \cup {Nobody}
  /\ mutex \in [Procs -> Callers \cup {Nobody}]
  /\ \A c \in Callers :
       /\ job[c].pc \in Threads \cup {"idle", "queued", "ended", "over"}
       /\ job[c].base \in Revisions \cup {None} /\ job[c].tx \in Revisions \cup {None}
       /\ job[c].frozen \in Callers \cup {Nobody} /\ job[c].made \in 0..2
       /\ job[c].posted \in Seq(Revisions)
       /\ job[c].out \in Outs /\ job[c].cancels \in 0..Cancels
  /\ reply \in [Callers -> Outs \cup {"cancelled"}]
  /\ mail \in [Procs -> Seq(Revisions)] /\ heard \in [Procs -> Seq(Revisions)]
  /\ run \in [Callers -> {"none", "active", "ended"}]
  /\ faults \in [io: 0..Faults, death: 0..Deaths]

ConfigInit ==
  /\ file = [schema |-> Schema, rev |-> 1, task |-> Nobody]
  /\ backup = {}
  /\ flock = Nobody /\ mutex = [p \in Procs |-> Nobody]
  /\ job = [c \in Callers |-> NewJob]
  /\ reply = [c \in Callers |-> "none"]
  /\ mail = [p \in Procs |-> <<>>] /\ heard = [p \in Procs |-> <<>>]
  /\ run = [c \in Callers |-> "none"]
  /\ faults = [io |-> Faults, death |-> Deaths]

-----------------------------------------------------------------------------
Goes(c, pc) == job' = [job EXCEPT ![c].pc = pc]
Fails(c) == job' = [job EXCEPT ![c].pc = "leaving",
                               ![c].out = IF job[c].made = 0 THEN "refused" ELSE "partial"]
Faulty == faults.io > 0 /\ faults' = [faults EXCEPT !.io = @ - 1]
Disk == <<file, backup>>
Loop == <<mail, heard, run>>

(* A client reads the configuration and sends back its revision; a plan of *)
(* a run also freezes the task.  Internal operations expect no revision.   *)
Calls(c) ==
  /\ job[c].pc = "idle"
  /\ \/ /\ Kind[c] # "migrate"
        /\ file.schema = "current"
        /\ job' = [job EXCEPT ![c].pc = "queued", ![c].base = file.rev, ![c].frozen = file.task]
     \/ /\ Kind[c] = "migrate"
        /\ Goes(c, "queued")
  /\ UNCHANGED <<Disk, flock, mutex, reply, Loop, faults>>

(* _serialized: the lock of the event loop, for five seconds at most.      *)
Serializes(c) ==
  /\ job[c].pc = "queued"
  /\ mutex[Home[c]] = Nobody
  /\ mutex' = [mutex EXCEPT ![Home[c]] = c]
  /\ Goes(c, "reading")
  /\ UNCHANGED <<Disk, flock, reply, Loop, faults>>

QueueTimeout(c) ==
  /\ job[c].pc = "queued"
  /\ mutex[Home[c]] # Nobody
  /\ Goes(c, "over")
  /\ reply' = [reply EXCEPT ![c] = "refused"]
  /\ UNCHANGED <<Disk, flock, mutex, Loop, faults>>

(* The file is read before it is locked: a damaged one is left as it is.   *)
(* _initialize goes on only with an older schema.                          *)
Readable(c) == IF Kind[c] = "migrate" THEN file.schema = "old" ELSE file.schema = "current"

ReadsFirst(c) ==
  /\ job[c].pc = "reading"
  /\ IF Readable(c) THEN Goes(c, "flocking")
     ELSE IF Kind[c] = "migrate" /\ file.schema = "current"
       THEN job' = [job EXCEPT ![c].pc = "leaving", ![c].out = "nothing"]
       ELSE Fails(c)
  /\ UNCHANGED <<Disk, flock, mutex, reply, Loop, faults>>

(* _file_lock: flock excludes the threads of every process, this one too.  *)
Flocks(c) ==
  /\ job[c].pc = "flocking"
  /\ flock = Nobody
  /\ flock' = c
  /\ Goes(c, "deciding")
  /\ UNCHANGED <<Disk, mutex, reply, Loop, faults>>

FlockTimeout(c) ==
  /\ job[c].pc = "flocking"
  /\ flock # Nobody
  /\ Fails(c)
  /\ UNCHANGED <<Disk, flock, mutex, reply, Loop, faults>>

-----------------------------------------------------------------------------
(* guard, before every commit that changes a task: none that an active run *)
(* has frozen, and none at all where the journal cannot be read.           *)
(* The first commit of an edit or of a removal changes what a run froze.   *)
ChangesTask(c) == Kind[c] \in {"edit", "remove"} /\ job[c].made = 0

(* Mutant: a process without the journal has no active runs.               *)
GuardLocally(c) ==
  ChangesTask(c) /\ Home[c] = Journal => \A a \in Callers : run[a] # "active"

Guard(c) ==
  ChangesTask(c) => Home[c] = Journal /\ \A a \in Callers : run[a] # "active"

(* _run reads again under the lock and compares the revision.              *)
Expected(c) == job[c].base \in {None, file.rev}

Begins(c) ==
  /\ job[c].pc = "deciding" /\ job[c].tx = None
  /\ Kind[c] # "migrate"
  /\ IF file.schema = "current" /\ Expected(c)
       THEN job' = [job EXCEPT ![c].tx = file.rev,
                               ![c].base = IF @ = None THEN file.rev ELSE @]
       ELSE Fails(c)
  /\ UNCHANGED <<Disk, flock, mutex, reply, Loop, faults>>

(* Transaction.commit up to the replacement: validate, guard, write a temp *)
(* file.  Any of them may refuse; an operation may also end between two.   *)
Prepares(c) ==
  /\ job[c].pc = "deciding" /\ job[c].tx # None
  /\ job[c].made < Wanted[c]
  /\ IF Guard(c) THEN Goes(c, "writing") ELSE Fails(c)
  /\ UNCHANGED <<Disk, flock, mutex, reply, Loop, faults>>

WriteFails(c) ==
  /\ job[c].pc \in {"deciding", "writing"} /\ job[c].made < Wanted[c]
  /\ Faulty
  /\ Fails(c)
  /\ UNCHANGED <<Disk, flock, mutex, reply, Loop>>

(* os.replace, the commit point.                                           *)
Replaces(c) ==
  /\ job[c].pc = "writing"
  /\ file' = [schema |-> "current", rev |-> job[c].tx + 1,
              task |-> IF ChangesTask(c) THEN c ELSE file.task]
  /\ job' = [job EXCEPT ![c].pc = "replaced", ![c].made = @ + 1]
  /\ UNCHANGED <<backup, flock, mutex, reply, Loop, faults>>

(* What follows the replacement may fail: the file is then read back, and  *)
(* the commit is reported unless that fails too.                           *)
(* Mutant: the fault is reported as a failed write.                        *)
ConfirmsNothing(c) ==
  /\ job[c].pc = "replaced"
  /\ \/ /\ job' = [job EXCEPT ![c].pc = "deciding", ![c].tx = @ + 1, ![c].posted = Append(@, job[c].tx + 1)]
        /\ UNCHANGED faults
     \/ /\ Faulty
        /\ job' = [job EXCEPT ![c].pc = "leaving", ![c].out = "refused"]
  /\ UNCHANGED <<Disk, flock, mutex, reply, Loop>>

Confirms(c) ==
  /\ job[c].pc = "replaced"
  /\ \/ /\ job' = [job EXCEPT ![c].pc = "deciding", ![c].tx = @ + 1,
                              ![c].posted = Append(@, job[c].tx + 1)]
        /\ UNCHANGED faults
     \/ /\ Faulty
        /\ job' = [job EXCEPT ![c].pc = "leaving", ![c].out = "unsure"]
  /\ UNCHANGED <<Disk, flock, mutex, reply, Loop>>

(* The operation of an acceptance creates the run under both locks.        *)
Accepts(c) ==
  /\ job[c].pc = "deciding" /\ job[c].tx # None
  /\ Kind[c] = "accept"
  /\ \/ /\ Home[c] = Journal
        /\ run' = [run EXCEPT ![c] = "active"]
        /\ job' = [job EXCEPT ![c].pc = "leaving", ![c].out = "ok"]
     \/ /\ Fails(c)
        /\ UNCHANGED run
  /\ UNCHANGED <<Disk, flock, mutex, reply, mail, heard, faults>>

RunEnds(c) ==
  /\ run[c] = "active"
  /\ run' = [run EXCEPT ![c] = "ended"]
  /\ UNCHANGED <<Disk, flock, mutex, job, reply, mail, heard, faults>>

Completes(c) ==
  /\ job[c].pc = "deciding" /\ job[c].tx # None
  /\ Kind[c] # "accept" /\ job[c].made = Wanted[c]
  /\ job' = [job EXCEPT ![c].pc = "leaving", ![c].out = "ok"]
  /\ UNCHANGED <<Disk, flock, mutex, reply, Loop, faults>>

(* _backup: the copy is on the disk when it returns                        *)
Saves == backup' = backup \cup {file.rev}

(* _initialize under the lock: read again, and the backup is durable       *)
(* before the replacement begins.                                          *)
Migrates(c) ==
  /\ job[c].pc = "deciding" /\ job[c].tx = None
  /\ Kind[c] = "migrate"
  /\ \/ /\ file.schema = "old"
        /\ Saves
        /\ job' = [job EXCEPT ![c].pc = "writing", ![c].tx = file.rev, ![c].base = file.rev]
     \/ /\ file.schema = "current"
        /\ job' = [job EXCEPT ![c].pc = "leaving", ![c].out = "nothing"]
        /\ UNCHANGED backup
     \/ /\ file.schema = "damaged"
        /\ Fails(c)
        /\ UNCHANGED backup
  /\ UNCHANGED <<file, flock, mutex, reply, Loop, faults>>

-----------------------------------------------------------------------------
(* The thread ends: committed revisions are posted to the event loop, also *)
(* after a later error, and the lock file is released.                     *)
Leaves(c) ==
  /\ job[c].pc = "leaving"
  /\ mail' = [mail EXCEPT ![Home[c]] = @ \o job[c].posted]
  /\ flock' = IF flock = c THEN Nobody ELSE flock
  /\ Goes(c, "ended")
  /\ UNCHANGED <<Disk, mutex, reply, heard, run, faults>>

Releases(c) == mutex' = [p \in Procs |-> IF mutex[p] = c THEN Nobody ELSE mutex[p]]

(* The coroutine resumes: the lock is released and the caller answered.    *)
Resumes(c) ==
  /\ job[c].pc = "ended"
  /\ Releases(c)
  /\ reply' = [reply EXCEPT ![c] = IF @ = "none" THEN job[c].out ELSE @]
  /\ Goes(c, "over")
  /\ UNCHANGED <<Disk, flock, Loop, faults>>

(* A caller that is cancelled waits for its thread, but not if it is       *)
(* cancelled again: the wait is not shielded any more.                     *)
Cancelled(c) ==
  /\ job[c].pc \in Threads \cup {"ended"}
  /\ job[c].cancels < Cancels
  /\ job' = [job EXCEPT ![c].cancels = @ + 1]
  /\ reply' = [reply EXCEPT ![c] = "cancelled"]
  /\ IF job[c].cancels > 0 THEN Releases(c) ELSE UNCHANGED mutex
  /\ UNCHANGED <<Disk, flock, Loop, faults>>

Publishes(p) ==
  /\ mail[p] # <<>>
  /\ heard' = [heard EXCEPT ![p] = Append(@, Head(mail[p]))]
  /\ mail' = [mail EXCEPT ![p] = Tail(@)]
  /\ UNCHANGED <<Disk, flock, mutex, job, reply, run, faults>>

(* A process dies: its threads and its locks with it.                      *)
Dies(p) ==
  /\ faults.death > 0 /\ faults' = [faults EXCEPT !.death = @ - 1]
  /\ \E c \in Callers : Home[c] = p /\ job[c].pc \notin {"idle", "over"}
  /\ job' = [c \in Callers |-> IF Home[c] = p THEN [job[c] EXCEPT !.pc = "over"] ELSE job[c]]
  /\ mutex' = [mutex EXCEPT ![p] = Nobody]
  /\ flock' = IF flock # Nobody /\ Home[flock] = p THEN Nobody ELSE flock
  /\ mail' = [mail EXCEPT ![p] = <<>>]
  /\ UNCHANGED <<Disk, reply, heard, run>>

(* Somebody else damages the file, while no writer is at work on it.       *)
Damaged ==
  /\ Faulty
  /\ flock = Nobody /\ file.schema # "damaged"
  /\ file' = [file EXCEPT !.schema = "damaged"]
  /\ UNCHANGED <<backup, flock, mutex, job, reply, Loop>>

-----------------------------------------------------------------------------
Thread(c) ==
  \/ ReadsFirst(c) \/ Flocks(c) \/ FlockTimeout(c) \/ Begins(c) \/ Prepares(c)
  \/ Replaces(c) \/ Confirms(c) \/ Accepts(c) \/ Completes(c) \/ Migrates(c) \/ Leaves(c)

Caller(c) == Serializes(c) \/ QueueTimeout(c) \/ Resumes(c)

ConfigNext ==
  \/ \E c \in Callers : Calls(c) \/ Caller(c) \/ Thread(c) \/ WriteFails(c) \/ Cancelled(c) \/ RunEnds(c)
  \/ \E p \in Procs : Publishes(p) \/ Dies(p)
  \/ Damaged

ConfigSpec == ConfigInit /\ [][ConfigNext]_cvars

-----------------------------------------------------------------------------
(* Two processes, a cancelled caller and its thread, a failed write: the   *)
(* store is one register of which every commit extends what its writer     *)
(* read, and "the write failed" means that it did not happen.              *)
Register == INSTANCE ConfigRegister WITH
  rev   <- file.rev,
  base  <- [c \in Callers |-> job[c].base],
  made  <- [c \in Callers |-> job[c].made],
  reply <- [c \in Callers |-> job[c].out],
  NoBase <- None

ImplementsRegister == Register!RegisterSpec

(* What an active run was accepted with is what the configuration says for *)
(* as long as it is active, whichever process edits it.                    *)
FrozenWhileActive ==
  \A c \in Callers : run[c] = "active" => file.task = job[c].frozen

(* "A thread cannot be cancelled. Keep ownership until it releases flock": *)
(* no second thread of a process starts beside one that still runs.        *)
LockCoversThread ==
  \A c \in Callers : job[c].pc \in Threads => mutex[Home[c]] = c

(* on_change is called with committed revisions, each once, in order.      *)
HeardInOrder ==
  \A p \in Procs :
    LET all == heard[p] \o mail[p] IN
      \A i \in DOMAIN all : all[i] <= file.rev /\ \A j \in 1..i - 1 : all[j] < all[i]

(* A damaged file is never overwritten, and an old one only after a copy   *)
(* of it is durable.                                                       *)
OriginalKept ==
  /\ file.schema = "damaged" => file' = file
  /\ file.schema = "old" /\ file'.schema = "current" => file.rev \in backup

(* Every commit that was confirmed is announced to the clients of its      *)
(* process, also when the operation failed later or its caller has gone:   *)
(* Posted leads to Announced.                                              *)
Posted(c) == job[c].posted # <<>> /\ job[c].pc = "leaving"
Announced(c) ==
  \A i \in DOMAIN job[c].posted : \E n \in DOMAIN heard[Home[c]] : heard[Home[c]][n] = job[c].posted[i]

(* Nobody waits for ever: whoever called is answered.                      *)
Waits(c) == job[c].pc = "queued"
Answered(c) == job[c].pc = "over"

(* What a run froze does not change, a thread writes under the lock of its *)
(* process, and revisions are announced in order.  (A caller cancelled     *)
(* twice gives the lock back early: see the README.)                       *)
ConfigSafe ==
  ConfigTypeOK /\ FrozenWhileActive /\ HeardInOrder /\ (Cancels <= 1 => LockCoversThread)
=============================================================================

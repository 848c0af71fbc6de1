-------------------------- MODULE ConfigStoreProofs --------------------------
(***************************************************************************)
(* The configuration store for any number of processes, callers, failures  *)
(* and deaths: it is one register, what an active run froze stays, and     *)
(* every process hears committed revisions in order; and its credentials   *)
(* for any libraries, addresses, failures and deaths.                      *)
(***************************************************************************)
EXTENDS ConfigStore, SettingsCredentials, SequenceTheorems, FiniteSetTheorems, TLAPS

JobRecord ==
  [pc: Threads \cup {"idle", "queued", "ended", "over"}, base: Revisions \cup {None},
   tx: Revisions \cup {None}, frozen: Callers \cup {Nobody}, made: 0..2,
   posted: Seq(Revisions), out: Outs, cancels: 0..Cancels]

Types ==
  /\ file \in [schema: {"old", "current", "damaged"}, rev: Revisions, task: Callers \cup {Nobody}]
  /\ backup \subseteq Revisions
  /\ flock \in Callers \cup {Nobody}
  /\ mutex \in [Procs -> Callers \cup {Nobody}]
  /\ job \in [Callers -> JobRecord]
  /\ reply \in [Callers -> Outs \cup {"cancelled"}]
  /\ mail \in [Procs -> Seq(Revisions)] /\ heard \in [Procs -> Seq(Revisions)]
  /\ run \in [Callers -> {"none", "active", "ended"}]
  /\ faults \in [io: 0..Faults, death: 0..Deaths]

(* Before its thread has the lock file a caller has done nothing.          *)
NotStarted(c) ==
  job[c].pc \in {"idle", "queued", "reading", "flocking"} =>
    /\ job[c].tx = None /\ job[c].made = 0 /\ job[c].out = "none"
    /\ job[c].posted = <<>> /\ run[c] = "none"

(* The transaction under way is the one of the caller that holds the lock  *)
(* file; its copy of the configuration is the file's, one commit behind    *)
(* while a replacement is not confirmed, and it builds on the revision the *)
(* caller began from.                                                      *)
Holding(c) ==
  /\ job[c].pc \in {"deciding", "writing", "replaced"} => flock = c /\ job[c].out = "none"
  /\ flock = c => job[c].pc \in {"deciding", "writing", "replaced", "leaving"}

Copy(c) ==
  /\ job[c].tx = None => job[c].made = 0 /\ job[c].posted = <<>>
  /\ job[c].pc \in {"writing", "replaced"} => job[c].tx # None
  /\ job[c].pc \in {"deciding", "writing"} /\ job[c].tx # None =>
       job[c].tx = file.rev /\ file.rev = job[c].base + job[c].made
  /\ job[c].pc = "replaced" =>
       job[c].made # 0 /\ job[c].tx + 1 = file.rev /\ file.rev = job[c].base + job[c].made
  /\ job[c].made <= Wanted[c]
  /\ job[c].pc = "writing" => job[c].made < Wanted[c]

(* It never writes over a file that it could not read, nor over an old one *)
(* without a copy.                                                         *)
Sources(c) ==
  /\ job[c].pc \in {"deciding", "writing", "replaced"} /\ job[c].tx # None =>
       \/ file.schema = "current"
       \/ file.schema = "old" /\ job[c].pc = "writing" /\ file.rev \in backup

(* A revision stands for the task that was written with it.                *)
Began(c) ==
  /\ job[c].base = None \/ job[c].base <= file.rev
  /\ job[c].tx # None => job[c].base # None
  /\ Kind[c] # "migrate" =>
       /\ job[c].pc \in Threads \cup {"queued"} => job[c].base # None
       /\ job[c].base = file.rev => job[c].frozen = file.task

Frozen(c) ==
  /\ run[c] = "active" => Kind[c] = "accept" /\ job[c].frozen = file.task
  /\ job[c].pc = "writing" /\ ChangesTask(c) => \A a \in Callers : run[a] # "active"

Ordered(s) == \A i, j \in DOMAIN s : j < i => s[j] < s[i]

Posts(c) ==
  /\ Ordered(job[c].posted)
  /\ \A i \in DOMAIN job[c].posted :
       /\ job[c].base < job[c].posted[i] /\ job[c].posted[i] <= file.rev
       /\ job[c].pc \in {"deciding", "writing", "replaced"} => job[c].posted[i] <= job[c].tx
  /\ job[c].pc = "leaving" /\ job[c].posted # <<>> => flock = c

All(p) == heard[p] \o mail[p]

Mails ==
  \A p \in Procs :
    /\ Ordered(All(p))
    /\ \A i \in DOMAIN All(p) :
         /\ All(p)[i] <= file.rev
         /\ \A c \in Callers : flock = c /\ job[c].tx # None => All(p)[i] <= job[c].base

Locks == Cancels <= 1 => LockCoversThread

JobInv(c) == NotStarted(c) /\ Holding(c) /\ Copy(c) /\ Sources(c) /\ Began(c) /\ Frozen(c) /\ Posts(c)

ConfigInv == Types /\ (\A c \in Callers : JobInv(c)) /\ Mails /\ Locks

-----------------------------------------------------------------------------
LEMMA Start == HomeAssumption /\ ConfigInit => ConfigInv
<1> SUFFICES ASSUME HomeAssumption, ConfigInit PROVE ConfigInv
  OBVIOUS
<1> USE DEF ConfigInit
<1>1. <<>> \in Seq(Revisions)
  OBVIOUS
<1>2. NewJob \in JobRecord
  BY <1>1 DEF NewJob, JobRecord, Outs, HomeAssumption
<1>3. Types
  BY <1>1, <1>2 DEF Types, HomeAssumption, Revisions, Outs
<1>4. ASSUME NEW c \in Callers PROVE JobInv(c)
  <2>1. job[c] = NewJob /\ run[c] = "none" /\ flock = Nobody /\ flock # c
    BY DEF HomeAssumption
  <2>2. Wanted[c] \in Nat
    BY DEF Wanted
  <2> QED
    BY <2>1, <2>2
       DEF JobInv, NotStarted, Holding, Copy, Sources, Began, Frozen, Posts, NewJob, Ordered, Threads, None,
           Revisions
<1>5. Mails
  <2> SUFFICES ASSUME NEW p \in Procs PROVE All(p) = <<>>
    BY DEF Mails, Ordered
  <2> QED
    BY DEF All
<1>6. Locks
  BY DEF Locks, LockCoversThread, NewJob, Threads
<1> QED
  BY <1>3, <1>4, <1>5, <1>6 DEF ConfigInv

(* What a step may do to the job of one caller, and to nobody else's.      *)
LEMMA OneJob ==
  ASSUME Types, NEW c \in Callers, NEW j \in JobRecord, job' = [job EXCEPT ![c] = j]
  PROVE  /\ job' \in [Callers -> JobRecord] /\ job'[c] = j
         /\ \A d \in Callers \ {c} : job'[d] = job[d]
BY DEF Types

(* The fields that an action may set have the types of the record.         *)
LEMMA Records ==
  ASSUME NEW j \in JobRecord
  PROVE  /\ \A pc \in Threads \cup {"idle", "queued", "ended", "over"} : [j EXCEPT !.pc = pc] \in JobRecord
         /\ \A pc \in Threads, out \in Outs : [j EXCEPT !.pc = pc, !.out = out] \in JobRecord
BY DEF JobRecord, Threads

(* Every job is a record, and every variable has its type.                 *)
LEMMA TypesKept ==
  ASSUME HomeAssumption, ConfigInv, [ConfigNext]_cvars
  PROVE  Types'
<1> USE DEF Disk, Loop
<1>0. Types /\ \A c \in Callers : JobInv(c) /\ job[c] \in JobRecord
  BY DEF ConfigInv, Types
<1> USE <1>0
<1>p. Procs # {} /\ \A c \in Callers : Home[c] \in Procs
  BY DEF HomeAssumption
<1>f. Faulty => faults' \in [io: 0..Faults, death: 0..Deaths]
  <2>1. faults \in [io: 0..Faults, death: 0..Deaths] /\ Faults \in Nat
    BY DEF Types, HomeAssumption
  <2>2. faults.io > 0 => faults.io - 1 \in 0..Faults
    BY <2>1
  <2> QED
    BY <2>1, <2>2 DEF Faulty
<1>g. ASSUME NEW c \in Callers, NEW pc \in Threads \cup {"idle", "queued", "ended", "over"}, Goes(c, pc)
      PROVE  job' \in [Callers -> JobRecord]
  BY <1>g, Records DEF Goes, Types
<1>h. ASSUME NEW c \in Callers, Fails(c)
      PROVE  job' \in [Callers -> JobRecord]
  BY <1>h, Records DEF Fails, Types, Threads, Outs
<1>l. ASSUME NEW c \in Callers, NEW out \in Outs, job' = [job EXCEPT ![c].pc = "leaving", ![c].out = out]
      PROVE  job' \in [Callers -> JobRecord]
  BY <1>l, Records DEF Types, Threads
<1>m. \A c \in Callers : (Releases(c) => mutex' \in [Procs -> Callers \cup {Nobody}])
  BY DEF Releases, Types
<1>1. ASSUME NEW c \in Callers, Calls(c) PROVE Types'
  <2>1. CASE Goes(c, "queued")
    BY <1>1, <1>g, <2>1 DEF Calls, Types
  <2>2. CASE job' = [job EXCEPT ![c].pc = "queued", ![c].base = file.rev, ![c].frozen = file.task]
    <3>1. file.rev \in Revisions /\ file.task \in Callers \cup {Nobody}
      BY DEF Types
    <3>2. [job[c] EXCEPT !.pc = "queued", !.base = file.rev, !.frozen = file.task] \in JobRecord
      BY <3>1 DEF JobRecord
    <3>3. job' \in [Callers -> JobRecord]
      BY <2>2, <3>2 DEF Types
    <3> QED
      BY <1>1, <3>3 DEF Calls, Types
  <2> QED
    BY <1>1, <2>1, <2>2 DEF Calls
<1>2. ASSUME NEW c \in Callers, Caller(c) PROVE Types'
  <2>1. CASE Serializes(c)
    BY <1>g, <1>p, <2>1 DEF Serializes, Types, Threads
  <2>2. CASE QueueTimeout(c)
    BY <1>g, <2>2 DEF QueueTimeout, Types, Outs
  <2>3. CASE Resumes(c)
    <3>1. reply' \in [Callers -> Outs \cup {"cancelled"}]
      BY <2>3 DEF Resumes, Types, JobRecord
    <3> QED
      BY <1>g, <1>m, <2>3, <3>1 DEF Resumes, Types
  <2> QED
    BY <1>2, <2>1, <2>2, <2>3 DEF Caller
<1>3. ASSUME NEW c \in Callers, ReadsFirst(c) \/ FlockTimeout(c) \/ Prepares(c) \/ Completes(c) PROVE Types'
  <2>1. UNCHANGED <<file, backup, flock, mutex, reply, mail, heard, run, faults>>
    BY <1>3 DEF ReadsFirst, FlockTimeout, Prepares, Completes
  <2>2. job' \in [Callers -> JobRecord]
    BY <1>3, <1>g, <1>h, <1>l DEF ReadsFirst, FlockTimeout, Prepares, Completes, Threads, Outs
  <2> QED
    BY <2>1, <2>2 DEF Types
<1>4. ASSUME NEW c \in Callers, Flocks(c) PROVE Types'
  BY <1>4, <1>g DEF Flocks, Types, Threads
<1>5. ASSUME NEW c \in Callers, Begins(c) PROVE Types'
  <2>1. CASE Fails(c)
    BY <1>5, <1>h, <2>1 DEF Begins, Types
  <2>2. CASE job' = [job EXCEPT ![c].tx = file.rev, ![c].base = IF @ = None THEN file.rev ELSE @]
    <3>1. file.rev \in Revisions
      BY DEF Types
    <3>2. [job[c] EXCEPT !.tx = file.rev, !.base = IF @ = None THEN file.rev ELSE @] \in JobRecord
      BY <3>1 DEF JobRecord
    <3>3. job' \in [Callers -> JobRecord]
      BY <2>2, <3>2 DEF Types
    <3> QED
      BY <1>5, <3>3 DEF Begins, Types
  <2> QED
    BY <1>5, <2>1, <2>2 DEF Begins
<1>6. ASSUME NEW c \in Callers, Replaces(c) PROVE Types'
  <2>1. job[c].tx \in Nat /\ job[c].made \in 0..1
    BY <1>6 DEF Replaces, JobInv, Copy, JobRecord, Wanted, Revisions, None
  <2>2. [job[c] EXCEPT !.pc = "replaced", !.made = job[c].made + 1] \in JobRecord
    <3>1. job[c].made + 1 \in 0..2
      BY <2>1
    <3> QED
      BY <3>1 DEF JobRecord, Threads
  <2>3. job' \in [Callers -> JobRecord]
    BY <1>6, <2>2 DEF Replaces, Types
  <2>4. file' \in [schema: {"old", "current", "damaged"}, rev: Revisions, task: Callers \cup {Nobody}]
    BY <1>6, <2>1 DEF Replaces, Types, Revisions
  <2> QED
    BY <1>6, <2>3, <2>4 DEF Replaces, Types
<1>7. ASSUME NEW c \in Callers, Confirms(c) PROVE Types'
  <2>1. job[c].tx \in Nat /\ job[c].tx + 1 \in Revisions
    BY DEF JobRecord, Revisions, None
  <2>2. Append(job[c].posted, job[c].tx + 1) \in Seq(Revisions)
    BY <2>1 DEF JobRecord
  <2>3. [job[c] EXCEPT !.pc = "deciding", !.tx = @ + 1, !.posted = Append(@, job[c].tx + 1)] \in JobRecord
    BY <2>1, <2>2 DEF JobRecord, Threads
  <2>4. job' \in [Callers -> JobRecord]
    <3>1. CASE job' = [job EXCEPT ![c].pc = "deciding", ![c].tx = @ + 1,
                                  ![c].posted = Append(@, job[c].tx + 1)]
      BY <2>3, <3>1 DEF Types
    <3>2. CASE job' = [job EXCEPT ![c].pc = "leaving", ![c].out = "unsure"]
      BY <1>l, <3>2 DEF Outs
    <3> QED
      BY <1>7, <3>1, <3>2 DEF Confirms
  <2> QED
    BY <1>7, <1>f, <2>4 DEF Confirms, Types
<1>8. ASSUME NEW c \in Callers, Accepts(c) PROVE Types'
  <2>1. job' \in [Callers -> JobRecord]
    BY <1>8, <1>h, <1>l DEF Accepts, Outs
  <2> QED
    BY <1>8, <2>1 DEF Accepts, Types
<1>9. ASSUME NEW c \in Callers, Migrates(c) PROVE Types'
  <2>0. file.rev \in Revisions
    BY DEF Types
  <2>1. [job[c] EXCEPT !.pc = "writing", !.tx = file.rev, !.base = file.rev] \in JobRecord
    BY <2>0 DEF JobRecord, Threads
  <2>2. job' \in [Callers -> JobRecord]
    <3>1. CASE Fails(c)
      BY <1>h, <3>1
    <3>2. CASE job' = [job EXCEPT ![c].pc = "leaving", ![c].out = "nothing"]
      BY <1>l, <3>2 DEF Outs
    <3>3. CASE job' = [job EXCEPT ![c].pc = "writing", ![c].tx = file.rev, ![c].base = file.rev]
      BY <2>1, <3>3 DEF Types
    <3> QED
      BY <1>9, <3>1, <3>2, <3>3 DEF Migrates
  <2>3. backup' \subseteq Revisions
    BY <1>9, <2>0 DEF Migrates, Saves, Types
  <2> QED
    BY <1>9, <2>2, <2>3 DEF Migrates, Types
<1>10. ASSUME NEW c \in Callers, Leaves(c) PROVE Types'
  <2>1. mail[Home[c]] \o job[c].posted \in Seq(Revisions)
    BY <1>p DEF Types, JobRecord
  <2>2. mail' \in [Procs -> Seq(Revisions)]
    BY <1>10, <2>1 DEF Leaves, Types
  <2> QED
    BY <1>10, <1>g, <2>2 DEF Leaves, Types
<1>11. ASSUME NEW c \in Callers, WriteFails(c) PROVE Types'
  BY <1>11, <1>f, <1>h DEF WriteFails, Types
<1>12. ASSUME NEW c \in Callers, Cancelled(c) PROVE Types'
  <2>1. [job[c] EXCEPT !.cancels = job[c].cancels + 1] \in JobRecord
    <3>1. job[c].cancels + 1 \in 0..Cancels
      BY <1>12 DEF Cancelled, JobRecord, HomeAssumption
    <3> QED
      BY <3>1 DEF JobRecord
  <2>2. job' \in [Callers -> JobRecord]
    BY <1>12, <2>1 DEF Cancelled, Types
  <2> QED
    BY <1>12, <1>m, <2>2 DEF Cancelled, Types
<1>13. ASSUME NEW c \in Callers, RunEnds(c) PROVE Types'
  BY <1>13 DEF RunEnds, Types
<1>14. ASSUME NEW p \in Procs, Publishes(p) PROVE Types'
  <2>1. Append(heard[p], Head(mail[p])) \in Seq(Revisions) /\ Tail(mail[p]) \in Seq(Revisions)
    BY <1>14 DEF Publishes, Types
  <2> QED
    BY <1>14, <2>1 DEF Publishes, Types
<1>15. ASSUME NEW p \in Procs, Dies(p) PROVE Types'
  <2>1. \A c \in Callers : [job[c] EXCEPT !.pc = "over"] \in JobRecord
    BY Records
  <2>2. job' \in [Callers -> JobRecord]
    BY <1>15, <2>1 DEF Dies, Types
  <2>3. <<>> \in Seq(Revisions)
    OBVIOUS
  <2>4. faults' \in [io: 0..Faults, death: 0..Deaths]
    <3>1. faults.death > 0 => faults.death - 1 \in 0..Deaths
      BY DEF Types, HomeAssumption
    <3> QED
      BY <1>15, <3>1 DEF Dies, Types
  <2> QED
    BY <1>15, <2>2, <2>3, <2>4 DEF Dies, Types
<1>16. CASE Damaged
  BY <1>16, <1>f DEF Damaged, Types
<1>17. CASE UNCHANGED cvars
  BY <1>17 DEF cvars, Types
<1> QED
  BY <1>1, <1>2, <1>3, <1>4, <1>5, <1>6, <1>7, <1>8, <1>9, <1>10, <1>11, <1>12, <1>13, <1>14, <1>15, <1>16, <1>17
     DEF ConfigNext, Thread

-----------------------------------------------------------------------------
(* Who does not act keeps what is known of him, while the file, the lock   *)
(* file and the runs stay or runs end.                                     *)
LEMMA OthersKeep ==
  ASSUME NEW d \in Callers, JobInv(d), job'[d] = job[d], file' = file, flock' = flock,
         backup \subseteq backup', run'[d] \in {run[d], "ended"}, run[d] = "none" => run'[d] = "none",
         \A a \in Callers : run'[a] = "active" => run[a] = "active"
  PROVE  JobInv(d)'
<1>1. NotStarted(d)' /\ Holding(d)' /\ Copy(d)' /\ Sources(d)' /\ Began(d)' /\ Posts(d)'
  BY DEF JobInv, NotStarted, Holding, Copy, Sources, Began, Posts, Wanted, Ordered
<1>2. Frozen(d)'
  BY DEF JobInv, Frozen, ChangesTask
<1> QED
  BY <1>1, <1>2 DEF JobInv

(* What a step that leaves file, locks and runs alone must show of the     *)
(* caller that acts.                                                       *)
LEMMA OneMoves ==
  ASSUME ConfigInv, NEW c \in Callers, NEW j \in JobRecord, job' = [job EXCEPT ![c] = j],
         file' = file, flock' = flock, run' = run, backup \subseteq backup', JobInv(c)'
  PROVE  \A d \in Callers : JobInv(d)'
<1> SUFFICES ASSUME NEW d \in Callers \ {c} PROVE JobInv(d)'
  OBVIOUS
<1>1. JobInv(d) /\ job'[d] = job[d]
  BY OneJob DEF ConfigInv
<1> QED
  BY <1>1, OthersKeep

(* A thread that fails: it goes on to leave, as what it committed says.    *)
LEMMA FailsKeeps ==
  ASSUME HomeAssumption, ConfigInv, NEW c \in Callers,
         job[c].pc \in {"reading", "flocking", "deciding", "writing"}, Fails(c),
         file' = file, flock' = flock, run' = run, backup' = backup
  PROVE  \A d \in Callers : JobInv(d)'
<1> DEFINE j == [job[c] EXCEPT !.pc = "leaving", !.out = IF job[c].made = 0 THEN "refused" ELSE "partial"]
<1>1. j \in JobRecord /\ job[c] \in JobRecord /\ JobInv(c)
  BY Records DEF ConfigInv, Types, Threads, Outs
<1>2. job' = [job EXCEPT ![c] = j]
  BY DEF Fails, ConfigInv, Types
<1>3. job'[c] = j /\ j.pc = "leaving"
  BY <1>1, <1>2 DEF JobRecord, ConfigInv, Types
<1>4. /\ j.tx = job[c].tx /\ j.made = job[c].made /\ j.posted = job[c].posted
      /\ j.base = job[c].base /\ j.frozen = job[c].frozen
  BY <1>1 DEF JobRecord
<1> HIDE DEF j
<1>5. JobInv(c)'
  <2>1. NotStarted(c)' /\ Holding(c)' /\ Sources(c)'
    BY <1>1, <1>3, <1>4 DEF JobInv, NotStarted, Holding, Sources, Posts
  <2>2. Copy(c)' /\ Began(c)' /\ Frozen(c)'
    BY <1>1, <1>3, <1>4 DEF JobInv, Copy, Began, Frozen, Wanted, Threads
  <2>3. Posts(c)'
    BY <1>1, <1>3, <1>4 DEF JobInv, Posts, NotStarted, Holding, Ordered
  <2> QED
    BY <2>1, <2>2, <2>3 DEF JobInv
<1> QED
  BY <1>1, <1>2, <1>5, OneMoves

(* The actions of one caller that leave file, locks and runs alone.        *)
LEMMA CallerKeeps ==
  ASSUME HomeAssumption, ConfigInv, NEW c \in Callers,
         Calls(c) \/ Caller(c) \/ Cancelled(c) \/ ReadsFirst(c) \/ FlockTimeout(c) \/ Prepares(c) \/ Completes(c)
  PROVE  \A d \in Callers : JobInv(d)'
<1>1. job[c] \in JobRecord /\ JobInv(c) /\ job \in [Callers -> JobRecord]
  BY DEF ConfigInv, Types
<1>2. UNCHANGED <<file, backup, flock, run>>
  BY DEF Calls, Caller, Cancelled, ReadsFirst, FlockTimeout, Prepares, Completes, Serializes, QueueTimeout,
         Resumes, Disk, Loop
<1>3. ASSUME NEW pc \in Threads \cup {"idle", "queued", "ended", "over"}, Goes(c, pc),
             \/ job[c].pc = "idle" /\ Kind[c] = "migrate" /\ pc = "queued"
             \/ job[c].pc \in {"queued", "reading", "flocking"} /\ pc \in {"reading", "flocking", "over"}
             \/ job[c].pc = "ended" /\ pc = "over"
             \/ /\ job[c].pc = "deciding" /\ pc = "writing" /\ job[c].tx # None /\ job[c].made < Wanted[c]
                /\ file.schema = "current" /\ Guard(c)
      PROVE  \A d \in Callers : JobInv(d)'
  <2> DEFINE j == [job[c] EXCEPT !.pc = pc]
  <2>1. j \in JobRecord /\ job' = [job EXCEPT ![c] = j]
    BY <1>1, <1>3, Records DEF Goes
  <2>2. job'[c] = j /\ j.pc = pc
    BY <1>1, <2>1 DEF JobRecord
  <2>3. /\ j.tx = job[c].tx /\ j.made = job[c].made /\ j.posted = job[c].posted
        /\ j.base = job[c].base /\ j.frozen = job[c].frozen /\ j.out = job[c].out
    BY <1>1 DEF JobRecord
  <2> HIDE DEF j
  <2>4. NotStarted(c)' /\ Holding(c)' /\ Sources(c)'
    BY <1>1, <1>2, <1>3, <2>2, <2>3 DEF JobInv, NotStarted, Holding, Sources
  <2>5. Copy(c)' /\ Began(c)'
    BY <1>1, <1>2, <1>3, <2>2, <2>3 DEF JobInv, Copy, Began, Wanted, Threads
  <2>6. Frozen(c)'
    BY <1>1, <1>2, <1>3, <2>2, <2>3 DEF JobInv, Frozen, Guard, ChangesTask
  <2>7. Posts(c)'
    BY <1>1, <1>2, <1>3, <2>2, <2>3 DEF JobInv, Posts, Ordered
  <2> QED
    BY <1>2, <2>1, <2>4, <2>5, <2>6, <2>7, OneMoves DEF JobInv
<1>4. ASSUME NEW out \in Outs, job' = [job EXCEPT ![c].pc = "leaving", ![c].out = out],
             job[c].pc \in {"reading", "deciding"}
      PROVE  \A d \in Callers : JobInv(d)'
  <2> DEFINE j == [job[c] EXCEPT !.pc = "leaving", !.out = out]
  <2>1. j \in JobRecord /\ job' = [job EXCEPT ![c] = j]
    BY <1>1, <1>4, Records DEF Threads
  <2>2. job'[c] = j /\ j.pc = "leaving"
    BY <1>1, <2>1 DEF JobRecord
  <2>3. /\ j.tx = job[c].tx /\ j.made = job[c].made /\ j.posted = job[c].posted
        /\ j.base = job[c].base /\ j.frozen = job[c].frozen
    BY <1>1 DEF JobRecord
  <2> HIDE DEF j
  <2>4. NotStarted(c)' /\ Holding(c)' /\ Sources(c)'
    BY <1>1, <1>2, <1>4, <2>2, <2>3 DEF JobInv, NotStarted, Holding, Sources
  <2>5. Copy(c)' /\ Began(c)' /\ Frozen(c)'
    BY <1>1, <1>2, <1>4, <2>2, <2>3 DEF JobInv, Copy, Began, Frozen, Wanted, Threads
  <2>6. Posts(c)'
    BY <1>1, <1>2, <1>4, <2>2, <2>3 DEF JobInv, Posts, NotStarted, Holding, Ordered
  <2> QED
    BY <1>2, <2>1, <2>4, <2>5, <2>6, OneMoves DEF JobInv
<1>5. CASE Calls(c)
  <2>1. CASE Kind[c] = "migrate" /\ Goes(c, "queued")
    BY <1>3, <1>5, <2>1 DEF Calls
  <2>2. CASE /\ Kind[c] # "migrate"
             /\ job' = [job EXCEPT ![c].pc = "queued", ![c].base = file.rev, ![c].frozen = file.task]
    <3> DEFINE j == [job[c] EXCEPT !.pc = "queued", !.base = file.rev, !.frozen = file.task]
    <3>1. file.rev \in Revisions /\ file.task \in Callers \cup {Nobody}
      BY DEF ConfigInv, Types
    <3>2. j \in JobRecord /\ job' = [job EXCEPT ![c] = j]
      BY <1>1, <2>2, <3>1 DEF JobRecord
    <3>3. job'[c] = j /\ j.pc = "queued" /\ j.base = file.rev /\ j.frozen = file.task
      BY <1>1, <3>2 DEF JobRecord
    <3>4. j.tx = job[c].tx /\ j.made = job[c].made /\ j.posted = job[c].posted /\ j.out = job[c].out
      BY <1>1 DEF JobRecord
    <3> HIDE DEF j
    <3>5. NotStarted(c)' /\ Holding(c)' /\ Sources(c)' /\ Posts(c)'
      BY <1>1, <1>2, <1>5, <3>3, <3>4 DEF Calls, JobInv, NotStarted, Holding, Sources, Posts, Ordered
    <3>6. Copy(c)' /\ Began(c)' /\ Frozen(c)'
      BY <1>1, <1>2, <1>5, <3>1, <3>3, <3>4
         DEF Calls, JobInv, NotStarted, Copy, Began, Frozen, Wanted, Threads, Revisions, None
    <3> QED
      BY <1>2, <3>2, <3>5, <3>6, OneMoves DEF JobInv
  <2> QED
    BY <1>5, <2>1, <2>2 DEF Calls
<1>6. CASE Caller(c)
  BY <1>3, <1>6 DEF Caller, Serializes, QueueTimeout, Resumes, Threads
<1>7. CASE ReadsFirst(c) \/ FlockTimeout(c)
  <2>1. CASE Fails(c)
    BY <1>2, <1>7, <2>1, FailsKeeps DEF ReadsFirst, FlockTimeout
  <2> QED
    BY <1>3, <1>4, <1>7, <2>1 DEF ReadsFirst, FlockTimeout, Outs, Threads
<1>8. CASE Prepares(c)
  <2>1. CASE Fails(c)
    BY <1>2, <1>8, <2>1, FailsKeeps DEF Prepares
  <2>2. CASE ~Fails(c)
    <3>1. file.schema = "current"
      BY <1>1, <1>8 DEF Prepares, JobInv, Sources
    <3> QED
      BY <1>3, <1>8, <2>2, <3>1 DEF Prepares, Threads
  <2> QED
    BY <2>1, <2>2
<1>9. CASE Completes(c)
  BY <1>4, <1>9 DEF Completes, Outs
<1>10. CASE Cancelled(c)
  <2> DEFINE j == [job[c] EXCEPT !.cancels = job[c].cancels + 1]
  <2>1. job[c].cancels + 1 \in 0..Cancels
    BY <1>1, <1>10 DEF Cancelled, JobRecord, HomeAssumption
  <2>2. j \in JobRecord /\ job' = [job EXCEPT ![c] = j]
    BY <1>1, <1>10, <2>1 DEF Cancelled, JobRecord
  <2>3. job'[c] = j
    BY <1>1, <2>2
  <2>4. /\ j.tx = job[c].tx /\ j.made = job[c].made /\ j.posted = job[c].posted /\ j.pc = job[c].pc
        /\ j.base = job[c].base /\ j.frozen = job[c].frozen /\ j.out = job[c].out
    BY <1>1 DEF JobRecord
  <2> HIDE DEF j
  <2>5. JobInv(c)'
    BY <1>1, <1>2, <2>3, <2>4
       DEF JobInv, NotStarted, Holding, Copy, Sources, Began, Frozen, Posts, Wanted, Ordered, ChangesTask
  <2> QED
    BY <1>2, <2>2, <2>5, OneMoves
<1> QED
  BY <1>5, <1>6, <1>7, <1>8, <1>9, <1>10

(* The lock file is taken by a thread that has done nothing yet, and left  *)
(* by one that has finished.                                               *)
LEMMA LockKeeps ==
  ASSUME HomeAssumption, ConfigInv, NEW c \in Callers, Flocks(c) \/ Leaves(c)
  PROVE  \A d \in Callers : JobInv(d)'
<1> DEFINE pc == IF job[c].pc = "leaving" THEN "ended" ELSE "deciding"
           j == [job[c] EXCEPT !.pc = pc]
<1>1. /\ job[c] \in JobRecord /\ JobInv(c) /\ job \in [Callers -> JobRecord] /\ c # Nobody
      /\ UNCHANGED <<file, backup, run>>
  BY DEF ConfigInv, Types, HomeAssumption, Flocks, Leaves, Disk, Loop
<1>2. j \in JobRecord /\ job' = [job EXCEPT ![c] = j]
  BY <1>1, Records DEF Flocks, Leaves, Goes, Threads
<1>3. job'[c] = j /\ j.pc = pc
  BY <1>1, <1>2 DEF JobRecord
<1>4. /\ j.tx = job[c].tx /\ j.made = job[c].made /\ j.posted = job[c].posted
      /\ j.base = job[c].base /\ j.frozen = job[c].frozen /\ j.out = job[c].out
  BY <1>1 DEF JobRecord
<1> HIDE DEF j
<1>5. JobInv(c)'
  <2>1. NotStarted(c)' /\ Holding(c)' /\ Sources(c)'
    BY <1>1, <1>3, <1>4 DEF Flocks, Leaves, JobInv, NotStarted, Holding, Sources
  <2>2. Copy(c)' /\ Began(c)' /\ Frozen(c)'
    BY <1>1, <1>3, <1>4 DEF Flocks, Leaves, JobInv, NotStarted, Copy, Began, Frozen, Wanted, Threads
  <2>3. Posts(c)'
    <3>1. CASE Flocks(c)
      <4>1. job[c].posted = <<>>
        BY <1>1, <3>1 DEF Flocks, JobInv, NotStarted
      <4> QED
        BY <1>1, <1>3, <1>4, <4>1 DEF Posts, Ordered
    <3>2. CASE Leaves(c)
      <4>1. j.pc = "ended"
        BY <1>3, <3>2 DEF Leaves
      <4> QED
        BY <1>1, <1>3, <1>4, <4>1 DEF JobInv, Posts, Ordered
    <3> QED
      BY <3>1, <3>2
  <2> QED
    BY <2>1, <2>2, <2>3 DEF JobInv
<1>6. ASSUME NEW d \in Callers \ {c} PROVE JobInv(d)'
  <2>1. JobInv(d) /\ job'[d] = job[d] /\ d # Nobody
    BY <1>2, OneJob DEF ConfigInv, HomeAssumption
  <2>2. flock' = d <=> flock = d
    BY <1>1, <2>1 DEF Flocks, Leaves
  <2>3. NotStarted(d)' /\ Holding(d)' /\ Copy(d)' /\ Sources(d)' /\ Began(d)'
    BY <1>1, <2>1, <2>2 DEF JobInv, NotStarted, Holding, Copy, Sources, Began, Wanted
  <2>4. Frozen(d)' /\ Posts(d)'
    BY <1>1, <2>1, <2>2 DEF JobInv, Frozen, ChangesTask, Posts, Ordered
  <2> QED
    BY <2>3, <2>4 DEF JobInv
<1> QED
  BY <1>5, <1>6

(* A transaction begins on the revision that its caller expected, or, for  *)
(* a migration, on the file as it is, of which a copy is durable.          *)
LEMMA BeginKeeps ==
  ASSUME HomeAssumption, ConfigInv, NEW c \in Callers, Begins(c) \/ Migrates(c)
  PROVE  \A d \in Callers : JobInv(d)'
<1>1. /\ job[c] \in JobRecord /\ JobInv(c) /\ job \in [Callers -> JobRecord] /\ file.rev \in Revisions
      /\ UNCHANGED <<file, flock, run>> /\ backup \subseteq backup'
  BY DEF ConfigInv, Types, Begins, Migrates, Saves, Disk, Loop
<1>2. CASE Fails(c)
  <2>1. backup' = backup
    <3>1. CASE Begins(c)
      BY <3>1 DEF Begins, Disk
    <3>2. CASE Migrates(c)
      <4>1. job'[c].tx = job[c].tx
        BY <1>1, <1>2 DEF Fails, JobRecord
      <4>2. job[c].tx = None /\ file.rev # None
        BY <1>1, <3>2 DEF Migrates, Revisions, None
      <4>3. job' = [job EXCEPT ![c].pc = "writing", ![c].tx = file.rev, ![c].base = file.rev]
              => job'[c].tx = file.rev
        BY <1>1 DEF JobRecord
      <4> QED
        BY <3>2, <4>1, <4>2, <4>3 DEF Migrates
    <3> QED
      BY <3>1, <3>2
  <2> QED
    BY <1>1, <1>2, <2>1, FailsKeeps DEF Begins, Migrates
<1>3. ASSUME NEW pc \in {"deciding", "writing"}, NEW base \in Revisions, base = file.rev,
             job' = [job EXCEPT ![c] = [job[c] EXCEPT !.pc = pc, !.tx = file.rev, !.base = base]],
             job[c].pc = "deciding", job[c].tx = None,
             \/ pc = "deciding" /\ Kind[c] # "migrate" /\ file.schema = "current" /\ job[c].base \in {None, file.rev}
             \/ pc = "writing" /\ Kind[c] = "migrate" /\ file.schema = "old" /\ file.rev \in backup'
      PROVE  \A d \in Callers : JobInv(d)'
  <2> DEFINE j == [job[c] EXCEPT !.pc = pc, !.tx = file.rev, !.base = base]
  <2>1. j \in JobRecord /\ job' = [job EXCEPT ![c] = j]
    BY <1>1, <1>3 DEF JobRecord, Threads
  <2>2. job'[c] = j /\ j.pc = pc /\ j.tx = file.rev /\ j.base = file.rev
    BY <1>1, <1>3, <2>1 DEF JobRecord
  <2>3. j.made = job[c].made /\ j.posted = job[c].posted /\ j.frozen = job[c].frozen /\ j.out = job[c].out
    BY <1>1 DEF JobRecord
  <2> HIDE DEF j
  <2>4. NotStarted(c)' /\ Holding(c)' /\ Sources(c)'
    BY <1>1, <1>3, <2>2, <2>3 DEF JobInv, NotStarted, Holding, Sources
  <2>5. Copy(c)' /\ Began(c)'
    BY <1>1, <1>3, <2>2, <2>3 DEF JobInv, Copy, Began, Wanted, Threads, Revisions, None
  <2>6. Frozen(c)'
    <3>1. pc = "writing" => ~ChangesTask(c)'
      BY <1>3 DEF ChangesTask
    <3> QED
      BY <1>1, <1>3, <2>2, <2>3, <3>1 DEF JobInv, Frozen
  <2>7. Posts(c)'
    BY <1>1, <1>3, <2>2, <2>3 DEF JobInv, Posts, Copy, Ordered
  <2> QED
    BY <1>1, <2>1, <2>4, <2>5, <2>6, <2>7, OneMoves DEF JobInv
<1>4. CASE Begins(c) /\ ~Fails(c)
  <2>1. job[c].base # None
    BY <1>1, <1>4 DEF Begins, JobInv, Began, Threads
  <2>2. job' = [job EXCEPT ![c] = [job[c] EXCEPT !.pc = "deciding", !.tx = file.rev, !.base = file.rev]]
    <3>1. /\ job' = [job EXCEPT ![c].tx = file.rev, ![c].base = file.rev]
          /\ job[c].pc = "deciding"
      BY <1>1, <1>4, <2>1 DEF Begins, Expected
    <3>2. [job[c] EXCEPT !.tx = file.rev, !.base = file.rev]
            = [job[c] EXCEPT !.pc = "deciding", !.tx = file.rev, !.base = file.rev]
      BY <1>1, <3>1 DEF JobRecord
    <3>3. job' = [job EXCEPT ![c] = [job[c] EXCEPT !.tx = file.rev, !.base = file.rev]]
      BY <1>1, <3>1
    <3> QED
      BY <3>2, <3>3
  <2> QED
    BY <1>1, <1>3, <1>4, <2>1, <2>2 DEF Begins, Expected
<1>5. CASE Migrates(c) /\ ~Fails(c)
  <2>1. CASE /\ file.schema = "old" /\ Saves
             /\ job' = [job EXCEPT ![c].pc = "writing", ![c].tx = file.rev, ![c].base = file.rev]
    <3>1. job' = [job EXCEPT ![c] = [job[c] EXCEPT !.pc = "writing", !.tx = file.rev, !.base = file.rev]]
      BY <1>1, <2>1
    <3> QED
      BY <1>1, <1>3, <1>5, <2>1, <3>1 DEF Migrates, Saves
  <2>2. CASE job' = [job EXCEPT ![c].pc = "leaving", ![c].out = "nothing"] /\ UNCHANGED backup
    <3> DEFINE j == [job[c] EXCEPT !.pc = "leaving", !.out = "nothing"]
    <3>1. j \in JobRecord /\ job' = [job EXCEPT ![c] = j]
      BY <1>1, <2>2, Records DEF Threads, Outs
    <3>2. job'[c] = j /\ j.pc = "leaving"
      BY <1>1, <3>1 DEF JobRecord
    <3>3. /\ j.tx = job[c].tx /\ j.made = job[c].made /\ j.posted = job[c].posted
          /\ j.base = job[c].base /\ j.frozen = job[c].frozen
      BY <1>1 DEF JobRecord
    <3> HIDE DEF j
    <3>4. NotStarted(c)' /\ Holding(c)' /\ Sources(c)'
      BY <1>1, <1>5, <3>2, <3>3 DEF Migrates, JobInv, NotStarted, Holding, Sources
    <3>5. Copy(c)' /\ Began(c)' /\ Frozen(c)'
      BY <1>1, <1>5, <3>2, <3>3 DEF Migrates, JobInv, Copy, Began, Frozen, Wanted, Threads
    <3>6. Posts(c)'
      BY <1>1, <1>5, <3>2, <3>3 DEF Migrates, JobInv, Posts, Copy, Ordered
    <3> QED
      BY <1>1, <3>1, <3>4, <3>5, <3>6, OneMoves DEF JobInv
  <2> QED
    BY <1>5, <2>1, <2>2 DEF Migrates
<1> QED
  BY <1>2, <1>4, <1>5

(* The replacement: from then on the revision of the file is one more, the *)
(* one of a task that no active run has frozen.                            *)
LEMMA ReplaceKeeps ==
  ASSUME HomeAssumption, ConfigInv, NEW c \in Callers, Replaces(c)
  PROVE  \A d \in Callers : JobInv(d)'
<1> DEFINE j == [job[c] EXCEPT !.pc = "replaced", !.made = job[c].made + 1]
<1>1. /\ job[c] \in JobRecord /\ JobInv(c) /\ job \in [Callers -> JobRecord] /\ file.rev \in Nat
      /\ UNCHANGED <<flock, run, backup>> /\ job[c].pc = "writing" /\ job[c].tx # None
      /\ job' = [job EXCEPT ![c] = j]
  BY DEF ConfigInv, Types, Replaces, Loop, Revisions, JobInv, Copy
<1>2. job[c].made \in Nat /\ job[c].base \in Nat /\ job[c].tx \in Nat /\ Wanted[c] \in 0..2
  BY <1>1 DEF JobRecord, Revisions, None, Wanted
<1>3. /\ job'[c].pc = "replaced" /\ job'[c].made = job[c].made + 1
      /\ job'[c].tx = job[c].tx /\ job'[c].posted = job[c].posted
      /\ job'[c].base = job[c].base /\ job'[c].frozen = job[c].frozen /\ job'[c].out = job[c].out
  BY <1>1 DEF JobRecord
<1>4. /\ job[c].tx = file.rev /\ file.rev = job[c].base + job[c].made /\ job[c].made < Wanted[c]
      /\ flock = c
  BY <1>1 DEF JobInv, Copy, Holding
<1>5. /\ file'.schema = "current" /\ file'.rev = file.rev + 1
      /\ ~ChangesTask(c) => file'.task = file.task
  BY <1>4 DEF Replaces
<1>6. run[c] # "active" /\ (ChangesTask(c) => \A a \in Callers : run[a] # "active")
  <2>1. Kind[c] = "accept" => Wanted[c] = 0
    BY DEF Wanted
  <2> QED
    BY <1>1, <1>2, <1>4, <2>1 DEF JobInv, Frozen
<1> HIDE DEF j
<1>7. JobInv(c)'
  <2>1. NotStarted(c)' /\ Holding(c)' /\ Sources(c)'
    BY <1>1, <1>3, <1>4, <1>5 DEF JobInv, NotStarted, Holding, Sources
  <2>2. Copy(c)' /\ Frozen(c)'
    BY <1>1, <1>2, <1>3, <1>4, <1>5, <1>6 DEF JobInv, Copy, Frozen, Wanted
  <2>3. Began(c)'
    BY <1>1, <1>2, <1>3, <1>4, <1>5 DEF JobInv, Began, Threads
  <2>4. Posts(c)'
    <3>1. \A i \in DOMAIN job[c].posted : job[c].posted[i] \in Nat
      BY <1>1 DEF JobRecord, Revisions
    <3> QED
      BY <1>1, <1>2, <1>3, <1>4, <1>5, <3>1 DEF JobInv, Posts, Ordered
  <2> QED
    BY <2>1, <2>2, <2>3, <2>4 DEF JobInv
<1>8. ASSUME NEW d \in Callers \ {c} PROVE JobInv(d)'
  <2>1. JobInv(d) /\ job'[d] = job[d] /\ job[d] \in JobRecord
    BY <1>1 DEF ConfigInv
  <2>2. job[d].pc \notin {"deciding", "writing", "replaced"}
    BY <1>4, <2>1 DEF JobInv, Holding
  <2>3. NotStarted(d)' /\ Holding(d)' /\ Copy(d)' /\ Sources(d)'
    BY <1>1, <2>1, <2>2 DEF JobInv, NotStarted, Holding, Copy, Sources, Wanted
  <2>4. Began(d)'
    BY <1>1, <1>5, <2>1, <2>2 DEF JobInv, Began, JobRecord, Revisions, None
  <2>5. Frozen(d)'
    BY <1>1, <1>5, <1>6, <2>1, <2>2 DEF JobInv, Frozen
  <2>6. Posts(d)'
    BY <1>1, <1>5, <2>1, <2>2 DEF JobInv, Posts, Ordered, JobRecord, Revisions
  <2> QED
    BY <2>3, <2>4, <2>5, <2>6 DEF JobInv
<1> QED
  BY <1>7, <1>8

(* A confirmed commit is posted, and the transaction is at the file again. *)
LEMMA ConfirmKeeps ==
  ASSUME HomeAssumption, ConfigInv, NEW c \in Callers, Confirms(c)
  PROVE  \A d \in Callers : JobInv(d)'
<1>1. /\ job[c] \in JobRecord /\ JobInv(c) /\ job \in [Callers -> JobRecord] /\ file.rev \in Nat
      /\ UNCHANGED <<file, flock, run, backup>> /\ job[c].pc = "replaced"
  BY DEF ConfigInv, Types, Confirms, Loop, Disk, Revisions
<1>2. /\ job[c].made \in Nat /\ job[c].base \in Nat /\ job[c].tx \in Nat /\ job[c].tx # None
      /\ job[c].posted \in Seq(Revisions)
      /\ job[c].tx + 1 = file.rev /\ file.rev = job[c].base + job[c].made /\ flock = c
  BY <1>1 DEF JobInv, Copy, Holding, JobRecord, Revisions, None
<1>3. CASE job' = [job EXCEPT ![c].pc = "leaving", ![c].out = "unsure"]
  <2> DEFINE j == [job[c] EXCEPT !.pc = "leaving", !.out = "unsure"]
  <2>1. j \in JobRecord /\ job' = [job EXCEPT ![c] = j]
    BY <1>1, <1>3, Records DEF Threads, Outs
  <2>2. job'[c] = j /\ j.pc = "leaving"
    BY <1>1, <2>1 DEF JobRecord
  <2>3. /\ j.tx = job[c].tx /\ j.made = job[c].made /\ j.posted = job[c].posted
        /\ j.base = job[c].base /\ j.frozen = job[c].frozen
    BY <1>1 DEF JobRecord
  <2> HIDE DEF j
  <2>4. NotStarted(c)' /\ Holding(c)' /\ Sources(c)'
    BY <1>1, <1>2, <2>2, <2>3 DEF JobInv, NotStarted, Holding, Sources
  <2>5. Copy(c)' /\ Began(c)' /\ Frozen(c)'
    BY <1>1, <1>2, <2>2, <2>3 DEF JobInv, Copy, Began, Frozen, Wanted, Threads
  <2>6. Posts(c)'
    BY <1>1, <1>2, <2>2, <2>3 DEF JobInv, Posts, Ordered
  <2> QED
    BY <1>1, <2>1, <2>4, <2>5, <2>6, OneMoves DEF JobInv
<1>4. CASE job' = [job EXCEPT ![c].pc = "deciding", ![c].tx = @ + 1,
                              ![c].posted = Append(@, job[c].tx + 1)]
  <2> DEFINE s == Append(job[c].posted, file.rev)
             j == [job[c] EXCEPT !.pc = "deciding", !.tx = file.rev, !.posted = s]
  <2>1. s \in Seq(Revisions) /\ file.rev \in Revisions
    BY <1>2 DEF Revisions
  <2>2. j \in JobRecord /\ job' = [job EXCEPT ![c] = j]
    BY <1>1, <1>2, <1>4, <2>1 DEF JobRecord, Threads
  <2>3. job'[c] = j /\ j.pc = "deciding" /\ j.tx = file.rev /\ j.posted = s
    BY <1>1, <2>2 DEF JobRecord
  <2>4. /\ j.made = job[c].made /\ j.base = job[c].base /\ j.frozen = job[c].frozen /\ j.out = job[c].out
    BY <1>1 DEF JobRecord
  <2>5. /\ DOMAIN s = 1..Len(job[c].posted) + 1 /\ DOMAIN job[c].posted = 1..Len(job[c].posted)
        /\ s[Len(job[c].posted) + 1] = file.rev
        /\ \A i \in 1..Len(job[c].posted) : s[i] = job[c].posted[i] /\ job[c].posted[i] \in Nat
        /\ Len(job[c].posted) \in Nat
    BY <1>2, <2>1, SMTT(30) DEF Revisions
  <2>6. job[c].base < file.rev
    <3>1. job[c].made # 0
      BY <1>1 DEF JobInv, Copy
    <3> QED
      BY <1>2, <3>1
  <2> HIDE DEF j, s
  <2>7. NotStarted(c)' /\ Holding(c)' /\ Sources(c)'
    BY <1>1, <1>2, <2>3, <2>4 DEF JobInv, NotStarted, Holding, Sources
  <2>8. Copy(c)' /\ Began(c)' /\ Frozen(c)'
    BY <1>1, <1>2, <2>1, <2>3, <2>4 DEF JobInv, Copy, Began, Frozen, Wanted, Threads, Revisions, None
  <2>9. Posts(c)'
    <3> DEFINE n == Len(job[c].posted)
    <3>1. \A i \in 1..Len(job[c].posted) :
            job[c].base < s[i] /\ s[i] < file.rev /\ \A k \in 1..Len(job[c].posted) : k < i => s[k] < s[i]
      BY <1>1, <1>2, <2>5 DEF JobInv, Posts, Ordered
    <3>2. /\ DOMAIN s = 1..n + 1 /\ n \in Nat /\ s[n + 1] = file.rev
          /\ \A i \in 1..n : /\ job[c].base < s[i] /\ s[i] < file.rev /\ s[i] \in Nat
                             /\ \A k \in 1..n : k < i => s[k] < s[i]
      BY <2>5, <3>1
    <3> HIDE DEF n
    <3>3. \A i \in DOMAIN s : i \in 1..n \/ i = n + 1
      BY <3>2
    <3>4. Ordered(s)
      <4> SUFFICES ASSUME NEW i \in DOMAIN s, NEW k \in DOMAIN s, k < i PROVE s[k] < s[i]
        BY DEF Ordered
      <4>1. k \in 1..n
        BY <3>2
      <4> QED
        BY <3>2, <3>3, <4>1
    <3>5. \A i \in DOMAIN s : job[c].base < s[i] /\ s[i] <= file.rev
      <4> SUFFICES ASSUME NEW i \in DOMAIN s PROVE job[c].base < s[i] /\ s[i] <= file.rev
        OBVIOUS
      <4> QED
        BY <1>1, <2>6, <3>2, <3>3
    <3> QED
      BY <1>1, <2>3, <2>4, <3>4, <3>5 DEF Posts
  <2> QED
    BY <1>1, <2>2, <2>7, <2>8, <2>9, OneMoves DEF JobInv
<1> QED
  BY <1>3, <1>4 DEF Confirms

(* An acceptance and the end of a run; a failed write; a death; a damage.  *)
LEMMA RunKeeps ==
  ASSUME HomeAssumption, ConfigInv, NEW c \in Callers, Accepts(c) \/ RunEnds(c)
  PROVE  \A d \in Callers : JobInv(d)'
<1>1. /\ job[c] \in JobRecord /\ JobInv(c) /\ job \in [Callers -> JobRecord]
      /\ run \in [Callers -> {"none", "active", "ended"}]
      /\ UNCHANGED <<file, flock, backup>>
  BY DEF ConfigInv, Types, Accepts, RunEnds, Disk
<1>2. CASE RunEnds(c)
  <2>1. job' = job /\ run' = [run EXCEPT ![c] = "ended"] /\ run[c] = "active"
    BY <1>2 DEF RunEnds
  <2> SUFFICES ASSUME NEW d \in Callers PROVE JobInv(d)'
    OBVIOUS
  <2>2. /\ JobInv(d) /\ run'[d] \in {run[d], "ended"} /\ (run[d] = "none" => run'[d] = "none")
        /\ \A a \in Callers : run'[a] = "active" => run[a] = "active"
    BY <1>1, <2>1 DEF ConfigInv
  <2> QED
    BY <1>1, <2>1, <2>2, OthersKeep
<1>3. CASE Accepts(c) /\ Fails(c)
  <2>1. run' = run
    <3>1. job[c].made = 0 => job'[c].out = "refused"
      BY <1>1, <1>3 DEF Fails, JobRecord
    <3>2. job[c].made = 0
      BY <1>1, <1>3 DEF Accepts, JobInv, Copy, Wanted, JobRecord
    <3>3. job' = [job EXCEPT ![c].pc = "leaving", ![c].out = "ok"] => job'[c].out = "ok"
      BY <1>1 DEF JobRecord
    <3> QED
      BY <1>3, <3>1, <3>2, <3>3 DEF Accepts
  <2> QED
    BY <1>1, <1>3, <2>1, FailsKeeps DEF Accepts
<1>4. CASE /\ job[c].pc = "deciding" /\ job[c].tx # None /\ Kind[c] = "accept"
           /\ run' = [run EXCEPT ![c] = "active"]
           /\ job' = [job EXCEPT ![c].pc = "leaving", ![c].out = "ok"]
  <2> DEFINE j == [job[c] EXCEPT !.pc = "leaving", !.out = "ok"]
  <2>1. j \in JobRecord /\ job' = [job EXCEPT ![c] = j]
    BY <1>1, <1>4, Records DEF Threads, Outs
  <2>2. job'[c] = j /\ j.pc = "leaving" /\ run'[c] = "active"
    BY <1>1, <1>4, <2>1 DEF JobRecord
  <2>3. /\ j.tx = job[c].tx /\ j.made = job[c].made /\ j.posted = job[c].posted
        /\ j.base = job[c].base /\ j.frozen = job[c].frozen
    BY <1>1 DEF JobRecord
  <2>4. flock = c /\ job[c].frozen = file.task
    <3>1. job[c].made = 0
      BY <1>1, <1>4 DEF JobInv, Copy, Wanted, JobRecord
    <3>2. file.rev = job[c].base
      BY <1>1, <1>4, <3>1 DEF JobInv, Copy, Began, JobRecord, Revisions
    <3> QED
      BY <1>1, <1>4, <3>2 DEF JobInv, Holding, Began
  <2> HIDE DEF j
  <2>5. JobInv(c)'
    <3>1. NotStarted(c)' /\ Holding(c)' /\ Sources(c)'
      BY <1>1, <1>4, <2>2, <2>3, <2>4 DEF JobInv, NotStarted, Holding, Sources
    <3>2. Copy(c)' /\ Began(c)' /\ Frozen(c)'
      BY <1>1, <1>4, <2>2, <2>3, <2>4 DEF JobInv, Copy, Began, Frozen, Wanted, Threads
    <3>3. Posts(c)'
      BY <1>1, <1>4, <2>2, <2>3, <2>4 DEF JobInv, Posts, Ordered
    <3> QED
      BY <3>1, <3>2, <3>3 DEF JobInv
  <2>6. ASSUME NEW d \in Callers \ {c} PROVE JobInv(d)'
    <3>1. JobInv(d) /\ job'[d] = job[d] /\ run'[d] = run[d]
      BY <1>1, <1>4, <2>1, OneJob DEF ConfigInv
    <3>2. job[d].pc # "writing"
      BY <2>4, <3>1 DEF JobInv, Holding
    <3>3. NotStarted(d)' /\ Holding(d)' /\ Copy(d)' /\ Sources(d)' /\ Began(d)' /\ Posts(d)'
      BY <1>1, <3>1 DEF JobInv, NotStarted, Holding, Copy, Sources, Began, Posts, Wanted, Ordered
    <3>4. Frozen(d)'
      BY <1>1, <3>1, <3>2 DEF JobInv, Frozen
    <3> QED
      BY <3>3, <3>4 DEF JobInv
  <2> QED
    BY <2>5, <2>6
<1> QED
  BY <1>2, <1>3, <1>4 DEF Accepts

LEMMA DeathKeeps ==
  ASSUME HomeAssumption, ConfigInv, NEW p \in Procs, Dies(p)
  PROVE  \A d \in Callers : JobInv(d)'
<1> SUFFICES ASSUME NEW d \in Callers PROVE JobInv(d)'
  OBVIOUS
<1>1. /\ job[d] \in JobRecord /\ JobInv(d) /\ d # Nobody /\ job \in [Callers -> JobRecord]
      /\ flock \in Callers \cup {Nobody}
      /\ UNCHANGED <<file, backup, run>>
      /\ flock' = IF flock # Nobody /\ Home[flock] = p THEN Nobody ELSE flock
      /\ job'[d] = IF Home[d] = p THEN [job[d] EXCEPT !.pc = "over"] ELSE job[d]
  BY DEF ConfigInv, Types, HomeAssumption, Dies, Disk
<1>2. CASE Home[d] = p
  <2>1. /\ job'[d].pc = "over" /\ flock' # d
        /\ job'[d].tx = job[d].tx /\ job'[d].made = job[d].made /\ job'[d].posted = job[d].posted
        /\ job'[d].base = job[d].base /\ job'[d].frozen = job[d].frozen
    BY <1>1, <1>2 DEF JobRecord
  <2>2. NotStarted(d)' /\ Holding(d)' /\ Sources(d)'
    BY <1>1, <2>1 DEF JobInv, NotStarted, Holding, Sources
  <2>3. Copy(d)' /\ Began(d)' /\ Frozen(d)'
    BY <1>1, <2>1 DEF JobInv, Copy, Began, Frozen, Wanted, Threads
  <2>4. Posts(d)'
    BY <1>1, <2>1 DEF JobInv, Posts, Ordered
  <2> QED
    BY <2>2, <2>3, <2>4 DEF JobInv
<1>3. CASE Home[d] # p
  <2>1. job'[d] = job[d] /\ (flock = d => flock' = d) /\ (flock' = d => flock = d)
    BY <1>1, <1>3
  <2>2. NotStarted(d)' /\ Holding(d)' /\ Copy(d)' /\ Sources(d)' /\ Began(d)'
    BY <1>1, <2>1 DEF JobInv, NotStarted, Holding, Copy, Sources, Began, Wanted
  <2>3. Frozen(d)' /\ Posts(d)'
    BY <1>1, <2>1 DEF JobInv, Frozen, ChangesTask, Posts, Ordered
  <2> QED
    BY <2>2, <2>3 DEF JobInv
<1> QED
  BY <1>2, <1>3

LEMMA DamageKeeps ==
  ASSUME HomeAssumption, ConfigInv, Damaged
  PROVE  \A d \in Callers : JobInv(d)'
<1> SUFFICES ASSUME NEW d \in Callers PROVE JobInv(d)'
  OBVIOUS
<1>1. /\ JobInv(d) /\ flock # d /\ file'.rev = file.rev /\ file'.task = file.task
      /\ UNCHANGED <<backup, flock, job, run>>
  BY DEF Damaged, ConfigInv, Types, HomeAssumption, Loop
<1>2. NotStarted(d)' /\ Holding(d)' /\ Copy(d)' /\ Sources(d)' /\ Began(d)'
  BY <1>1 DEF JobInv, NotStarted, Holding, Copy, Sources, Began, Wanted
<1>3. Frozen(d)' /\ Posts(d)'
  BY <1>1 DEF JobInv, Frozen, ChangesTask, Posts, Ordered
<1> QED
  BY <1>2, <1>3 DEF JobInv

LEMMA JobsKept ==
  ASSUME HomeAssumption, ConfigInv, [ConfigNext]_cvars
  PROVE  \A d \in Callers : JobInv(d)'
<1>1. ASSUME NEW c \in Callers, WriteFails(c) PROVE \A d \in Callers : JobInv(d)'
  BY <1>1, FailsKeeps DEF WriteFails, Disk, Loop
<1>2. ASSUME UNCHANGED <<file, backup, flock, job, run>> PROVE \A d \in Callers : JobInv(d)'
  BY <1>2, OthersKeep DEF ConfigInv
<1>3. ASSUME NEW p \in Procs, Publishes(p) PROVE \A d \in Callers : JobInv(d)'
  BY <1>2, <1>3 DEF Publishes, Disk
<1>4. UNCHANGED cvars => \A d \in Callers : JobInv(d)'
  BY <1>2 DEF cvars
<1>5. ASSUME NEW c \in Callers, Thread(c) PROVE \A d \in Callers : JobInv(d)'
  BY <1>5, CallerKeeps, LockKeeps, BeginKeeps, ReplaceKeeps, ConfirmKeeps, RunKeeps DEF Thread
<1> QED
  BY <1>1, <1>3, <1>4, <1>5, CallerKeeps, RunKeeps, DeathKeeps, DamageKeeps DEF ConfigNext

-----------------------------------------------------------------------------
(* Two sequences in order, one after the other.                            *)
LEMMA Joined ==
  ASSUME NEW s \in Seq(Revisions), NEW t \in Seq(Revisions), NEW b \in Nat, Ordered(s), Ordered(t),
         \A i \in DOMAIN s : s[i] <= b, \A i \in DOMAIN t : b < t[i]
  PROVE  /\ Ordered(s \o t)
         /\ \A i \in DOMAIN (s \o t) : \/ i \in DOMAIN s /\ (s \o t)[i] = s[i]
                                       \/ \E k \in DOMAIN t : (s \o t)[i] = t[k]
<1> DEFINE m == Len(s)
           n == Len(t)
           u == s \o t
<1>1. /\ m \in Nat /\ n \in Nat /\ DOMAIN s = 1..m /\ DOMAIN t = 1..n /\ DOMAIN u = 1..m + n
      /\ \A i \in 1..m : s[i] \in Nat /\ u[i] = s[i]
      /\ \A i \in 1..n : t[i] \in Nat
      /\ \A i \in 1..m + n : i > m => u[i] = t[i - m]
  BY DEF Revisions
<1>5. /\ \A i, j \in 1..m : j < i => s[j] < s[i]
      /\ \A i, j \in 1..n : j < i => t[j] < t[i]
      /\ \A i \in 1..m : s[i] <= b
      /\ \A i \in 1..n : b < t[i]
  BY <1>1 DEF Ordered
<1> HIDE DEF m, n, u
<1>2. ASSUME NEW i \in 1..m + n, i > m PROVE i - m \in 1..n
  BY <1>1, <1>2
<1>3. ASSUME NEW i \in 1..m + n, NEW j \in 1..m + n, j < i PROVE u[j] < u[i]
  <2>1. CASE i <= m
    <3>1. i \in 1..m /\ j \in 1..m
      BY <1>1, <1>3, <2>1
    <3> QED
      BY <1>1, <1>3, <1>5, <3>1
  <2>2. CASE j > m
    <3>1. i - m \in 1..n /\ j - m \in 1..n /\ j - m < i - m
      BY <1>1, <1>3, <2>2
    <3> QED
      BY <1>1, <1>3, <1>5, <2>2, <3>1
  <2>3. CASE i > m /\ j <= m
    <3>1. i - m \in 1..n /\ j \in 1..m
      BY <1>1, <2>3
    <3>2. s[j] <= b /\ b < t[i - m] /\ u[j] = s[j] /\ u[i] = t[i - m] /\ s[j] \in Nat /\ t[i - m] \in Nat
      BY <1>1, <1>5, <2>3, <3>1
    <3> QED
      BY <3>2
  <2> QED
    BY <1>1, <2>1, <2>2, <2>3
<1>4. ASSUME NEW i \in 1..m + n
      PROVE  \/ i \in 1..m /\ u[i] = s[i]
             \/ \E k \in 1..n : u[i] = t[k]
  <2>1. CASE i > m
    BY <1>1, <1>2, <2>1
  <2>2. CASE ~(i > m)
    BY <1>1, <2>2
  <2> QED
    BY <2>1, <2>2
<1> QED
  BY <1>1, <1>3, <1>4 DEF Ordered, u

(* The first letter of the mail becomes the last one heard.                *)
LEMMA Passed ==
  ASSUME NEW h \in Seq(Revisions), NEW m \in Seq(Revisions), m # <<>>
  PROVE  Append(h, Head(m)) \o Tail(m) = h \o m
<1>1. Head(m) \in Revisions /\ Tail(m) \in Seq(Revisions) /\ <<Head(m)>> \in Seq(Revisions)
  OBVIOUS
<1>2. Append(h, Head(m)) = h \o <<Head(m)>>
  BY <1>1, AppendIsConcat
<1>3. <<Head(m)>> \o Tail(m) = m
  <2>1. /\ Len(<<Head(m)>> \o Tail(m)) = Len(m) /\ <<Head(m)>> \o Tail(m) \in Seq(Revisions)
        /\ \A i \in 1..Len(m) : (<<Head(m)>> \o Tail(m))[i] = m[i]
    BY <1>1
  <2> QED
    BY <2>1, SeqEqual
<1> QED
  BY <1>1, <1>2, <1>3, ConcatAssociative

(* What a process has heard and has in its mail, while both stay: a        *)
(* transaction begins on the current revision, and goes on from there.     *)
LEMMA MailsStay ==
  ASSUME ConfigInv, Types', UNCHANGED <<heard, mail>>, file'.rev >= file.rev,
         \A c \in Callers : flock' = c /\ job'[c].tx # None =>
           \/ flock = c /\ job[c].tx # None /\ job'[c].base = job[c].base
           \/ job'[c].base = file.rev
  PROVE  Mails'
<1> SUFFICES ASSUME NEW p \in Procs PROVE
      /\ Ordered(All(p)')
      /\ \A i \in DOMAIN All(p)' :
           /\ All(p)'[i] <= file'.rev
           /\ \A c \in Callers : flock' = c /\ job'[c].tx # None => All(p)'[i] <= job'[c].base
  BY DEF Mails
<1>1. All(p)' = All(p) /\ All(p) \in Seq(Revisions) /\ file.rev \in Nat /\ file'.rev \in Nat
  BY DEF All, ConfigInv, Types, Revisions
<1>2. Ordered(All(p)) /\ \A i \in DOMAIN All(p) :
        /\ All(p)[i] \in Nat /\ All(p)[i] <= file.rev
        /\ \A c \in Callers : flock = c /\ job[c].tx # None => All(p)[i] <= job[c].base
  BY <1>1 DEF ConfigInv, Mails, Revisions
<1> HIDE DEF All
<1> QED
  BY <1>1, <1>2

LEMMA MailsKept ==
  ASSUME HomeAssumption, ConfigInv, Types', [ConfigNext]_cvars
  PROVE  Mails'
<1>0. /\ job \in [Callers -> JobRecord] /\ \A c \in Callers : JobInv(c) /\ job[c] \in JobRecord
      /\ file.rev \in Nat /\ file.rev >= file.rev /\ flock \in Callers \cup {Nobody}
  BY DEF ConfigInv, Types, Revisions
<1> DEFINE Steady == \A d \in Callers : job'[d].tx = job[d].tx /\ job'[d].base = job[d].base
<1>s. ASSUME Steady, flock' = flock, UNCHANGED <<heard, mail>>, file'.rev >= file.rev PROVE Mails'
  BY <1>s, MailsStay
<1>g. ASSUME NEW c \in Callers, NEW pc, Goes(c, pc) PROVE Steady
  BY <1>0, <1>g DEF Goes, JobRecord
<1>h. ASSUME NEW c \in Callers, Fails(c) PROVE Steady
  BY <1>0, <1>h DEF Fails, JobRecord
<1>l. ASSUME NEW c \in Callers, NEW out, job' = [job EXCEPT ![c].pc = "leaving", ![c].out = out] PROVE Steady
  BY <1>0, <1>l DEF JobRecord
<1> HIDE DEF Steady
<1>1. ASSUME NEW c \in Callers, Calls(c) PROVE Mails'
  <2>1. UNCHANGED <<file, flock, heard, mail>> /\ flock # c /\ \A d \in Callers \ {c} : job'[d] = job[d]
    BY <1>0, <1>1 DEF Calls, Goes, Disk, Loop, JobInv, Holding
  <2> QED
    BY <1>0, <2>1, MailsStay
<1>2. ASSUME NEW c \in Callers, Caller(c) PROVE Mails'
  BY <1>0, <1>2, <1>g, <1>s DEF Caller, Serializes, QueueTimeout, Resumes, Disk, Loop
<1>3. ASSUME NEW c \in Callers, ReadsFirst(c) \/ FlockTimeout(c) \/ Prepares(c) \/ Completes(c) PROVE Mails'
  BY <1>0, <1>3, <1>g, <1>h, <1>l, <1>s DEF ReadsFirst, FlockTimeout, Prepares, Completes, Disk, Loop
<1>4. ASSUME NEW c \in Callers, Flocks(c) PROVE Mails'
  <2>1. UNCHANGED <<file, heard, mail>> /\ flock' = c /\ job[c].tx = None
    BY <1>0, <1>4 DEF Flocks, Disk, Loop, JobInv, NotStarted
  <2>2. job'[c].tx = None
    BY <1>0, <1>4, <1>g, <2>1 DEF Flocks, Steady
  <2> QED
    BY <1>0, <2>1, <2>2, MailsStay
<1>5. ASSUME NEW c \in Callers, Begins(c) PROVE Mails'
  <2>1. CASE Fails(c)
    BY <1>0, <1>5, <1>h, <1>s, <2>1 DEF Begins, Disk, Loop
  <2>2. CASE ~Fails(c)
    <3>1. UNCHANGED <<file, flock, heard, mail>> /\ \A d \in Callers \ {c} : job'[d] = job[d]
      BY <1>0, <1>5, <2>2 DEF Begins, Disk, Loop
    <3>2. job'[c].base = file.rev
      BY <1>0, <1>5, <2>2 DEF Begins, Expected, JobRecord
    <3> QED
      BY <1>0, <3>1, <3>2, MailsStay
  <2> QED
    BY <2>1, <2>2
<1>6. ASSUME NEW c \in Callers, Replaces(c) PROVE Mails'
  <2>1. Steady
    BY <1>0, <1>6 DEF Replaces, Steady, JobRecord
  <2>2. file'.rev = file.rev + 1
    BY <1>0, <1>6 DEF Replaces, JobInv, Copy, JobRecord
  <2> QED
    BY <1>0, <1>6, <1>s, <2>1, <2>2 DEF Replaces, Loop
<1>7. ASSUME NEW c \in Callers, Confirms(c) PROVE Mails'
  <2>1. CASE job' = [job EXCEPT ![c].pc = "leaving", ![c].out = "unsure"]
    BY <1>0, <1>7, <1>l, <1>s, <2>1 DEF Confirms, Disk, Loop
  <2>2. CASE job' = [job EXCEPT ![c].pc = "deciding", ![c].tx = @ + 1,
                                ![c].posted = Append(@, job[c].tx + 1)]
    <3>1. job[c].tx # None /\ job'[c].base = job[c].base /\ \A d \in Callers \ {c} : job'[d] = job[d]
      BY <1>0, <1>7, <2>2 DEF Confirms, JobInv, Copy, JobRecord
    <3> QED
      BY <1>0, <1>7, <3>1, MailsStay DEF Confirms, Disk, Loop
  <2> QED
    BY <1>7, <2>1, <2>2 DEF Confirms
<1>8. ASSUME NEW c \in Callers, Accepts(c) PROVE Mails'
  BY <1>0, <1>8, <1>h, <1>l, <1>s DEF Accepts, Disk
<1>9. ASSUME NEW c \in Callers, Migrates(c) PROVE Mails'
  <2>1. UNCHANGED <<file, flock, heard, mail>>
    BY <1>9 DEF Migrates, Loop
  <2>2. CASE job' = [job EXCEPT ![c].pc = "writing", ![c].tx = file.rev, ![c].base = file.rev]
    <3>1. job'[c].base = file.rev /\ \A d \in Callers \ {c} : job'[d] = job[d]
      BY <1>0, <2>2 DEF JobRecord
    <3> QED
      BY <1>0, <2>1, <3>1, MailsStay
  <2> QED
    BY <1>0, <1>9, <1>h, <1>l, <1>s, <2>1, <2>2 DEF Migrates
<1>11. ASSUME NEW c \in Callers, WriteFails(c) PROVE Mails'
  BY <1>0, <1>11, <1>h, <1>s DEF WriteFails, Disk, Loop
<1>12. ASSUME NEW c \in Callers, Cancelled(c) PROVE Mails'
  <2>1. Steady
    BY <1>0, <1>12 DEF Cancelled, Steady, JobRecord
  <2> QED
    BY <1>0, <1>12, <1>s, <2>1 DEF Cancelled, Disk, Loop
<1>13. ASSUME NEW c \in Callers, RunEnds(c) PROVE Mails'
  BY <1>0, <1>13, <1>s DEF RunEnds, Disk, Steady
<1>16. CASE Damaged
  <2>1. file'.rev = file.rev
    BY <1>16 DEF Damaged, ConfigInv, Types
  <2> QED
    BY <1>0, <1>16, <1>s, <2>1 DEF Damaged, Loop, Steady
<1>17. CASE UNCHANGED cvars
  BY <1>0, <1>17, <1>s DEF cvars, Steady
<1>10. ASSUME NEW c \in Callers, Leaves(c) PROVE Mails'
  <2>0. /\ Home[c] \in Procs /\ mail \in [Procs -> Seq(Revisions)] /\ heard \in [Procs -> Seq(Revisions)]
        /\ job[c].posted \in Seq(Revisions) /\ c # Nobody
        /\ file' = file /\ heard' = heard /\ Steady
    BY <1>0, <1>10, <1>g DEF Leaves, ConfigInv, Types, HomeAssumption, JobRecord, Disk
  <2>1. CASE job[c].posted = <<>>
    <3>1. mail' = mail
      <4>1. mail[Home[c]] \o <<>> = mail[Home[c]]
        BY <2>0, ConcatEmptySeq
      <4> QED
        BY <1>10, <2>0, <2>1, <4>1 DEF Leaves
    <3>2. \A d \in Callers : flock' = d => flock = d
      BY <1>10 DEF Leaves, HomeAssumption
    <3> QED
      BY <1>0, <2>0, <3>1, <3>2, MailsStay DEF Steady
  <2>2. CASE job[c].posted # <<>>
    <3>1. flock = c /\ flock' = Nobody /\ job[c].tx # None
      BY <1>0, <1>10, <2>2 DEF Leaves, JobInv, Posts, Copy
    <3>2. SUFFICES ASSUME NEW p \in Procs
                   PROVE  Ordered(All(p)') /\ \A i \in DOMAIN All(p)' : All(p)'[i] <= file.rev
      BY <2>0, <3>1 DEF Mails, HomeAssumption
    <3>3. /\ All(p) \in Seq(Revisions) /\ Ordered(All(p))
          /\ \A i \in DOMAIN All(p) : All(p)[i] <= file.rev /\ All(p)[i] <= job[c].base
      BY <2>0, <3>1 DEF All, ConfigInv, Mails
    <3>4. CASE p # Home[c]
      BY <1>10, <2>0, <3>3, <3>4 DEF Leaves, All
    <3>5. CASE p = Home[c]
      <4>1. All(p)' = All(p) \o job[c].posted
        <5>1. All(p)' = heard[p] \o (mail[p] \o job[c].posted)
          BY <1>10, <2>0, <3>5 DEF Leaves, All
        <5>2. heard[p] \in Seq(Revisions) /\ mail[p] \in Seq(Revisions)
          BY <2>0
        <5>3. (heard[p] \o mail[p]) \o job[c].posted = heard[p] \o (mail[p] \o job[c].posted)
          <6>1. \A x, y, z \in Seq(Revisions) : (x \o y) \o z = x \o (y \o z)
            BY ConcatAssociative
          <6> QED
            BY <2>0, <5>2, <6>1
        <5> QED
          BY <5>1, <5>3 DEF All
      <4>2. /\ job[c].base \in Nat /\ Ordered(job[c].posted)
            /\ \A i \in DOMAIN job[c].posted : job[c].base < job[c].posted[i] /\ job[c].posted[i] <= file.rev
        BY <1>0, <3>1 DEF JobInv, Posts, Began, JobRecord, Revisions, None
      <4> HIDE DEF All
      <4> QED
        <5> DEFINE u == All(p) \o job[c].posted
        <5>1. /\ Ordered(u)
              /\ \A i \in DOMAIN u : \/ i \in DOMAIN All(p) /\ u[i] = All(p)[i]
                                     \/ \E k \in DOMAIN job[c].posted : u[i] = job[c].posted[k]
          BY <2>0, <3>3, <4>2, Joined
        <5>2. All(p)' = u
          BY <4>1
        <5> HIDE DEF u
        <5> QED
          BY <3>3, <4>2, <5>1, <5>2
    <3> QED
      BY <3>4, <3>5
  <2> QED
    BY <2>1, <2>2
<1>14. ASSUME NEW p \in Procs, Publishes(p) PROVE Mails'
  <2>1. /\ mail \in [Procs -> Seq(Revisions)] /\ heard \in [Procs -> Seq(Revisions)]
        /\ UNCHANGED <<file, flock, job>>
    BY <1>14 DEF Publishes, ConfigInv, Types, Disk
  <2>2. ASSUME NEW q \in Procs PROVE All(q)' = All(q)
    BY <1>14, <2>1, Passed DEF Publishes, All
  <2> HIDE DEF All
  <2> QED
    BY <2>1, <2>2 DEF Mails, ConfigInv
<1>15. ASSUME NEW p \in Procs, Dies(p) PROVE Mails'
  <2>1. /\ mail \in [Procs -> Seq(Revisions)] /\ heard \in [Procs -> Seq(Revisions)]
        /\ file' = file /\ heard' = heard /\ Steady
    BY <1>0, <1>15 DEF Dies, Steady, JobRecord, ConfigInv, Types, Disk
  <2>2. \A d \in Callers : flock' = d => flock = d
    BY <1>0, <1>15 DEF Dies, HomeAssumption
  <2>3. SUFFICES ASSUME NEW q \in Procs
                 PROVE  /\ Ordered(All(q)')
                        /\ \A i \in DOMAIN All(q)' :
                             /\ All(q)'[i] <= file.rev
                             /\ \A d \in Callers : flock = d /\ job[d].tx # None => All(q)'[i] <= job[d].base
    BY <2>1, <2>2 DEF Mails, Steady
  <2>4. Ordered(All(q)) /\ \A i \in DOMAIN All(q) :
          /\ All(q)[i] <= file.rev
          /\ \A d \in Callers : flock = d /\ job[d].tx # None => All(q)[i] <= job[d].base
    BY DEF ConfigInv, Mails
  <2>5. CASE mail'[q] = mail[q]
    <3>1. All(q)' = All(q)
      BY <2>1, <2>5 DEF All
    <3> QED
      BY <2>4, <3>1
  <2>6. CASE mail'[q] = <<>>
    <3>1. All(q)' = heard[q]
      BY <2>1, <2>6, ConcatEmptySeq DEF All
    <3>2. \A i \in DOMAIN heard[q] : i \in DOMAIN All(q) /\ All(q)[i] = heard[q][i]
      BY <2>1 DEF All
    <3> HIDE DEF All
    <3> QED
      BY <2>4, <3>1, <3>2 DEF Ordered
  <2> QED
    BY <1>15, <2>1, <2>5, <2>6 DEF Dies
<1> QED
  BY <1>1, <1>2, <1>3, <1>4, <1>5, <1>6, <1>7, <1>8, <1>9, <1>10, <1>11, <1>12, <1>13, <1>14, <1>15, <1>16, <1>17
     DEF ConfigNext, Thread

-----------------------------------------------------------------------------
(* A caller that is cancelled once at most keeps the lock of its process   *)
(* for as long as its thread runs.                                         *)
LEMMA LocksKept ==
  ASSUME HomeAssumption, ConfigInv, [ConfigNext]_cvars
  PROVE  Locks'
<1> SUFFICES ASSUME Cancels <= 1, NEW d \in Callers, job'[d].pc \in Threads PROVE mutex'[Home[d]] = d
  BY DEF Locks, LockCoversThread
<1>0. /\ job \in [Callers -> JobRecord] /\ mutex \in [Procs -> Callers \cup {Nobody}]
      /\ \A c \in Callers : Home[c] \in Procs /\ job[c] \in JobRecord
      /\ d # Nobody
      /\ job[d].pc \in Threads => mutex[Home[d]] = d
  BY DEF ConfigInv, Types, HomeAssumption, Locks, LockCoversThread
<1>k. ASSUME mutex' = mutex, job'[d].pc = job[d].pc \/ job[d].pc \in Threads PROVE mutex'[Home[d]] = d
  BY <1>0, <1>k
<1>g. ASSUME NEW c \in Callers, NEW pc, Goes(c, pc) PROVE job'[c].pc = pc /\ (d # c => job'[d] = job[d])
  BY <1>0, <1>g DEF Goes, JobRecord
<1>h. ASSUME NEW c \in Callers, Fails(c) PROVE d # c => job'[d] = job[d]
  BY <1>0, <1>h DEF Fails
<1>t. ASSUME NEW c \in Callers, d # c => job'[d] = job[d], job[c].pc \in Threads, mutex' = mutex
      PROVE  mutex'[Home[d]] = d
  BY <1>0, <1>k, <1>t
<1>1. ASSUME NEW c \in Callers, Calls(c) PROVE mutex'[Home[d]] = d
  <2>1. d # c /\ job'[d] = job[d]
    BY <1>0, <1>1, <1>g DEF Calls, JobRecord, Threads, Goes
  <2> QED
    BY <1>1, <1>k, <2>1 DEF Calls
<1>2. ASSUME NEW c \in Callers, Serializes(c) PROVE mutex'[Home[d]] = d
  <2>1. CASE d = c
    BY <1>0, <1>2, <2>1 DEF Serializes
  <2>2. CASE d # c
    BY <1>0, <1>2, <1>g, <2>2 DEF Serializes
  <2> QED
    BY <2>1, <2>2
<1>3. ASSUME NEW c \in Callers, QueueTimeout(c) PROVE mutex'[Home[d]] = d
  BY <1>0, <1>3, <1>g, <1>k DEF QueueTimeout, Threads
<1>4. ASSUME NEW c \in Callers, Resumes(c) PROVE mutex'[Home[d]] = d
  <2>1. d # c /\ job'[d] = job[d]
    BY <1>0, <1>4, <1>g DEF Resumes, Threads
  <2> QED
    BY <1>0, <1>4, <2>1 DEF Resumes, Releases
<1>5. ASSUME NEW c \in Callers, Thread(c) PROVE mutex'[Home[d]] = d
  <2>1. mutex' = mutex /\ job[c].pc \in Threads
    BY <1>5 DEF Thread, ReadsFirst, Flocks, FlockTimeout, Begins, Prepares, Replaces, Confirms, Accepts,
                Completes, Migrates, Leaves, Threads
  <2>2. d # c => job'[d] = job[d]
    BY <1>0, <1>5, <1>g, <1>h
       DEF Thread, ReadsFirst, Flocks, FlockTimeout, Begins, Prepares, Replaces, Confirms, Accepts,
           Completes, Migrates, Leaves
  <2> QED
    BY <1>t, <2>1, <2>2
<1>6. ASSUME NEW c \in Callers, WriteFails(c) PROVE mutex'[Home[d]] = d
  BY <1>6, <1>h, <1>t DEF WriteFails, Threads
<1>7. ASSUME NEW c \in Callers, Cancelled(c) PROVE mutex'[Home[d]] = d
  <2>1. job[c].cancels \in Nat /\ Cancels \in Nat /\ job[c].cancels < Cancels
    BY <1>0, <1>7 DEF Cancelled, JobRecord, HomeAssumption
  <2>2. mutex' = mutex
    BY <1>7, <2>1 DEF Cancelled
  <2>3. job'[d].pc = job[d].pc
    BY <1>0, <1>7 DEF Cancelled, JobRecord
  <2> QED
    BY <1>k, <2>2, <2>3
<1>8. ASSUME NEW c \in Callers, RunEnds(c) PROVE mutex'[Home[d]] = d
  BY <1>8, <1>k DEF RunEnds
<1>9. ASSUME NEW p \in Procs, Publishes(p) PROVE mutex'[Home[d]] = d
  BY <1>9, <1>k DEF Publishes
<1>10. ASSUME NEW p \in Procs, Dies(p) PROVE mutex'[Home[d]] = d
  <2>1. Home[d] # p
    BY <1>0, <1>10 DEF Dies, Threads, JobRecord
  <2> QED
    BY <1>0, <1>10, <2>1 DEF Dies
<1>11. CASE Damaged
  BY <1>11, <1>k DEF Damaged
<1>12. CASE UNCHANGED cvars
  BY <1>12, <1>k DEF cvars
<1> QED
  BY <1>1, <1>2, <1>3, <1>4, <1>5, <1>6, <1>7, <1>8, <1>9, <1>10, <1>11, <1>12 DEF ConfigNext, Caller

LEMMA ConfigInvariance ==
  ASSUME HomeAssumption
  PROVE  ConfigSpec => []ConfigInv
<1>1. ConfigInit => ConfigInv
  BY Start
<1>2. ConfigInv /\ [ConfigNext]_cvars => ConfigInv'
  BY TypesKept, JobsKept, MailsKept, LocksKept DEF ConfigInv
<1> QED
  BY <1>1, <1>2, PTL DEF ConfigSpec

(* The store, for any number of processes, callers, faults, cancellations  *)
(* and deaths: no edit reaches the task that an active run froze, no       *)
(* second thread starts beside one of a process whose callers are          *)
(* cancelled once at most, and every process is told of committed          *)
(* revisions only, in their order.                                         *)
THEOREM ConfigIsSafe ==
  ASSUME HomeAssumption
  PROVE  ConfigSpec => []ConfigSafe
<1>1. ASSUME ConfigInv PROVE ConfigSafe
  <2>1. ConfigTypeOK
    BY <1>1 DEF ConfigInv, Types, ConfigTypeOK, JobRecord
  <2>2. FrozenWhileActive
    BY <1>1 DEF ConfigInv, JobInv, Frozen, FrozenWhileActive
  <2>3. HeardInOrder
    <3> SUFFICES ASSUME NEW p \in Procs, NEW i \in DOMAIN All(p)
                 PROVE  All(p)[i] <= file.rev /\ \A j \in 1..i - 1 : All(p)[j] < All(p)[i]
      BY DEF HeardInOrder, All
    <3>1. Len(All(p)) \in Nat /\ DOMAIN All(p) = 1..Len(All(p))
      BY <1>1 DEF ConfigInv, Types, All
    <3>2. Ordered(All(p)) /\ All(p)[i] <= file.rev
      BY <1>1 DEF ConfigInv, Mails
    <3>3. \A j \in 1..i - 1 : j \in DOMAIN All(p) /\ j < i
      BY <3>1
    <3> HIDE DEF All
    <3> QED
      BY <3>2, <3>3 DEF Ordered
  <2> QED
    BY <1>1, <2>1, <2>2, <2>3 DEF ConfigSafe, ConfigInv, Locks
<1>2. ConfigInv => ConfigSafe
  BY <1>1
<1> QED
  BY <1>2, ConfigInvariance, PTL

(* A file that does not parse is never written over, and one of the old    *)
(* schema only when a copy of it is on the disk.                           *)
THEOREM OriginalSurvives ==
  ASSUME HomeAssumption
  PROVE  ConfigSpec => [][OriginalKept]_cvars
<1>1. ASSUME ConfigInv, ConfigNext PROVE OriginalKept
  <2>1. ASSUME NEW c \in Callers, Replaces(c) PROVE OriginalKept
    <3>1. JobInv(c) /\ job[c].pc = "writing"
      BY <1>1, <2>1 DEF ConfigInv, Replaces
    <3>2. \/ file.schema = "current"
          \/ file.schema = "old" /\ file.rev \in backup
      BY <3>1 DEF JobInv, Sources, Copy
    <3> QED
      BY <3>2 DEF OriginalKept
  <2>2. CASE Damaged
    <3>1. file'.schema = "damaged" /\ file.schema # "damaged"
      BY <1>1, <2>2 DEF Damaged, ConfigInv, Types
    <3> QED
      BY <3>1 DEF OriginalKept
  <2>3. file' = file => OriginalKept
    BY DEF OriginalKept
  <2>4. ASSUME NEW c \in Callers, Calls(c) \/ Caller(c) \/ Cancelled(c) \/ RunEnds(c) PROVE file' = file
    BY <2>4 DEF Calls, Caller, Serializes, QueueTimeout, Resumes, Cancelled, RunEnds, Disk
  <2>5. ASSUME NEW c \in Callers, Thread(c) PROVE file' = file \/ Replaces(c)
    BY <2>5 DEF Thread, ReadsFirst, Flocks, FlockTimeout, Begins, Prepares, Confirms, Accepts,
                Completes, Migrates, Leaves, Disk
  <2>6. ASSUME NEW c \in Callers, WriteFails(c) PROVE file' = file
    BY <2>6 DEF WriteFails, Disk
  <2>7. ASSUME NEW p \in Procs, Publishes(p) \/ Dies(p) PROVE file' = file
    BY <2>7 DEF Publishes, Dies, Disk
  <2>8. ASSUME NEW c \in Callers, Calls(c) \/ Caller(c) \/ Thread(c) \/ WriteFails(c) \/ Cancelled(c) \/ RunEnds(c)
        PROVE  OriginalKept
    BY <2>1, <2>3, <2>4, <2>5, <2>6, <2>8
  <2>9. ASSUME NEW p \in Procs, Publishes(p) \/ Dies(p) PROVE OriginalKept
    BY <2>3, <2>7, <2>9
  <2> QED
    BY <1>1, <2>2, <2>8, <2>9 DEF ConfigNext
<1>2. ConfigInv /\ [ConfigNext]_cvars => [OriginalKept]_cvars
  BY <1>1
<1> QED
  BY <1>2, ConfigInvariance, PTL DEF ConfigSpec

-----------------------------------------------------------------------------
(* The refinement.  A step that touches neither the revision nor what the  *)
(* register sees of a job is a stutter.                                    *)
LEMMA SameRegister ==
  ASSUME file'.rev = file.rev,
         \A c \in Callers : /\ job'[c].base = job[c].base /\ job'[c].made = job[c].made
                            /\ job'[c].out = job[c].out
  PROVE  UNCHANGED Register!rvars
BY DEF Register!rvars

LEMMA RegisterStart == HomeAssumption /\ ConfigInit => Register!RegisterInit
BY DEF HomeAssumption, ConfigInit, Register!RegisterInit, NewJob

(* What a thread that ends tells its caller is an answer of the register.  *)
LEMMA Answers ==
  ASSUME ConfigInv, NEW c \in Callers, NEW out \in Outs \ {"none"},
         job' = [job EXCEPT ![c].pc = "leaving", ![c].out = out], file' = file, job[c].out = "none",
         out = "ok" => job[c].made = Wanted[c],
         out \in {"refused", "nothing"} => job[c].made = 0,
         out = "partial" => job[c].made \in 1..Wanted[c] - 1
  PROVE  Register!RegisterNext
<1>1. job \in [Callers -> JobRecord] /\ \A d \in Callers : job[d] \in JobRecord
  BY DEF ConfigInv, Types
<1>a. /\ job'[c].base = job[c].base /\ job'[c].made = job[c].made /\ job'[c].out = out
      /\ \A d \in Callers \ {c} : job'[d] = job[d]
  BY <1>1 DEF JobRecord
<1>2. /\ \A d \in Callers : job'[d].base = job[d].base /\ job'[d].made = job[d].made
      /\ job'[c].out = out /\ \A d \in Callers \ {c} : job'[d].out = job[d].out
  BY <1>a
<1>b. [d \in Callers |-> job'[d].out] = [[d \in Callers |-> job[d].out] EXCEPT ![c] = out]
  BY <1>2
<1>c. /\ [d \in Callers |-> job'[d].base] = [d \in Callers |-> job[d].base]
      /\ [d \in Callers |-> job'[d].made] = [d \in Callers |-> job[d].made]
  BY <1>2
<1>3. Register!Answer(c, out)
  BY <1>b, <1>c DEF Register!Answer
<1> QED
  BY <1>3 DEF Register!RegisterNext, Outs

LEMMA FailAnswers ==
  ASSUME ConfigInv, NEW c \in Callers, Fails(c), file' = file,
         job[c].pc \in {"reading", "flocking", "deciding", "writing"},
         job[c].made = 0 \/ job[c].made < Wanted[c]
  PROVE  Register!RegisterNext
<1>1. JobInv(c) /\ job[c] \in JobRecord /\ job[c].made \in 0..2 /\ Wanted[c] \in 0..2
  BY DEF ConfigInv, Types, JobRecord, Wanted
<1>2. job[c].out = "none"
  BY <1>1 DEF JobInv, NotStarted, Holding
<1>3. CASE job[c].made = 0
  <2>1. job' = [job EXCEPT ![c].pc = "leaving", ![c].out = "refused"]
    BY <1>3 DEF Fails
  <2>2. "refused" \in Outs \ {"none"}
    BY DEF Outs
  <2> QED
    BY <1>2, <1>3, <2>1, <2>2, Answers
<1>4. CASE job[c].made # 0
  <2>1. job' = [job EXCEPT ![c].pc = "leaving", ![c].out = "partial"]
    BY <1>4 DEF Fails
  <2>2. job[c].made \in 1..Wanted[c] - 1
    BY <1>1, <1>4
  <2>3. "partial" \in Outs \ {"none"}
    BY DEF Outs
  <2> QED
    BY <1>2, <2>1, <2>2, <2>3, Answers
<1> QED
  BY <1>3, <1>4

(* Taking a revision to begin from: the current one.                       *)
LEMMA Expects ==
  ASSUME ConfigInv, NEW c \in Callers, file' = file, job[c].made = 0, job[c].out = "none",
         job'[c].base = file.rev, job'[c].made = 0, job'[c].out = "none",
         \A d \in Callers \ {c} : job'[d] = job[d]
  PROVE  Register!RegisterNext
<1>1. Register!Expect(c)
  BY DEF Register!Expect
<1> QED
  BY <1>1 DEF Register!RegisterNext

LEMMA RegisterStep ==
  ASSUME HomeAssumption, ConfigInv, [ConfigNext]_cvars
  PROVE  [Register!RegisterNext]_(Register!rvars)
<1>0. /\ job \in [Callers -> JobRecord] /\ \A c \in Callers : JobInv(c) /\ job[c] \in JobRecord
      /\ \A c \in Callers : job[c].made \in 0..2 /\ Wanted[c] \in 0..2
  BY DEF ConfigInv, Types, JobRecord, Wanted
<1>u. ASSUME file'.rev = file.rev, job' = job PROVE UNCHANGED Register!rvars
  BY <1>u, SameRegister
<1>g. ASSUME file' = file, NEW c \in Callers, NEW pc, Goes(c, pc) PROVE UNCHANGED Register!rvars
  <2>1. \A d \in Callers : job'[d].base = job[d].base /\ job'[d].made = job[d].made /\ job'[d].out = job[d].out
    BY <1>0, <1>g DEF Goes, JobRecord
  <2> QED
    BY <1>g, <2>1, SameRegister
<1>1. ASSUME NEW c \in Callers, Calls(c) PROVE Register!RegisterNext \/ UNCHANGED Register!rvars
  <2>1. CASE Goes(c, "queued")
    BY <1>1, <1>g, <2>1 DEF Calls, Disk
  <2>2. CASE job' = [job EXCEPT ![c].pc = "queued", ![c].base = file.rev, ![c].frozen = file.task]
    <3>1. job[c].made = 0 /\ job[c].out = "none"
      BY <1>0, <1>1 DEF Calls, JobInv, NotStarted
    <3>2. /\ job'[c].base = file.rev /\ job'[c].made = job[c].made /\ job'[c].out = job[c].out
          /\ \A d \in Callers \ {c} : job'[d] = job[d]
      BY <1>0, <2>2 DEF JobRecord
    <3> QED
      BY <1>1, <3>1, <3>2, Expects DEF Calls, Disk
  <2> QED
    BY <1>1, <2>1, <2>2 DEF Calls
<1>2. ASSUME NEW c \in Callers, Caller(c) \/ Flocks(c) \/ Leaves(c) PROVE UNCHANGED Register!rvars
  BY <1>2, <1>g DEF Caller, Serializes, QueueTimeout, Resumes, Flocks, Leaves, Disk
<1>3. ASSUME NEW c \in Callers, ReadsFirst(c) \/ FlockTimeout(c)
      PROVE  Register!RegisterNext \/ UNCHANGED Register!rvars
  <2>1. job[c].made = 0 /\ job[c].out = "none" /\ file' = file
    BY <1>0, <1>3 DEF ReadsFirst, FlockTimeout, JobInv, NotStarted, Disk
  <2>2. Fails(c) => Register!RegisterNext
    BY <1>3, <2>1, FailAnswers DEF ReadsFirst, FlockTimeout
  <2>3. job' = [job EXCEPT ![c].pc = "leaving", ![c].out = "nothing"] => Register!RegisterNext
    BY <2>1, Answers DEF Outs
  <2> QED
    BY <1>3, <1>g, <2>1, <2>2, <2>3 DEF ReadsFirst, FlockTimeout
<1>4. ASSUME NEW c \in Callers, Begins(c) PROVE Register!RegisterNext \/ UNCHANGED Register!rvars
  <2>1. job[c].made = 0 /\ job[c].out = "none" /\ file' = file
    BY <1>0, <1>4 DEF Begins, JobInv, Copy, Holding, Disk
  <2>2. CASE Fails(c)
    BY <1>4, <2>1, <2>2, FailAnswers DEF Begins
  <2>3. CASE ~Fails(c)
    <3>1. /\ job'[c].base = file.rev /\ job'[c].made = job[c].made /\ job'[c].out = job[c].out
          /\ \A d \in Callers \ {c} : job'[d] = job[d]
      BY <1>0, <1>4, <2>3 DEF Begins, Expected, JobRecord
    <3> QED
      BY <2>1, <3>1, Expects
  <2> QED
    BY <2>2, <2>3
<1>5. ASSUME NEW c \in Callers, Prepares(c) PROVE Register!RegisterNext \/ UNCHANGED Register!rvars
  BY <1>0, <1>5, <1>g, FailAnswers DEF Prepares, Disk
<1>6. ASSUME NEW c \in Callers, WriteFails(c) PROVE Register!RegisterNext
  BY <1>0, <1>6, FailAnswers DEF WriteFails, Disk
<1>7. ASSUME NEW c \in Callers, Replaces(c) PROVE Register!RegisterNext
  <2>1. /\ job[c].out = "none" /\ job[c].made < Wanted[c]
        /\ file.rev = job[c].base + job[c].made /\ file'.rev = file.rev + 1
    BY <1>0, <1>7 DEF Replaces, JobInv, Copy, Holding
  <2>2. /\ job'[c].made = job[c].made + 1 /\ job'[c].base = job[c].base /\ job'[c].out = job[c].out
        /\ \A d \in Callers \ {c} : job'[d] = job[d]
    BY <1>0, <1>7 DEF Replaces, JobRecord
  <2>3. Register!Commit(c)
    BY <2>1, <2>2 DEF Register!Commit
  <2> QED
    BY <2>3 DEF Register!RegisterNext
<1>8. ASSUME NEW c \in Callers, Confirms(c) PROVE Register!RegisterNext \/ UNCHANGED Register!rvars
  <2>1. job[c].out = "none" /\ file' = file
    BY <1>0, <1>8 DEF Confirms, JobInv, Holding, Disk
  <2>2. CASE job' = [job EXCEPT ![c].pc = "leaving", ![c].out = "unsure"]
    <3>1. "unsure" \in Outs \ {"none"}
      BY DEF Outs
    <3> QED
      BY <2>1, <2>2, <3>1, Answers
  <2>3. CASE job' = [job EXCEPT ![c].pc = "deciding", ![c].tx = @ + 1,
                                ![c].posted = Append(@, job[c].tx + 1)]
    <3>1. \A d \in Callers : job'[d].base = job[d].base /\ job'[d].made = job[d].made /\ job'[d].out = job[d].out
      BY <1>0, <2>3 DEF JobRecord
    <3> QED
      BY <2>1, <3>1, SameRegister
  <2> QED
    BY <1>8, <2>2, <2>3 DEF Confirms
<1>9. ASSUME NEW c \in Callers, Accepts(c) PROVE Register!RegisterNext
  <2>1. job[c].out = "none" /\ job[c].made = 0 /\ Wanted[c] = 0 /\ file' = file
    BY <1>0, <1>9 DEF Accepts, JobInv, Copy, Holding, Wanted, Disk
  <2>2. CASE Fails(c)
    <3>1. job[c].pc = "deciding" /\ job[c].made = 0
      BY <1>9, <2>1 DEF Accepts
    <3> QED
      BY <2>1, <2>2, <3>1, FailAnswers
  <2>3. CASE job' = [job EXCEPT ![c].pc = "leaving", ![c].out = "ok"]
    <3>1. "ok" \in Outs \ {"none"}
      BY DEF Outs
    <3> QED
      BY <2>1, <2>3, <3>1, Answers
  <2> QED
    BY <1>9, <2>2, <2>3 DEF Accepts
<1>10. ASSUME NEW c \in Callers, Completes(c) PROVE Register!RegisterNext
  <2>1. job[c].out = "none" /\ job[c].made = Wanted[c] /\ file' = file
    BY <1>0, <1>10 DEF Completes, JobInv, Holding, Disk
  <2> QED
    <3>1. "ok" \in Outs \ {"none"} /\ job' = [job EXCEPT ![c].pc = "leaving", ![c].out = "ok"]
      BY <1>10 DEF Completes, Outs
    <3> QED
      BY <2>1, <3>1, Answers
<1>11. ASSUME NEW c \in Callers, Migrates(c) PROVE Register!RegisterNext
  <2>1. job[c].out = "none" /\ job[c].made = 0 /\ file' = file /\ job[c].pc = "deciding"
    BY <1>0, <1>11 DEF Migrates, JobInv, Copy, Holding
  <2>2. CASE job' = [job EXCEPT ![c].pc = "writing", ![c].tx = file.rev, ![c].base = file.rev]
    <3>1. /\ job'[c].base = file.rev /\ job'[c].made = job[c].made /\ job'[c].out = job[c].out
          /\ \A d \in Callers \ {c} : job'[d] = job[d]
      BY <1>0, <2>2 DEF JobRecord
    <3> QED
      BY <2>1, <3>1, Expects
  <2>3. job' = [job EXCEPT ![c].pc = "leaving", ![c].out = "nothing"] => Register!RegisterNext
    BY <2>1, Answers DEF Outs
  <2> QED
    BY <1>11, <2>1, <2>2, <2>3, FailAnswers DEF Migrates
<1>12. ASSUME NEW c \in Callers, Cancelled(c) PROVE UNCHANGED Register!rvars
  <2>1. \A d \in Callers : job'[d].base = job[d].base /\ job'[d].made = job[d].made /\ job'[d].out = job[d].out
    BY <1>0, <1>12 DEF Cancelled, JobRecord
  <2> QED
    BY <1>12, <2>1, SameRegister DEF Cancelled, Disk
<1>13. ASSUME NEW p \in Procs, Dies(p) PROVE UNCHANGED Register!rvars
  <2>1. \A d \in Callers : job'[d].base = job[d].base /\ job'[d].made = job[d].made /\ job'[d].out = job[d].out
    BY <1>0, <1>13 DEF Dies, JobRecord
  <2> QED
    BY <1>13, <2>1, SameRegister DEF Dies, Disk
<1>14. ASSUME NEW c \in Callers, RunEnds(c) PROVE UNCHANGED Register!rvars
  BY <1>14, <1>u DEF RunEnds, Disk
<1>15. ASSUME NEW p \in Procs, Publishes(p) PROVE UNCHANGED Register!rvars
  BY <1>15, <1>u DEF Publishes, Disk
<1>16. CASE Damaged
  <2>1. file'.rev = file.rev /\ job' = job
    BY <1>16 DEF Damaged, ConfigInv, Types
  <2> QED
    BY <1>u, <2>1
<1>17. CASE UNCHANGED cvars
  BY <1>17, <1>u DEF cvars
<1> QED
  BY <1>1, <1>2, <1>3, <1>4, <1>5, <1>6, <1>7, <1>8, <1>9, <1>10, <1>11, <1>12, <1>13, <1>14, <1>15, <1>16, <1>17
     DEF ConfigNext, Thread

(* However many processes and threads read, lock, write, fail, are         *)
(* cancelled and die, the store is the register: each commit extends the   *)
(* revision that its caller began from, and what a caller is told - done,  *)
(* refused, partly done, not known - is what happened.                     *)
THEOREM StoreImplementsRegister ==
  ASSUME HomeAssumption
  PROVE  ConfigSpec => ImplementsRegister
<1>1. ConfigInit => Register!RegisterInit
  BY RegisterStart
<1>2. ConfigInv /\ [ConfigNext]_cvars => [Register!RegisterNext]_(Register!rvars)
  BY RegisterStep
<1> QED
  BY <1>1, <1>2, ConfigInvariance, PTL DEF ConfigSpec, ImplementsRegister, Register!RegisterSpec

-----------------------------------------------------------------------------
(* The configuration and the Keychain *)

One == Cardinality(Legacy) <= 1
ImportAt == {"import", "values", "record", "fail"}
Unsure == {"fail", "check", "drop", "mark"}

(* What the file and the Keychain say of a library, whoever works.         *)
LibrarySound(l) ==
  /\ disk.origin[l] # 0 /\ chain[l] # 0 => chain[l] >= disk.origin[l]
  /\ l \in Legacy /\ disk.origin[l] # 0 => disk.imp = "completed"
  /\ One =>
       /\ chain[l] # 0 =>
            Has(l) \/ disk.meta[l] # "none" \/ l \in disk.written \/ (l \in Fresh /\ disk.imp = "completed")
       /\ l \in Legacy /\ chain[l] # 0 => disk.imp # "declined" /\ (disk.imp # "completed" => l \in disk.written)
FileSound == \A l \in Libs : LibrarySound(l)
NotDrawn == \A l \in bound.fresh : chain[l] = 0 /\ disk.origin[l] = 0

(* An import: what it has found and stored, and what it will write.        *)
Imported ==
  /\ op.at \in ImportAt =>
       /\ op.todo \subseteq op.found /\ op.found \subseteq Legacy
       /\ copy.imp # "completed" /\ \A l \in Libs : copy.origin[l] = 0
  /\ op.at = "import" => op.todo = op.found /\ copy.imp # "declined"
  /\ op.at \in {"values", "record"} => copy.imp = "in_progress"
  /\ op.at = "record" => op.lib \in op.todo /\ chain[op.lib] # 0
  /\ op.at \in {"values", "record"} => \A l \in op.found \ op.todo : chain[l] # 0 /\ l \in op.written
StillListed ==
  /\ op.at \in {"values", "record"} /\ op.todo # {} => Legacy \subseteq copy.written
  /\ op.at \in ImportAt =>
       /\ \A l \in Libs : chain[l] # 0 => copy.meta[l] # "none" \/ l \in op.written \/ (op.at = "record" /\ l = op.lib)
       /\ \A l \in Legacy : chain[l] # 0 => l \in op.written \/ (op.at = "record" /\ l = op.lib)
Declining ==
  op.at = "decline" =>
    copy.imp \in {"none", "failed"} /\ \A l \in copy.written \ op.todo : chain[l] = 0

(* What an operation on one library knows of it.                           *)
OfLibrary ==
  /\ op.at \notin ImportAt \cup {"idle", "decline"} => op.lib \in Libs
  /\ op.at \in {"create", "createSet", "rollback"} => op.lib \in Fresh \ bound.fresh /\ chain[op.lib] = 0
  /\ op.at = "createSet" => disk.origin[op.lib] = 1
  /\ op.at = "put" => op.new = disk.origin[op.lib] /\ op.new # 0
  /\ op.at = "removed" => chain[op.lib] = 0
Swapped ==
  /\ op.at \in {"move", "swap", "swapCommit", "check", "restore"} => op.new # 0 /\ disk.origin[op.lib] # 0
  /\ op.at = "move" => op.keep \/ op.new = disk.origin[op.lib] \/ chain[op.lib] = 0
  /\ op.at \in {"move", "swap"} => op.new >= disk.origin[op.lib]
  /\ op.at \in {"swapCommit", "check"} => chain[op.lib] = op.new
  /\ op.at \in {"swap", "swapCommit", "check", "restore"} /\ op.old # 0 /\ disk.origin[op.lib] # op.new =>
       op.old >= disk.origin[op.lib]
  /\ op.at = "restore" => disk.origin[op.lib] # op.new

AtWork ==
  /\ ~ up => op.at = "idle"
  /\ op.at \notin Unsure \cup {"idle"} => copy = disk
  /\ Imported /\ (One => StillListed) /\ Declining /\ OfLibrary /\ Swapped

CredentialsInv == SettingsTypeOK /\ FileSound /\ NotDrawn /\ AtWork

LEMMA OneLegacy ==
  ASSUME SettingsAssumption, One, NEW l \in Legacy, NEW m \in Legacy
  PROVE  l = m
<1>1. IsFiniteSet(Legacy)
  BY FS_Subset DEF SettingsAssumption, Libs
<1> PICK rest : rest = Legacy \ {l}
  OBVIOUS
<1>2. IsFiniteSet(rest) /\ Cardinality(rest) = Cardinality(Legacy) - 1
  BY <1>1, FS_RemoveElement
<1>3. Cardinality(rest) \in Nat /\ Cardinality(Legacy) \in Nat
  BY <1>1, <1>2, FS_CardinalityType
<1>4. Cardinality(rest) = 0
  BY <1>2, <1>3 DEF One
<1>5. rest = {}
  BY <1>2, <1>4, FS_EmptySet
<1>6. QED
  BY <1>5

OpRec == [at: Ats, lib: Libs \cup {NoLib}, new: 0..Moves, old: 0..Moves,
          todo: SUBSET Libs, found: SUBSET Libs, written: SUBSET Libs, keep: BOOLEAN]
BoundRec == [imports: 0..Imports, faults: 0..Failures, crashes: 0..Crashes, fresh: SUBSET Fresh]

LEMMA IdleIs ==
  ASSUME SettingsAssumption
  PROVE  Idle \in OpRec /\ Idle.at = "idle"
  BY DEF Idle, OpRec, Ats, SettingsAssumption

LEMMA ThenIs ==
  ASSUME op \in OpRec, NEW place \in Ats
  PROVE  /\ Then(place) \in OpRec /\ Then(place).at = place
         /\ Then(place).lib = op.lib /\ Then(place).new = op.new /\ Then(place).old = op.old
         /\ Then(place).todo = op.todo /\ Then(place).found = op.found /\ Then(place).written = op.written
         /\ Then(place).keep = op.keep
  BY DEF Then, OpRec

AtPlace(e, place) == [e EXCEPT !.at = place]

LEMMA PlacedIs ==
  ASSUME NEW e \in OpRec, NEW place \in Ats
  PROVE  /\ AtPlace(e, place) \in OpRec /\ AtPlace(e, place).at = place
         /\ AtPlace(e, place).todo = e.todo /\ AtPlace(e, place).found = e.found
         /\ AtPlace(e, place).written = e.written
  BY DEF OpRec, AtPlace

LEMMA FaultedIs ==
  ASSUME SettingsAssumption, bound \in BoundRec, Faulted
  PROVE  bound' \in BoundRec /\ bound'.fresh = bound.fresh
<1> PICK left \in Nat : left = bound.faults - 1 /\ left \in 0..Failures
  BY DEF Faulted, BoundRec, SettingsAssumption
<1>1. bound' = [bound EXCEPT !.faults = left]
  BY DEF Faulted
<1>2. QED
  BY <1>1 DEF BoundRec

(* What a commit of the configuration leaves: c or, when it fails, c or    *)
(* what there was.                                                         *)
Committed(c, config, next, otherwise) ==
  /\ c.rev = copy.rev + 1 /\ c.imp = config.imp /\ c.written = config.written
  /\ c.origin = config.origin /\ c.meta = config.meta
  /\ up' = up /\ bound' \in BoundRec /\ bound'.fresh = bound.fresh
  /\ \/ disk' = c /\ copy' = c /\ op' = next
     \/ disk' \in {disk, c} /\ copy' = copy /\ op' = otherwise

LEMMA CommitIs ==
  ASSUME SettingsAssumption, SettingsTypeOK, NEW config \in ConfigSet, NEW next, NEW otherwise,
         Commits(config, next, otherwise)
  PROVE  \E c \in ConfigSet : Committed(c, config, next, otherwise)
<1>1. bound \in BoundRec /\ copy.rev \in Nat
  BY DEF SettingsTypeOK, BoundRec, ConfigSet
<1> PICK c \in ConfigSet :
      /\ c = [config EXCEPT !.rev = copy.rev + 1]
      /\ c.rev = copy.rev + 1 /\ c.imp = config.imp /\ c.written = config.written
      /\ c.origin = config.origin /\ c.meta = config.meta
  <2>1. [config EXCEPT !.rev = copy.rev + 1] \in ConfigSet
    BY <1>1 DEF ConfigSet
  <2>2. QED
    BY <2>1 DEF ConfigSet
<1>2. /\ up' = up
      /\ \/ disk' = c /\ copy' = c /\ op' = next /\ bound' = bound
         \/ Faulted /\ disk' \in {disk, c} /\ copy' = copy /\ op' = otherwise
  BY DEF Commits
<1>3. bound' \in BoundRec /\ bound'.fresh = bound.fresh
  BY <1>1, <1>2, FaultedIs
<1>4. QED
  BY <1>2, <1>3 DEF Committed

(* What a write to the Keychain leaves: an entry, or what there was.       *)
Stored(lib, pat, next, otherwise) ==
  /\ UNCHANGED <<disk, copy, up>> /\ bound' \in BoundRec /\ bound'.fresh = bound.fresh
  /\ chain' \in [Libs -> 0..Moves]
  /\ \/ chain'[lib] = pat /\ (\A l \in Libs \ {lib} : chain'[l] = chain[l]) /\ op' = next
     \/ chain' = chain /\ op' = otherwise

LEMMA StoreIs ==
  ASSUME SettingsAssumption, SettingsTypeOK, NEW lib \in Libs, NEW pat \in 0..Moves, NEW next, NEW otherwise,
         Stores(lib, pat, next, otherwise)
  PROVE  Stored(lib, pat, next, otherwise)
<1>1. bound \in BoundRec /\ chain \in [Libs -> 0..Moves]
  BY DEF SettingsTypeOK, BoundRec
<1>2. /\ UNCHANGED <<disk, copy, up>>
      /\ \/ chain' = [chain EXCEPT ![lib] = pat] /\ op' = next /\ bound' = bound
         \/ Faulted /\ chain' = chain /\ op' = otherwise
  BY DEF Stores, Keychain
<1>3. bound' \in BoundRec /\ bound'.fresh = bound.fresh
  BY <1>1, <1>2, FaultedIs
<1>4. QED
  BY <1>1, <1>2, <1>3 DEF Stored

(* What the changes of one library write.                                  *)
WithOrigin(lib, o) == [copy EXCEPT !.origin[lib] = o]
WithMeta(lib, m) == [copy EXCEPT !.meta[lib] = m]
WithEntry(lib, o, m) == [copy EXCEPT !.origin[lib] = o, !.meta[lib] = m]

LEMMA EntryIs ==
  ASSUME copy \in ConfigSet, NEW lib \in Libs, NEW o \in 0..Moves, NEW m \in {"none", "live", "pending"}
  PROVE  /\ WithEntry(lib, o, m) \in ConfigSet
         /\ WithEntry(lib, o, m).imp = copy.imp /\ WithEntry(lib, o, m).written = copy.written
         /\ WithEntry(lib, o, m).origin[lib] = o
         /\ \A l \in Libs \ {lib} : WithEntry(lib, o, m).origin[l] = copy.origin[l]
         /\ WithEntry(lib, o, m).meta[lib] = m
         /\ \A l \in Libs \ {lib} : WithEntry(lib, o, m).meta[l] = copy.meta[l]
<1> PICK origin \in [Libs -> 0..Moves] : origin = [copy.origin EXCEPT ![lib] = o]
  BY DEF ConfigSet
<1> PICK meta \in [Libs -> {"none", "live", "pending"}] : meta = [copy.meta EXCEPT ![lib] = m]
  BY DEF ConfigSet
<1> PICK cfg : cfg = [copy EXCEPT !.origin = origin, !.meta = meta]
  OBVIOUS
<1>1. cfg = WithEntry(lib, o, m)
  BY DEF WithEntry
<1>2. cfg \in ConfigSet /\ cfg.imp = copy.imp /\ cfg.written = copy.written /\ cfg.origin = origin /\ cfg.meta = meta
  BY DEF ConfigSet
<1>3. /\ origin[lib] = o /\ \A l \in Libs \ {lib} : origin[l] = copy.origin[l]
      /\ meta[lib] = m /\ \A l \in Libs \ {lib} : meta[l] = copy.meta[l]
  BY DEF ConfigSet
<1>4. QED
  BY <1>1, <1>2, <1>3

LEMMA OriginIs ==
  ASSUME copy \in ConfigSet, NEW lib \in Libs, NEW o \in 0..Moves
  PROVE  /\ WithOrigin(lib, o) \in ConfigSet
         /\ WithOrigin(lib, o).imp = copy.imp /\ WithOrigin(lib, o).written = copy.written
         /\ WithOrigin(lib, o).meta = copy.meta /\ WithOrigin(lib, o).origin[lib] = o
         /\ \A l \in Libs \ {lib} : WithOrigin(lib, o).origin[l] = copy.origin[l]
<1> PICK origin \in [Libs -> 0..Moves] : origin = [copy.origin EXCEPT ![lib] = o]
  BY DEF ConfigSet
<1>1. WithOrigin(lib, o) = [copy EXCEPT !.origin = origin]
  BY DEF WithOrigin
<1>2. QED
  BY <1>1 DEF ConfigSet

LEMMA MetaIs ==
  ASSUME copy \in ConfigSet, NEW lib \in Libs, NEW m \in {"none", "live", "pending"}
  PROVE  /\ WithMeta(lib, m) \in ConfigSet
         /\ WithMeta(lib, m).imp = copy.imp /\ WithMeta(lib, m).written = copy.written
         /\ WithMeta(lib, m).origin = copy.origin /\ WithMeta(lib, m).meta[lib] = m
         /\ \A l \in Libs \ {lib} : WithMeta(lib, m).meta[l] = copy.meta[l]
<1> PICK meta \in [Libs -> {"none", "live", "pending"}] : meta = [copy.meta EXCEPT ![lib] = m]
  BY DEF ConfigSet
<1>1. WithMeta(lib, m) = [copy EXCEPT !.meta = meta]
  BY DEF WithMeta
<1>2. QED
  BY <1>1 DEF ConfigSet

(* When no operation is under way there is only what the two stores say.   *)
LEMMA RestKeeps ==
  ASSUME disk' \in ConfigSet, copy' \in ConfigSet, chain' \in [Libs -> 0..Moves], up' \in BOOLEAN,
         bound' \in BoundRec, FileSound', NotDrawn', op' \in OpRec, op'.at = "idle"
  PROVE  CredentialsInv'
<1>1. SettingsTypeOK'
  BY DEF SettingsTypeOK, OpRec, BoundRec
<1>2. Imported' /\ StillListed' /\ Declining' /\ OfLibrary' /\ Swapped'
  BY DEF Imported, StillListed, Declining, OfLibrary, Swapped, ImportAt
<1>3. QED
  BY <1>1, <1>2 DEF CredentialsInv, AtWork

LEMMA OverKeeps ==
  ASSUME SettingsAssumption, disk' \in ConfigSet, copy' \in ConfigSet, chain' \in [Libs -> 0..Moves], up' \in BOOLEAN,
         bound' \in BoundRec, FileSound', NotDrawn', op' = Idle
  PROVE  CredentialsInv'
<1>1. op' \in OpRec /\ op'.at = "idle"
  BY IdleIs
<1>2. QED
  BY <1>1, RestKeeps

LEMMA CredentialsInitKeeps ==
  ASSUME SettingsAssumption, SettingsInit
  PROVE  CredentialsInv
<1>1. op \in OpRec /\ op.at = "idle"
  BY IdleIs DEF SettingsInit
<1>2. disk \in ConfigSet /\ copy \in ConfigSet /\ disk.imp = "none" /\ \A l \in Libs : disk.origin[l] = 0
  BY DEF SettingsInit, ConfigSet, SettingsAssumption
<1>3. bound \in BoundRec /\ bound.fresh = Fresh
  BY DEF SettingsInit, BoundRec, SettingsAssumption
<1>4. chain \in [Libs -> 0..Moves] /\ up \in BOOLEAN /\ \A l \in Libs : chain[l] = 0
  BY DEF SettingsInit, SettingsAssumption
<1>5. SettingsTypeOK
  BY <1>1, <1>2, <1>3, <1>4 DEF SettingsTypeOK, OpRec, BoundRec
<1>6. FileSound /\ NotDrawn
  BY <1>2, <1>3, <1>4 DEF FileSound, LibrarySound, NotDrawn, Libs
<1>7. Imported /\ StillListed /\ Declining /\ OfLibrary /\ Swapped
  BY <1>1 DEF Imported, StillListed, Declining, OfLibrary, Swapped, ImportAt
<1>8. QED
  BY <1>1, <1>5, <1>6, <1>7 DEF CredentialsInv, AtWork

(* What the proofs of the steps know before one.                           *)
LEMMA WorkIs ==
  ASSUME SettingsAssumption, CredentialsInv
  PROVE  /\ SettingsTypeOK /\ disk \in ConfigSet /\ copy \in ConfigSet /\ chain \in [Libs -> 0..Moves]
         /\ op \in OpRec /\ up \in BOOLEAN /\ bound \in BoundRec
         /\ NotDrawn /\ \A l \in Libs : LibrarySound(l)
         /\ op.at # "idle" => up = TRUE
         /\ op.at \notin Unsure \cup {"idle"} => copy = disk
         /\ op.at \notin ImportAt \cup {"idle", "decline"} => op.lib \in Libs
  BY DEF CredentialsInv, SettingsTypeOK, OpRec, BoundRec, FileSound, AtWork, OfLibrary

LEMMA LibraryStays ==
  ASSUME NEW l \in Libs, LibrarySound(l), disk'.imp = disk.imp,
         disk'.origin[l] = disk.origin[l], disk'.meta[l] = disk.meta[l], chain'[l] = chain[l],
         l \in disk.written => l \in disk'.written
  PROVE  LibrarySound(l)'
  BY DEF LibrarySound, Has

(* A step that leaves an operation on one library under way.               *)
LEMMA LibraryKeeps ==
  ASSUME disk' \in ConfigSet, copy' \in ConfigSet, chain' \in [Libs -> 0..Moves], up' = TRUE,
         bound' \in BoundRec, op' \in OpRec, FileSound', NotDrawn',
         op'.at \notin ImportAt \cup {"idle", "decline"}, op'.at \notin Unsure => copy' = disk', OfLibrary', Swapped'
  PROVE  CredentialsInv'
<1>1. SettingsTypeOK'
  BY DEF SettingsTypeOK, OpRec, BoundRec
<1>2. Imported' /\ StillListed' /\ Declining'
  BY DEF Imported, StillListed, Declining, ImportAt
<1>3. QED
  BY <1>1, <1>2 DEF CredentialsInv, AtWork

(* Whether a configuration differs from that of the file in the entries of *)
(* one library only.                                                       *)
OneEntry(c, lib) ==
  /\ c.imp = disk.imp /\ (c.written = disk.written \/ c.written = disk.written \ {lib})
  /\ \A l \in Libs \ {lib} : c.origin[l] = disk.origin[l] /\ c.meta[l] = disk.meta[l]
  /\ lib \in bound.fresh => c.origin[lib] = 0

(* A commit of such a configuration.                                       *)
LEMMA EntryKeeps ==
  ASSUME SettingsAssumption, CredentialsInv, NEW lib \in Libs, NEW c \in ConfigSet, disk' \in {disk, c}, chain' = chain,
         bound'.fresh = bound.fresh, OneEntry(c, lib), disk' = c => LibrarySound(lib)'
  PROVE  FileSound' /\ NotDrawn'
<1>1. (\A l \in Libs : LibrarySound(l)) /\ NotDrawn /\ bound.fresh \subseteq Libs
  BY WorkIs DEF BoundRec, Libs
<1>2. ASSUME NEW l \in Libs PROVE LibrarySound(l)'
  <2>1. CASE disk' = disk
    BY <1>1, <2>1, LibraryStays
  <2>2. CASE disk' = c /\ l # lib
    BY <1>1, <2>2, LibraryStays DEF OneEntry
  <2>3. CASE disk' = c /\ l = lib
    BY <2>3
  <2>4. QED
    BY <2>1, <2>2, <2>3
<1>3. NotDrawn'
  BY <1>1 DEF NotDrawn, OneEntry
<1>4. QED
  BY <1>2, <1>3 DEF FileSound

(* A write to the Keychain.                                                *)
LEMMA StoreKeeps ==
  ASSUME SettingsAssumption, CredentialsInv, NEW lib \in Libs, NEW pat, pat # 0 => disk.origin[lib] # 0,
         NEW next, NEW otherwise,
         Stored(lib, pat, next, otherwise), chain'[lib] = pat => LibrarySound(lib)'
  PROVE  FileSound' /\ NotDrawn'
<1>1. (\A l \in Libs : LibrarySound(l)) /\ NotDrawn /\ bound.fresh \subseteq Libs
  BY WorkIs DEF BoundRec, Libs
<1>2. /\ disk' = disk /\ bound'.fresh = bound.fresh
      /\ \/ chain'[lib] = pat /\ \A l \in Libs \ {lib} : chain'[l] = chain[l]
         \/ chain' = chain
  BY DEF Stored
<1>3. ASSUME NEW l \in Libs PROVE LibrarySound(l)'
  BY <1>1, <1>2, LibraryStays
<1>4. QED
  BY <1>1, <1>2, <1>3 DEF FileSound, NotDrawn

LEMMA CreateBeginsKeeps ==
  ASSUME SettingsAssumption, CredentialsInv, NEW lib \in Libs, NEW pat \in 0..1, CreateBegins(lib, pat)
  PROVE  CredentialsInv'
<1>1. /\ SettingsTypeOK /\ disk \in ConfigSet /\ chain \in [Libs -> 0..Moves] /\ up = TRUE /\ bound \in BoundRec
      /\ NotDrawn /\ \A l \in Libs : LibrarySound(l)
  BY WorkIs DEF CreateBegins, Opens, At
<1>2. pat \in 0..Moves /\ 0 \in 0..Moves /\ "create" \in Ats
  BY DEF SettingsAssumption, Ats
<1> PICK next : next = [Idle EXCEPT !.at = "create", !.lib = lib, !.new = pat]
  OBVIOUS
<1>3. next \in OpRec /\ next.at = "create" /\ next.lib = lib
  BY <1>2, IdleIs DEF OpRec
<1>4. /\ op' = next /\ copy' = disk /\ UNCHANGED <<disk, chain, up>>
      /\ lib \in bound.fresh /\ bound' = [bound EXCEPT !.fresh = @ \ {lib}]
  BY DEF CreateBegins, Opens
<1>5. bound' \in BoundRec /\ bound'.fresh = bound.fresh \ {lib} /\ lib \in Fresh /\ chain[lib] = 0
  BY <1>1, <1>4 DEF BoundRec, NotDrawn
<1>6. FileSound' /\ NotDrawn'
  BY <1>1, <1>4, <1>5, LibraryStays DEF FileSound, NotDrawn
<1>7. OfLibrary' /\ Swapped'
  BY <1>3, <1>4, <1>5 DEF OfLibrary, Swapped, ImportAt
<1>8. QED
  BY <1>1, <1>3, <1>4, <1>5, <1>6, <1>7, LibraryKeeps DEF ImportAt, Unsure

LEMMA CreatesKeeps ==
  ASSUME SettingsAssumption, CredentialsInv, Creates
  PROVE  CredentialsInv'
<1>1. op.at = "create"
  BY DEF Creates, At
<1>2. /\ SettingsTypeOK /\ disk \in ConfigSet /\ copy = disk /\ chain \in [Libs -> 0..Moves] /\ up = TRUE
      /\ op \in OpRec /\ NotDrawn /\ op.lib \in Libs /\ op.lib \in Fresh \ bound.fresh /\ chain[op.lib] = 0
  BY <1>1, WorkIs DEF ImportAt, Unsure, CredentialsInv, AtWork, OfLibrary
<1> PICK lib \in Libs : lib = op.lib
  BY <1>2
<1> PICK cfg, next :
      cfg = WithOrigin(lib, 1) /\ next = IF op.new = 1 THEN Then("createSet") ELSE Idle
  OBVIOUS
<1>3. /\ cfg \in ConfigSet /\ cfg.imp = disk.imp /\ cfg.written = disk.written /\ cfg.meta = disk.meta
      /\ cfg.origin[lib] = 1 /\ \A l \in Libs \ {lib} : cfg.origin[l] = disk.origin[l]
  BY <1>2, OriginIs DEF SettingsAssumption
<1>4. Commits(cfg, next, Idle) /\ chain' = chain
  BY DEF Creates, WithOrigin
<1> PICK c \in ConfigSet : Committed(c, cfg, next, Idle)
  BY <1>2, <1>3, <1>4, CommitIs
<1>5. /\ c.imp = cfg.imp /\ c.written = cfg.written /\ c.origin = cfg.origin /\ c.meta = cfg.meta
      /\ up' = up /\ bound' \in BoundRec /\ bound'.fresh = bound.fresh
      /\ \/ disk' = c /\ copy' = c /\ op' = next
         \/ disk' \in {disk, c} /\ copy' = copy /\ op' = Idle
  BY DEF Committed
<1>6. (disk' = c => LibrarySound(lib)') /\ OneEntry(c, lib)
  BY <1>2, <1>3, <1>4, <1>5 DEF LibrarySound, Has, SettingsAssumption, OneEntry, NotDrawn
<1>7. FileSound' /\ NotDrawn'
  BY <1>2, <1>4, <1>5, <1>6, EntryKeeps
<1>8. CASE op' = Idle
  BY <1>2, <1>4, <1>5, <1>7, <1>8, OverKeeps
<1>9. CASE op' # Idle
  <2>1. disk' = c /\ copy' = c /\ op' = Then("createSet")
    BY <1>5, <1>9
  <2>2. op' \in OpRec /\ op'.at = "createSet" /\ op'.lib = lib
    BY <1>2, <2>1, ThenIs DEF Ats
  <2>3. OfLibrary' /\ Swapped'
    BY <1>2, <1>3, <1>4, <1>5, <2>1, <2>2 DEF OfLibrary, Swapped, ImportAt
  <2>4. QED
    BY <1>2, <1>4, <1>5, <1>7, <2>1, <2>2, <2>3, LibraryKeeps DEF ImportAt, Unsure
<1>10. QED
  BY <1>8, <1>9

LEMMA CreateStoresKeeps ==
  ASSUME SettingsAssumption, CredentialsInv, CreateStores
  PROVE  CredentialsInv'
<1>1. op.at = "createSet"
  BY DEF CreateStores, At
<1>2. /\ SettingsTypeOK /\ disk \in ConfigSet /\ copy = disk /\ up = TRUE
      /\ op \in OpRec /\ op.lib \in Libs /\ op.lib \in Fresh \ bound.fresh /\ chain[op.lib] = 0
      /\ disk.origin[op.lib] = 1
  BY <1>1, WorkIs DEF ImportAt, Unsure, CredentialsInv, AtWork, OfLibrary
<1> PICK lib \in Libs : lib = op.lib
  BY <1>2
<1>3. Stores(lib, 1, Then("meta"), Then("rollback")) /\ 1 \in 0..Moves
  BY DEF CreateStores, SettingsAssumption
<1>4. Stored(lib, 1, Then("meta"), Then("rollback"))
  BY <1>2, <1>3, StoreIs
<1>5. /\ UNCHANGED <<disk, copy, up>> /\ bound' \in BoundRec /\ bound'.fresh = bound.fresh
      /\ chain' \in [Libs -> 0..Moves]
      /\ \/ chain'[lib] = 1 /\ op' = Then("meta")
         \/ chain' = chain /\ op' = Then("rollback")
  BY <1>4 DEF Stored
<1>6. /\ Then("meta") \in OpRec /\ Then("meta").at = "meta" /\ Then("meta").lib = lib
      /\ Then("rollback") \in OpRec /\ Then("rollback").at = "rollback" /\ Then("rollback").lib = lib
  BY <1>2, ThenIs DEF Ats
<1>7. chain'[lib] = 1 => LibrarySound(lib)'
  BY <1>2, <1>5 DEF LibrarySound, Has, SettingsAssumption
<1>8. FileSound' /\ NotDrawn'
  BY <1>2, <1>4, <1>7, StoreKeeps
<1>9. OfLibrary' /\ Swapped'
  BY <1>2, <1>5, <1>6 DEF OfLibrary, Swapped, ImportAt
<1>10. QED
  BY <1>2, <1>5, <1>6, <1>8, <1>9, LibraryKeeps DEF ImportAt, Unsure

LEMMA RollsBackKeeps ==
  ASSUME SettingsAssumption, CredentialsInv, RollsBack
  PROVE  CredentialsInv'
<1>1. op.at = "rollback"
  BY DEF RollsBack, At
<1>2. /\ SettingsTypeOK /\ disk \in ConfigSet /\ copy = disk /\ chain \in [Libs -> 0..Moves] /\ up = TRUE
      /\ op \in OpRec /\ NotDrawn /\ op.lib \in Libs /\ \A l \in Libs : LibrarySound(l)
      /\ op.lib \in Fresh \ bound.fresh /\ chain[op.lib] = 0
  BY <1>1, WorkIs DEF ImportAt, Unsure, CredentialsInv, AtWork, OfLibrary, Swapped
<1> PICK lib \in Libs : lib = op.lib
  BY <1>2
<1> PICK cfg : cfg = WithEntry(lib, 0, "none")
  OBVIOUS
<1>3. /\ cfg \in ConfigSet /\ cfg.imp = disk.imp /\ cfg.written = disk.written /\ cfg.origin[lib] = 0 /\ cfg.meta[lib] = "none"
      /\ \A l \in Libs \ {lib} : cfg.origin[l] = disk.origin[l] /\ cfg.meta[l] = disk.meta[l]
  BY <1>2, EntryIs DEF SettingsAssumption
<1>4. Commits(cfg, Idle, Idle) /\ chain' = chain
  BY DEF RollsBack, WithEntry
<1> PICK c \in ConfigSet : Committed(c, cfg, Idle, Idle)
  BY <1>2, <1>3, <1>4, CommitIs
<1>5. /\ c.imp = cfg.imp /\ c.written = cfg.written /\ c.origin = cfg.origin /\ c.meta = cfg.meta
      /\ up' = up /\ bound' \in BoundRec /\ bound'.fresh = bound.fresh
      /\ disk' \in {disk, c} /\ copy' \in {copy, c} /\ op' = Idle
  BY DEF Committed
<1>6. (disk' = c => LibrarySound(lib)') /\ OneEntry(c, lib)
  BY <1>2, <1>3, <1>4, <1>5 DEF LibrarySound, Has, OneEntry, NotDrawn
<1>7. FileSound' /\ NotDrawn'
  BY <1>2, <1>4, <1>5, <1>6, EntryKeeps
<1>8. QED
  BY <1>2, <1>4, <1>5, <1>7, OverKeeps

LEMMA RecordsMetaKeeps ==
  ASSUME SettingsAssumption, CredentialsInv, RecordsMeta
  PROVE  CredentialsInv'
<1>1. op.at = "meta"
  BY DEF RecordsMeta, At
<1>2. /\ SettingsTypeOK /\ disk \in ConfigSet /\ copy = disk /\ chain \in [Libs -> 0..Moves] /\ up = TRUE
      /\ op \in OpRec /\ NotDrawn /\ op.lib \in Libs /\ \A l \in Libs : LibrarySound(l)
  BY <1>1, WorkIs DEF ImportAt, Unsure, CredentialsInv, AtWork, OfLibrary, Swapped
<1> PICK lib \in Libs : lib = op.lib
  BY <1>2
<1> PICK cfg : cfg = WithMeta(lib, "live")
  OBVIOUS
<1>3. /\ cfg \in ConfigSet /\ cfg.imp = disk.imp /\ cfg.written = disk.written /\ cfg.origin = disk.origin
      /\ cfg.meta[lib] = "live" /\ \A l \in Libs \ {lib} : cfg.meta[l] = disk.meta[l]
  BY <1>2, MetaIs DEF SettingsAssumption
<1>4. Commits(cfg, Idle, Idle) /\ chain' = chain
  BY DEF RecordsMeta, WithMeta
<1> PICK c \in ConfigSet : Committed(c, cfg, Idle, Idle)
  BY <1>2, <1>3, <1>4, CommitIs
<1>5. /\ c.imp = cfg.imp /\ c.written = cfg.written /\ c.origin = cfg.origin /\ c.meta = cfg.meta
      /\ up' = up /\ bound' \in BoundRec /\ bound'.fresh = bound.fresh
      /\ disk' \in {disk, c} /\ copy' \in {copy, c} /\ op' = Idle
  BY DEF Committed
<1>6. (disk' = c => LibrarySound(lib)') /\ OneEntry(c, lib)
  BY <1>2, <1>3, <1>4, <1>5 DEF LibrarySound, Has, OneEntry, NotDrawn
<1>7. FileSound' /\ NotDrawn'
  BY <1>2, <1>4, <1>5, <1>6, EntryKeeps
<1>8. QED
  BY <1>2, <1>4, <1>5, <1>7, OverKeeps

LEMMA MarksPendingKeeps ==
  ASSUME SettingsAssumption, CredentialsInv, MarksPending
  PROVE  CredentialsInv'
<1>1. op.at = "pending"
  BY DEF MarksPending, At
<1>2. /\ SettingsTypeOK /\ disk \in ConfigSet /\ copy = disk /\ chain \in [Libs -> 0..Moves] /\ up = TRUE
      /\ op \in OpRec /\ NotDrawn /\ op.lib \in Libs /\ \A l \in Libs : LibrarySound(l)
  BY <1>1, WorkIs DEF ImportAt, Unsure, CredentialsInv, AtWork, OfLibrary, Swapped
<1> PICK lib \in Libs : lib = op.lib
  BY <1>2
<1> PICK cfg : cfg = WithMeta(lib, "pending")
  OBVIOUS
<1>3. /\ cfg \in ConfigSet /\ cfg.imp = disk.imp /\ cfg.written = disk.written /\ cfg.origin = disk.origin
      /\ cfg.meta[lib] = "pending" /\ \A l \in Libs \ {lib} : cfg.meta[l] = disk.meta[l]
  BY <1>2, MetaIs DEF SettingsAssumption
<1>4. Commits(cfg, Idle, Idle) /\ chain' = chain
  BY DEF MarksPending, WithMeta
<1> PICK c \in ConfigSet : Committed(c, cfg, Idle, Idle)
  BY <1>2, <1>3, <1>4, CommitIs
<1>5. /\ c.imp = cfg.imp /\ c.written = cfg.written /\ c.origin = cfg.origin /\ c.meta = cfg.meta
      /\ up' = up /\ bound' \in BoundRec /\ bound'.fresh = bound.fresh
      /\ disk' \in {disk, c} /\ copy' \in {copy, c} /\ op' = Idle
  BY DEF Committed
<1>6. (disk' = c => LibrarySound(lib)') /\ OneEntry(c, lib)
  BY <1>2, <1>3, <1>4, <1>5 DEF LibrarySound, Has, OneEntry, NotDrawn
<1>7. FileSound' /\ NotDrawn'
  BY <1>2, <1>4, <1>5, <1>6, EntryKeeps
<1>8. QED
  BY <1>2, <1>4, <1>5, <1>7, OverKeeps

LEMMA UnlistsKeeps ==
  ASSUME SettingsAssumption, CredentialsInv, Unlists
  PROVE  CredentialsInv'
<1>1. op.at = "unlist"
  BY DEF Unlists, At
<1>2. /\ SettingsTypeOK /\ disk \in ConfigSet /\ copy = disk /\ chain \in [Libs -> 0..Moves] /\ up = TRUE
      /\ op \in OpRec /\ NotDrawn /\ op.lib \in Libs /\ \A l \in Libs : LibrarySound(l)
  BY <1>1, WorkIs DEF ImportAt, Unsure, CredentialsInv, AtWork, OfLibrary, Swapped
<1> PICK lib \in Libs : lib = op.lib
  BY <1>2
<1> PICK cfg, next, otherwise : cfg = WithEntry(lib, 0, "pending") /\ next = Then("unindex") /\ otherwise = Idle
  OBVIOUS
<1>3. /\ cfg \in ConfigSet /\ cfg.imp = disk.imp /\ cfg.written = disk.written /\ cfg.origin[lib] = 0 /\ cfg.meta[lib] = "pending"
      /\ \A l \in Libs \ {lib} : cfg.origin[l] = disk.origin[l] /\ cfg.meta[l] = disk.meta[l]
  BY <1>2, EntryIs DEF SettingsAssumption, OpRec
<1>4. Commits(cfg, next, otherwise) /\ chain' = chain
  BY DEF Unlists, WithEntry
<1> PICK c \in ConfigSet : Committed(c, cfg, next, otherwise)
  BY <1>2, <1>3, <1>4, CommitIs
<1>5. /\ c.imp = cfg.imp /\ c.written = cfg.written /\ c.origin = cfg.origin /\ c.meta = cfg.meta
      /\ up' = up /\ bound' \in BoundRec /\ bound'.fresh = bound.fresh
      /\ \/ disk' = c /\ copy' = c /\ op' = next
         \/ disk' \in {disk, c} /\ copy' = copy /\ op' = otherwise
  BY DEF Committed
<1>6. (disk' = c => LibrarySound(lib)') /\ OneEntry(c, lib)
  BY <1>2, <1>3, <1>4, <1>5 DEF LibrarySound, Has, OneEntry, NotDrawn
<1>7. FileSound' /\ NotDrawn'
  BY <1>2, <1>4, <1>5, <1>6, EntryKeeps
<1>8. CASE op' = Idle
  BY <1>2, <1>4, <1>5, <1>7, <1>8, OverKeeps
<1>9. CASE op' # Idle
  <2>1. disk' = c /\ copy' = c /\ op' = Then("unindex")
    BY <1>5, <1>9
  <2>2. /\ op' \in OpRec /\ op'.at = "unindex" /\ op'.lib = lib
        /\ op'.new = op.new /\ op'.old = op.old /\ op'.keep = op.keep
    BY <1>2, <2>1, ThenIs DEF Ats
  <2>3. OfLibrary' /\ Swapped'
    BY <1>2, <1>3, <1>4, <1>5, <2>1, <2>2 DEF OfLibrary, Swapped, ImportAt
  <2>4. QED
    BY <1>2, <1>4, <1>5, <1>7, <2>1, <2>2, <2>3, LibraryKeeps DEF ImportAt, Unsure
<1>10. QED
  BY <1>8, <1>9

LEMMA UnindexesKeeps ==
  ASSUME SettingsAssumption, CredentialsInv, Unindexes
  PROVE  CredentialsInv'
<1>1. op.at = "unindex"
  BY DEF Unindexes, At
<1>2. /\ SettingsTypeOK /\ disk \in ConfigSet /\ copy = disk /\ chain \in [Libs -> 0..Moves] /\ up = TRUE
      /\ op \in OpRec /\ NotDrawn /\ op.lib \in Libs /\ \A l \in Libs : LibrarySound(l)
  BY <1>1, WorkIs DEF ImportAt, Unsure, CredentialsInv, AtWork, OfLibrary, Swapped
<1> PICK lib \in Libs : lib = op.lib
  BY <1>2
<1> PICK cfg, next, otherwise : cfg = WithMeta(lib, "pending") /\ next = Then("erase") /\ otherwise = Idle
  OBVIOUS
<1>3. /\ cfg \in ConfigSet /\ cfg.imp = disk.imp /\ cfg.written = disk.written /\ cfg.origin = disk.origin
      /\ cfg.meta[lib] = "pending" /\ \A l \in Libs \ {lib} : cfg.meta[l] = disk.meta[l]
  BY <1>2, MetaIs DEF SettingsAssumption, OpRec
<1>4. Commits(cfg, next, otherwise) /\ chain' = chain
  BY DEF Unindexes, WithMeta
<1> PICK c \in ConfigSet : Committed(c, cfg, next, otherwise)
  BY <1>2, <1>3, <1>4, CommitIs
<1>5. /\ c.imp = cfg.imp /\ c.written = cfg.written /\ c.origin = cfg.origin /\ c.meta = cfg.meta
      /\ up' = up /\ bound' \in BoundRec /\ bound'.fresh = bound.fresh
      /\ \/ disk' = c /\ copy' = c /\ op' = next
         \/ disk' \in {disk, c} /\ copy' = copy /\ op' = otherwise
  BY DEF Committed
<1>6. (disk' = c => LibrarySound(lib)') /\ OneEntry(c, lib)
  BY <1>2, <1>3, <1>4, <1>5 DEF LibrarySound, Has, OneEntry, NotDrawn
<1>7. FileSound' /\ NotDrawn'
  BY <1>2, <1>4, <1>5, <1>6, EntryKeeps
<1>8. CASE op' = Idle
  BY <1>2, <1>4, <1>5, <1>7, <1>8, OverKeeps
<1>9. CASE op' # Idle
  <2>1. disk' = c /\ copy' = c /\ op' = Then("erase")
    BY <1>5, <1>9
  <2>2. /\ op' \in OpRec /\ op'.at = "erase" /\ op'.lib = lib
        /\ op'.new = op.new /\ op'.old = op.old /\ op'.keep = op.keep
    BY <1>2, <2>1, ThenIs DEF Ats
  <2>3. OfLibrary' /\ Swapped'
    BY <1>2, <1>3, <1>4, <1>5, <2>1, <2>2 DEF OfLibrary, Swapped, ImportAt
  <2>4. QED
    BY <1>2, <1>4, <1>5, <1>7, <2>1, <2>2, <2>3, LibraryKeeps DEF ImportAt, Unsure
<1>10. QED
  BY <1>8, <1>9

LEMMA SwapCommitsKeeps ==
  ASSUME SettingsAssumption, CredentialsInv, SwapCommits
  PROVE  CredentialsInv'
<1>1. op.at = "swapCommit"
  BY DEF SwapCommits, At
<1>2. /\ SettingsTypeOK /\ disk \in ConfigSet /\ copy = disk /\ chain \in [Libs -> 0..Moves] /\ up = TRUE
      /\ op \in OpRec /\ NotDrawn /\ op.lib \in Libs /\ \A l \in Libs : LibrarySound(l)
      /\ op.new \in 0..Moves /\ op.new # 0 /\ disk.origin[op.lib] # 0 /\ chain[op.lib] = op.new
      /\ (op.old # 0 /\ disk.origin[op.lib] # op.new => op.old >= disk.origin[op.lib])
  BY <1>1, WorkIs DEF ImportAt, Unsure, CredentialsInv, AtWork, OfLibrary, Swapped
<1> PICK lib \in Libs : lib = op.lib
  BY <1>2
<1> PICK cfg, next, otherwise : cfg = WithEntry(lib, op.new, "live") /\ next = Idle /\ otherwise = Then("check")
  OBVIOUS
<1>3. /\ cfg \in ConfigSet /\ cfg.imp = disk.imp /\ cfg.written = disk.written /\ cfg.origin[lib] = op.new /\ cfg.meta[lib] = "live"
      /\ \A l \in Libs \ {lib} : cfg.origin[l] = disk.origin[l] /\ cfg.meta[l] = disk.meta[l]
  BY <1>2, EntryIs DEF SettingsAssumption, OpRec
<1>4. Commits(cfg, next, otherwise) /\ chain' = chain
  BY DEF SwapCommits, WithEntry
<1> PICK c \in ConfigSet : Committed(c, cfg, next, otherwise)
  BY <1>2, <1>3, <1>4, CommitIs
<1>5. /\ c.imp = cfg.imp /\ c.written = cfg.written /\ c.origin = cfg.origin /\ c.meta = cfg.meta
      /\ up' = up /\ bound' \in BoundRec /\ bound'.fresh = bound.fresh
      /\ \/ disk' = c /\ copy' = c /\ op' = next
         \/ disk' \in {disk, c} /\ copy' = copy /\ op' = otherwise
  BY DEF Committed
<1>6. (disk' = c => LibrarySound(lib)') /\ OneEntry(c, lib)
  BY <1>2, <1>3, <1>4, <1>5 DEF LibrarySound, Has, OneEntry, NotDrawn
<1>7. FileSound' /\ NotDrawn'
  BY <1>2, <1>4, <1>5, <1>6, EntryKeeps
<1>8. CASE op' = Idle
  BY <1>2, <1>4, <1>5, <1>7, <1>8, OverKeeps
<1>9. CASE op' # Idle
  <2>1. disk' \in {disk, c} /\ copy' = copy /\ op' = Then("check")
    BY <1>5, <1>9
  <2>2. /\ op' \in OpRec /\ op'.at = "check" /\ op'.lib = lib
        /\ op'.new = op.new /\ op'.old = op.old /\ op'.keep = op.keep
    BY <1>2, <2>1, ThenIs DEF Ats
  <2>3. OfLibrary' /\ Swapped'
    BY <1>2, <1>3, <1>4, <1>5, <2>1, <2>2 DEF OfLibrary, Swapped, ImportAt
  <2>4. QED
    BY <1>2, <1>4, <1>5, <1>7, <2>1, <2>2, <2>3, LibraryKeeps DEF ImportAt, Unsure
<1>10. QED
  BY <1>8, <1>9

LEMMA PutsKeeps ==
  ASSUME SettingsAssumption, CredentialsInv, Puts
  PROVE  CredentialsInv'
<1>1. op.at = "put"
  BY DEF Puts, At
<1>2. /\ SettingsTypeOK /\ disk \in ConfigSet /\ copy \in ConfigSet /\ up = TRUE /\ chain \in [Libs -> 0..Moves]
      /\ op \in OpRec /\ op.lib \in Libs /\ NotDrawn /\ op.new \in 0..Moves /\ op.old \in 0..Moves /\ copy = disk
      /\ \A l \in Libs : LibrarySound(l)
      /\ op.new = disk.origin[op.lib] /\ op.new # 0
  BY <1>1, WorkIs DEF ImportAt, Unsure, CredentialsInv, AtWork, OfLibrary, Swapped, OpRec
<1> PICK lib \in Libs, pat \in 0..Moves : lib = op.lib /\ pat = op.new
  BY <1>2 DEF SettingsAssumption
<1> PICK next, otherwise : next = Then("meta") /\ otherwise = Idle
  OBVIOUS
<1>3. Stored(lib, pat, next, otherwise)
  BY <1>2, StoreIs DEF Puts
<1>4. /\ UNCHANGED <<disk, copy, up>> /\ bound' \in BoundRec /\ bound'.fresh = bound.fresh
      /\ chain' \in [Libs -> 0..Moves]
      /\ (chain'[lib] = pat /\ op' = next) \/ (chain' = chain /\ op' = otherwise)
  BY <1>3 DEF Stored
<1>5. chain'[lib] = pat => LibrarySound(lib)'
  BY <1>2, <1>4 DEF LibrarySound, Has
<1>6. FileSound' /\ NotDrawn'
  BY <1>2, <1>3, <1>5, StoreKeeps
<1>7. CASE op' = Idle
  BY <1>2, <1>4, <1>6, <1>7, OverKeeps
<1>8. CASE op' # Idle
  <2>1. chain'[lib] = pat /\ op' = Then("meta")
    BY <1>4, <1>8
  <2>2. /\ op' \in OpRec /\ op'.at = "meta" /\ op'.lib = lib
        /\ op'.new = op.new /\ op'.old = op.old /\ op'.keep = op.keep
    BY <1>2, <2>1, ThenIs DEF Ats
  <2>3. OfLibrary' /\ Swapped'
    BY <1>2, <1>4, <2>1, <2>2 DEF OfLibrary, Swapped, ImportAt
  <2>4. QED
    BY <1>2, <1>4, <1>6, <2>1, <2>2, <2>3, LibraryKeeps DEF ImportAt, Unsure
<1>9. QED
  BY <1>7, <1>8

LEMMA SwapStoresKeeps ==
  ASSUME SettingsAssumption, CredentialsInv, SwapStores
  PROVE  CredentialsInv'
<1>1. op.at = "swap"
  BY DEF SwapStores, At
<1>2. /\ SettingsTypeOK /\ disk \in ConfigSet /\ copy \in ConfigSet /\ up = TRUE /\ chain \in [Libs -> 0..Moves]
      /\ op \in OpRec /\ op.lib \in Libs /\ NotDrawn /\ op.new \in 0..Moves /\ op.old \in 0..Moves /\ copy = disk
      /\ \A l \in Libs : LibrarySound(l)
      /\ op.new # 0 /\ disk.origin[op.lib] # 0 /\ op.new >= disk.origin[op.lib]
      /\ (op.old # 0 /\ disk.origin[op.lib] # op.new => op.old >= disk.origin[op.lib])
  BY <1>1, WorkIs DEF ImportAt, Unsure, CredentialsInv, AtWork, OfLibrary, Swapped, OpRec
<1> PICK lib \in Libs, pat \in 0..Moves : lib = op.lib /\ pat = op.new
  BY <1>2 DEF SettingsAssumption
<1> PICK next, otherwise : next = Then("swapCommit") /\ otherwise = Idle
  OBVIOUS
<1>3. Stored(lib, pat, next, otherwise)
  BY <1>2, StoreIs DEF SwapStores
<1>4. /\ UNCHANGED <<disk, copy, up>> /\ bound' \in BoundRec /\ bound'.fresh = bound.fresh
      /\ chain' \in [Libs -> 0..Moves]
      /\ (chain'[lib] = pat /\ op' = next) \/ (chain' = chain /\ op' = otherwise)
  BY <1>3 DEF Stored
<1>5. chain'[lib] = pat => LibrarySound(lib)'
  BY <1>2, <1>4 DEF LibrarySound, Has
<1>6. FileSound' /\ NotDrawn'
  BY <1>2, <1>3, <1>5, StoreKeeps
<1>7. CASE op' = Idle
  BY <1>2, <1>4, <1>6, <1>7, OverKeeps
<1>8. CASE op' # Idle
  <2>1. chain'[lib] = pat /\ op' = Then("swapCommit")
    BY <1>4, <1>8
  <2>2. /\ op' \in OpRec /\ op'.at = "swapCommit" /\ op'.lib = lib
        /\ op'.new = op.new /\ op'.old = op.old /\ op'.keep = op.keep
    BY <1>2, <2>1, ThenIs DEF Ats
  <2>3. OfLibrary' /\ Swapped'
    BY <1>2, <1>4, <2>1, <2>2 DEF OfLibrary, Swapped, ImportAt
  <2>4. QED
    BY <1>2, <1>4, <1>6, <2>1, <2>2, <2>3, LibraryKeeps DEF ImportAt, Unsure
<1>9. QED
  BY <1>7, <1>8

LEMMA RestoresKeeps ==
  ASSUME SettingsAssumption, CredentialsInv, Restores
  PROVE  CredentialsInv'
<1>1. op.at = "restore"
  BY DEF Restores, At
<1>2. /\ SettingsTypeOK /\ disk \in ConfigSet /\ copy \in ConfigSet /\ up = TRUE /\ chain \in [Libs -> 0..Moves]
      /\ op \in OpRec /\ op.lib \in Libs /\ NotDrawn /\ op.new \in 0..Moves /\ op.old \in 0..Moves /\ copy = disk
      /\ \A l \in Libs : LibrarySound(l)
      /\ op.new # 0 /\ disk.origin[op.lib] # 0 /\ disk.origin[op.lib] # op.new
      /\ (op.old # 0 /\ disk.origin[op.lib] # op.new => op.old >= disk.origin[op.lib])
  BY <1>1, WorkIs DEF ImportAt, Unsure, CredentialsInv, AtWork, OfLibrary, Swapped, OpRec
<1> PICK lib \in Libs, pat \in 0..Moves : lib = op.lib /\ pat = op.old
  BY <1>2 DEF SettingsAssumption
<1> PICK next, otherwise : next = Idle /\ otherwise = Then("drop")
  OBVIOUS
<1>3. Stored(lib, pat, next, otherwise)
  BY <1>2, StoreIs DEF Restores
<1>4. /\ UNCHANGED <<disk, copy, up>> /\ bound' \in BoundRec /\ bound'.fresh = bound.fresh
      /\ chain' \in [Libs -> 0..Moves]
      /\ (chain'[lib] = pat /\ op' = next) \/ (chain' = chain /\ op' = otherwise)
  BY <1>3 DEF Stored
<1>5. chain'[lib] = pat => LibrarySound(lib)'
  BY <1>2, <1>4 DEF LibrarySound, Has
<1>6. FileSound' /\ NotDrawn'
  BY <1>2, <1>3, <1>5, StoreKeeps
<1>7. CASE op' = Idle
  BY <1>2, <1>4, <1>6, <1>7, OverKeeps
<1>8. CASE op' # Idle
  <2>1. chain' = chain /\ op' = Then("drop")
    BY <1>4, <1>8
  <2>2. /\ op' \in OpRec /\ op'.at = "drop" /\ op'.lib = lib
        /\ op'.new = op.new /\ op'.old = op.old /\ op'.keep = op.keep
    BY <1>2, <2>1, ThenIs DEF Ats
  <2>3. OfLibrary' /\ Swapped'
    BY <1>2, <1>4, <2>1, <2>2 DEF OfLibrary, Swapped, ImportAt
  <2>4. QED
    BY <1>2, <1>4, <1>6, <2>1, <2>2, <2>3, LibraryKeeps DEF ImportAt, Unsure
<1>9. QED
  BY <1>7, <1>8

LEMMA DropsKeeps ==
  ASSUME SettingsAssumption, CredentialsInv, Drops
  PROVE  CredentialsInv'
<1>1. op.at = "drop"
  BY DEF Drops, At
<1>2. /\ SettingsTypeOK /\ disk \in ConfigSet /\ copy \in ConfigSet /\ up = TRUE /\ chain \in [Libs -> 0..Moves]
      /\ op \in OpRec /\ op.lib \in Libs /\ NotDrawn /\ op.new \in 0..Moves /\ op.old \in 0..Moves
      /\ \A l \in Libs : LibrarySound(l)
     
  BY <1>1, WorkIs DEF ImportAt, Unsure, CredentialsInv, AtWork, OfLibrary, Swapped, OpRec
<1> PICK lib \in Libs, pat \in 0..Moves : lib = op.lib /\ pat = 0
  BY <1>2 DEF SettingsAssumption
<1> PICK next, otherwise : next = Then("mark") /\ otherwise = Then("mark")
  OBVIOUS
<1>3. Stored(lib, pat, next, otherwise)
  BY <1>2, StoreIs DEF Drops
<1>4. /\ UNCHANGED <<disk, copy, up>> /\ bound' \in BoundRec /\ bound'.fresh = bound.fresh
      /\ chain' \in [Libs -> 0..Moves]
      /\ (chain'[lib] = pat /\ op' = next) \/ (chain' = chain /\ op' = otherwise)
  BY <1>3 DEF Stored
<1>5. chain'[lib] = pat => LibrarySound(lib)'
  BY <1>2, <1>4 DEF LibrarySound, Has
<1>6. FileSound' /\ NotDrawn'
  BY <1>2, <1>3, <1>5, StoreKeeps
<1>7. /\ Then("mark") \in OpRec /\ Then("mark").at = "mark" /\ Then("mark").lib = lib
      /\ Then("mark").new = op.new /\ Then("mark").old = op.old /\ Then("mark").keep = op.keep
  BY <1>2, ThenIs DEF Ats
<1>8. OfLibrary' /\ Swapped'
  BY <1>2, <1>4, <1>7 DEF OfLibrary, Swapped, ImportAt
<1>9. QED
  BY <1>2, <1>4, <1>6, <1>7, <1>8, LibraryKeeps DEF ImportAt, Unsure

LEMMA ErasesKeeps ==
  ASSUME SettingsAssumption, CredentialsInv, Erases
  PROVE  CredentialsInv'
<1>1. op.at = "erase"
  BY DEF Erases, At
<1>2. /\ SettingsTypeOK /\ disk \in ConfigSet /\ copy \in ConfigSet /\ up = TRUE /\ chain \in [Libs -> 0..Moves]
      /\ op \in OpRec /\ op.lib \in Libs /\ NotDrawn /\ op.new \in 0..Moves /\ op.old \in 0..Moves /\ copy = disk
      /\ \A l \in Libs : LibrarySound(l)
     
  BY <1>1, WorkIs DEF ImportAt, Unsure, CredentialsInv, AtWork, OfLibrary, Swapped, OpRec
<1> PICK lib \in Libs, pat \in 0..Moves : lib = op.lib /\ pat = 0
  BY <1>2 DEF SettingsAssumption
<1> PICK next, otherwise : next = Then("removed") /\ otherwise = Idle
  OBVIOUS
<1>3. Stored(lib, pat, next, otherwise)
  BY <1>2, StoreIs DEF Erases
<1>4. /\ UNCHANGED <<disk, copy, up>> /\ bound' \in BoundRec /\ bound'.fresh = bound.fresh
      /\ chain' \in [Libs -> 0..Moves]
      /\ (chain'[lib] = pat /\ op' = next) \/ (chain' = chain /\ op' = otherwise)
  BY <1>3 DEF Stored
<1>5. chain'[lib] = pat => LibrarySound(lib)'
  BY <1>2, <1>4 DEF LibrarySound, Has
<1>6. FileSound' /\ NotDrawn'
  BY <1>2, <1>3, <1>5, StoreKeeps
<1>7. CASE op' = Idle
  BY <1>2, <1>4, <1>6, <1>7, OverKeeps
<1>8. CASE op' # Idle
  <2>1. chain'[lib] = pat /\ op' = Then("removed")
    BY <1>4, <1>8
  <2>2. /\ op' \in OpRec /\ op'.at = "removed" /\ op'.lib = lib
        /\ op'.new = op.new /\ op'.old = op.old /\ op'.keep = op.keep
    BY <1>2, <2>1, ThenIs DEF Ats
  <2>3. OfLibrary' /\ Swapped'
    BY <1>2, <1>4, <2>1, <2>2 DEF OfLibrary, Swapped, ImportAt
  <2>4. QED
    BY <1>2, <1>4, <1>6, <2>1, <2>2, <2>3, LibraryKeeps DEF ImportAt, Unsure
<1>9. QED
  BY <1>7, <1>8

LEMMA RemovedKeeps ==
  ASSUME SettingsAssumption, CredentialsInv, Removed
  PROVE  CredentialsInv'
<1>1. op.at = "removed"
  BY DEF Removed, At
<1>2. /\ SettingsTypeOK /\ disk \in ConfigSet /\ copy = disk /\ chain \in [Libs -> 0..Moves] /\ up = TRUE
      /\ op \in OpRec /\ NotDrawn /\ op.lib \in Libs /\ \A l \in Libs : LibrarySound(l)
      /\ chain[op.lib] = 0
  BY <1>1, WorkIs DEF ImportAt, Unsure, CredentialsInv, AtWork, OfLibrary, Swapped
<1> PICK lib \in Libs : lib = op.lib
  BY <1>2
<1> PICK shown : shown = WithMeta(lib, "none")
  OBVIOUS
<1>3. /\ shown \in ConfigSet /\ shown.imp = disk.imp /\ shown.written = disk.written /\ shown.origin = disk.origin
      /\ shown.meta[lib] = "none" /\ \A l \in Libs \ {lib} : shown.meta[l] = disk.meta[l]
  BY <1>2, MetaIs
<1> PICK cfg : cfg = [shown EXCEPT !.written = disk.written \ {lib}]
  OBVIOUS
<1>4. /\ cfg \in ConfigSet /\ cfg.imp = disk.imp /\ cfg.written = disk.written \ {lib} /\ cfg.origin = disk.origin
      /\ cfg.meta[lib] = "none" /\ \A l \in Libs \ {lib} : cfg.meta[l] = disk.meta[l]
  BY <1>3 DEF ConfigSet
<1>5. Commits(cfg, Idle, Idle) /\ chain' = chain
  <2>1. cfg = [copy EXCEPT !.meta[op.lib] = "none", !.written = @ \ {op.lib}]
    BY <1>2 DEF WithMeta, ConfigSet
  <2>2. QED
    BY <2>1 DEF Removed
<1> PICK c \in ConfigSet : Committed(c, cfg, Idle, Idle)
  BY <1>2, <1>4, <1>5, CommitIs
<1>6. /\ c.imp = cfg.imp /\ c.written = cfg.written /\ c.origin = cfg.origin /\ c.meta = cfg.meta
      /\ up' = up /\ bound' \in BoundRec /\ bound'.fresh = bound.fresh
      /\ disk' \in {disk, c} /\ copy' \in {copy, c} /\ op' = Idle
  BY DEF Committed
<1>7. (disk' = c => LibrarySound(lib)') /\ OneEntry(c, lib)
  BY <1>2, <1>4, <1>5, <1>6 DEF LibrarySound, Has, OneEntry, NotDrawn
<1>8. FileSound' /\ NotDrawn'
  BY <1>2, <1>5, <1>6, <1>7, EntryKeeps
<1>9. QED
  BY <1>2, <1>5, <1>6, <1>8, OverKeeps

LEMMA MovedKeeps ==
  ASSUME SettingsAssumption, CredentialsInv, Moved
  PROVE  CredentialsInv'
<1>1. op.at = "move"
  BY DEF Moved, At
<1>2. /\ SettingsTypeOK /\ disk \in ConfigSet /\ copy = disk /\ chain \in [Libs -> 0..Moves] /\ up = TRUE
      /\ op \in OpRec /\ NotDrawn /\ op.lib \in Libs /\ \A l \in Libs : LibrarySound(l)
      /\ op.new \in 0..Moves /\ op.new # 0 /\ disk.origin[op.lib] # 0 /\ op.new >= disk.origin[op.lib]
      /\ op.keep \/ op.new = disk.origin[op.lib] \/ chain[op.lib] = 0
  BY <1>1, WorkIs DEF ImportAt, Unsure, CredentialsInv, AtWork, OfLibrary, Swapped, OpRec
<1> PICK lib \in Libs : lib = op.lib
  BY <1>2
<1> PICK cfg : cfg = WithOrigin(lib, op.new)
  OBVIOUS
<1>3. /\ cfg \in ConfigSet /\ cfg.imp = disk.imp /\ cfg.written = disk.written /\ cfg.meta = disk.meta
      /\ cfg.origin[lib] = op.new /\ \A l \in Libs \ {lib} : cfg.origin[l] = disk.origin[l]
  BY <1>2, OriginIs
<1>4. /\ Commits(cfg, Idle, Idle)
      /\ chain' = IF op.keep /\ chain[lib] # 0 /\ disk'.origin[lib] = op.new THEN Keychain(lib, op.new) ELSE chain
  BY DEF Moved, WithOrigin
<1> PICK c \in ConfigSet : Committed(c, cfg, Idle, Idle)
  BY <1>2, <1>3, <1>4, CommitIs
<1>5. /\ c.imp = cfg.imp /\ c.written = cfg.written /\ c.origin = cfg.origin /\ c.meta = cfg.meta
      /\ up' = up /\ bound' \in BoundRec /\ bound'.fresh = bound.fresh
      /\ disk' \in {disk, c} /\ copy' \in {copy, c} /\ op' = Idle
  BY DEF Committed
<1>6. /\ chain' \in [Libs -> 0..Moves] /\ \A l \in Libs \ {lib} : chain'[l] = chain[l]
      /\ chain'[lib] = IF op.keep /\ chain[lib] # 0 /\ disk'.origin[lib] = op.new THEN op.new ELSE chain[lib]
  BY <1>2, <1>4 DEF Keychain
<1>7. LibrarySound(lib)'
  BY <1>2, <1>3, <1>5, <1>6 DEF LibrarySound, Has
<1>8. FileSound'
  BY <1>2, <1>3, <1>5, <1>6, <1>7, LibraryStays DEF FileSound
<1>9. NotDrawn'
  BY <1>2, <1>3, <1>5, <1>6 DEF NotDrawn, BoundRec, SettingsTypeOK, Libs
<1>10. QED
  BY <1>2, <1>5, <1>6, <1>8, <1>9, OverKeeps

(* What a step that changes neither the file nor the Keychain leaves.      *)
LEMMA StoresStay ==
  ASSUME SettingsAssumption, CredentialsInv, UNCHANGED <<disk, chain>>, bound'.fresh = bound.fresh
  PROVE  FileSound' /\ NotDrawn' /\ disk' \in ConfigSet /\ chain' \in [Libs -> 0..Moves]
<1>1. /\ disk \in ConfigSet /\ chain \in [Libs -> 0..Moves] /\ NotDrawn /\ \A l \in Libs : LibrarySound(l)
  BY WorkIs
<1>2. \A l \in Libs : LibrarySound(l)'
  BY <1>1, LibraryStays
<1>3. QED
  BY <1>1, <1>2 DEF FileSound, NotDrawn

LEMMA SwapChecksKeeps ==
  ASSUME SettingsAssumption, CredentialsInv, SwapChecks
  PROVE  CredentialsInv'
<1>1. op.at = "check"
  BY DEF SwapChecks, At
<1>2. /\ disk \in ConfigSet /\ copy \in ConfigSet /\ up = TRUE /\ op \in OpRec /\ bound \in BoundRec
      /\ op.lib \in Libs /\ op.new # 0 /\ disk.origin[op.lib] # 0 /\ chain[op.lib] = op.new
      /\ (op.old # 0 /\ disk.origin[op.lib] # op.new => op.old >= disk.origin[op.lib])
  BY <1>1, WorkIs DEF ImportAt, Unsure, CredentialsInv, AtWork, OfLibrary, Swapped
<1>3. /\ UNCHANGED <<disk, chain, up>>
      /\ \/ copy' = disk /\ op' = Idle /\ UNCHANGED bound
         \/ copy' = disk /\ op' = Then("restore") /\ disk.origin[op.lib] # op.new /\ UNCHANGED bound
         \/ Faulted /\ op' = Then("drop") /\ UNCHANGED copy
  BY DEF SwapChecks
<1>4. bound' \in BoundRec /\ bound'.fresh = bound.fresh /\ copy' \in ConfigSet /\ up' = TRUE
  BY <1>2, <1>3, FaultedIs
<1>5. FileSound' /\ NotDrawn' /\ disk' \in ConfigSet /\ chain' \in [Libs -> 0..Moves]
  BY <1>3, <1>4, StoresStay
<1>6. CASE op' = Idle
  BY <1>4, <1>5, <1>6, OverKeeps
<1>7. ASSUME NEW place \in {"restore", "drop"}, op' = Then(place),
             place = "restore" => copy' = disk /\ disk.origin[op.lib] # op.new
      PROVE  CredentialsInv'
  <2>1. /\ op' \in OpRec /\ op'.at = place /\ op'.lib = op.lib
        /\ op'.new = op.new /\ op'.old = op.old /\ op'.keep = op.keep
    BY <1>2, <1>7, ThenIs DEF Ats
  <2>2. OfLibrary' /\ Swapped'
    BY <1>2, <1>3, <1>7, <2>1 DEF OfLibrary, Swapped, ImportAt
  <2>3. QED
    BY <1>3, <1>4, <1>5, <1>7, <2>1, <2>2, LibraryKeeps DEF ImportAt, Unsure
<1>8. QED
  BY <1>3, <1>6, <1>7

LEMMA MarksKeeps ==
  ASSUME SettingsAssumption, CredentialsInv, Marks
  PROVE  CredentialsInv'
<1>1. op.at = "mark"
  BY DEF Marks, At
<1>2. /\ disk \in ConfigSet /\ copy \in ConfigSet /\ up = TRUE /\ op \in OpRec /\ bound \in BoundRec
      /\ op.lib \in Libs
  BY <1>1, WorkIs DEF ImportAt, Unsure
<1>3. /\ UNCHANGED <<disk, chain, up>>
      /\ \/ copy' = disk /\ op' = Then("pending") /\ UNCHANGED bound
         \/ Faulted /\ op' = Idle /\ UNCHANGED copy
  BY DEF Marks
<1>4. bound' \in BoundRec /\ bound'.fresh = bound.fresh /\ copy' \in ConfigSet /\ up' = TRUE
  BY <1>2, <1>3, FaultedIs
<1>5. FileSound' /\ NotDrawn' /\ disk' \in ConfigSet /\ chain' \in [Libs -> 0..Moves]
  BY <1>3, <1>4, StoresStay
<1>6. CASE op' = Idle
  BY <1>4, <1>5, <1>6, OverKeeps
<1>7. CASE copy' = disk /\ op' = Then("pending")
  <2>1. op' \in OpRec /\ op'.at = "pending" /\ op'.lib = op.lib
    BY <1>2, <1>7, ThenIs DEF Ats
  <2>2. OfLibrary' /\ Swapped'
    BY <1>2, <2>1 DEF OfLibrary, Swapped, ImportAt
  <2>3. QED
    BY <1>3, <1>4, <1>5, <1>7, <2>1, <2>2, LibraryKeeps DEF ImportAt, Unsure
<1>8. QED
  BY <1>3, <1>6, <1>7

(* The beginning of an operation on one library.                           *)
LEMMA OpensKeeps ==
  ASSUME SettingsAssumption, CredentialsInv, NEW next \in OpRec, Opens(next), UNCHANGED bound,
         next.at \in {"put", "move", "swap", "unlist", "unindex"}, next.lib \in Libs,
         next.at \in {"put", "move", "swap"} => disk.origin[next.lib] # 0 /\ next.new # 0,
         next.at = "put" => next.new = disk.origin[next.lib],
         next.at \in {"move", "swap"} => next.new >= disk.origin[next.lib],
         next.at = "move" => next.keep \/ next.new = disk.origin[next.lib] \/ chain[next.lib] = 0,
         next.at = "swap" => next.old = chain[next.lib]
  PROVE  CredentialsInv'
<1>1. /\ disk \in ConfigSet /\ chain \in [Libs -> 0..Moves] /\ up = TRUE /\ bound \in BoundRec
      /\ \A l \in Libs : LibrarySound(l)
  BY WorkIs DEF Opens, At
<1>2. copy' = disk /\ op' = next /\ UNCHANGED <<disk, chain, up>>
  BY DEF Opens
<1>3. FileSound' /\ NotDrawn' /\ disk' \in ConfigSet /\ chain' \in [Libs -> 0..Moves]
  BY <1>2, StoresStay
<1>4. next.at = "swap" /\ next.old # 0 => next.old >= disk.origin[next.lib]
  BY <1>1 DEF LibrarySound
<1>5. OfLibrary' /\ Swapped'
  BY <1>2, <1>4 DEF OfLibrary, Swapped, ImportAt
<1>6. QED
  BY <1>1, <1>2, <1>3, <1>5, LibraryKeeps DEF ImportAt, Unsure

LEMMA PutBeginsKeeps ==
  ASSUME SettingsAssumption, CredentialsInv, NEW lib \in Libs, PutBegins(lib)
  PROVE  CredentialsInv'
<1>1. disk.origin[lib] \in 0..Moves /\ disk.origin[lib] # 0
  BY WorkIs DEF PutBegins, Has, ConfigSet
<1> PICK new \in 0..Moves : new = disk.origin[lib]
  BY <1>1
<1> PICK next : next = [Idle EXCEPT !.at = "put", !.lib = lib, !.new = new]
  OBVIOUS
<1>2. next \in OpRec /\ next.at = "put" /\ next.lib = lib /\ next.new = new
  BY IdleIs DEF OpRec, Ats
<1>3. Opens(next) /\ UNCHANGED bound
  BY DEF PutBegins
<1>4. QED
  BY <1>1, <1>2, <1>3, OpensKeeps

LEMMA PatchBeginsKeeps ==
  ASSUME SettingsAssumption, CredentialsInv, NEW lib \in Libs, NEW new \in 1..Moves,
         NEW pat \in BOOLEAN, NEW keep \in BOOLEAN, PatchBegins(lib, new, pat, keep)
  PROVE  CredentialsInv'
<1> PICK origin \in 0..Moves : origin = disk.origin[lib]
  BY WorkIs DEF ConfigSet
<1>1. origin # 0 /\ new \in origin..origin + 1 /\ (pat \/ keep \/ new = origin \/ chain[lib] = 0)
  BY DEF PatchBegins, Has
<1>2. chain[lib] \in 0..Moves
  BY WorkIs
<1>3. new \in 0..Moves /\ new # 0 /\ new >= origin
  BY <1>1 DEF SettingsAssumption
<1> PICK old \in 0..Moves : old = chain[lib]
  BY <1>2
<1> PICK place \in {"move", "swap"} : place = IF pat THEN "swap" ELSE "move"
  OBVIOUS
<1> PICK next : next = [Idle EXCEPT !.at = place, !.lib = lib, !.new = new, !.old = old, !.keep = keep]
  OBVIOUS
<1>4. /\ next \in OpRec /\ next.at = place /\ next.lib = lib /\ next.new = new /\ next.old = old /\ next.keep = keep
  BY <1>3, IdleIs DEF OpRec, Ats
<1>5. Opens(next) /\ UNCHANGED bound
  BY DEF PatchBegins
<1>6. QED
  BY <1>1, <1>3, <1>4, <1>5, OpensKeeps

LEMMA DeleteBeginsKeeps ==
  ASSUME SettingsAssumption, CredentialsInv, NEW lib \in Libs, NEW place \in {"unlist", "unindex"},
         DeleteBegins(lib, place)
  PROVE  CredentialsInv'
<1> PICK next : next = [Idle EXCEPT !.at = place, !.lib = lib]
  OBVIOUS
<1>1. next \in OpRec /\ next.at = place /\ next.lib = lib
  BY IdleIs DEF OpRec, Ats
<1>2. Opens(next) /\ UNCHANGED bound
  BY DEF DeleteBegins
<1>3. QED
  BY <1>1, <1>2, OpensKeeps

LEMMA SettingsDieKeeps ==
  ASSUME SettingsAssumption, CredentialsInv, SettingsDie
  PROVE  CredentialsInv'
<1>1. copy \in ConfigSet /\ bound \in BoundRec
  BY WorkIs
<1>2. /\ bound.crashes > 0 /\ bound' = [bound EXCEPT !.crashes = @ - 1]
      /\ up' = FALSE /\ op' = Idle /\ UNCHANGED <<disk, copy, chain>>
  BY DEF SettingsDie
<1> PICK left \in 0..Crashes : left = bound.crashes - 1
  BY <1>1, <1>2 DEF BoundRec, SettingsAssumption
<1>3. bound' = [bound EXCEPT !.crashes = left]
  BY <1>2
<1>4. bound' \in BoundRec /\ bound'.fresh = bound.fresh
  BY <1>1, <1>3 DEF BoundRec
<1>5. FileSound' /\ NotDrawn' /\ disk' \in ConfigSet /\ chain' \in [Libs -> 0..Moves]
  BY <1>2, <1>4, StoresStay
<1>6. QED
  BY <1>1, <1>2, <1>4, <1>5, OverKeeps

LEMMA BootsKeeps ==
  ASSUME SettingsAssumption, CredentialsInv, Boots
  PROVE  CredentialsInv'
<1>1. /\ disk \in ConfigSet /\ copy \in ConfigSet /\ bound \in BoundRec /\ op \in OpRec /\ op.at = "idle"
      /\ chain \in [Libs -> 0..Moves] /\ NotDrawn /\ \A l \in Libs : LibrarySound(l)
  BY WorkIs DEF Boots
<1>2. /\ up' = TRUE /\ UNCHANGED <<copy, chain, op>>
      /\ \/ disk.imp = "in_progress" /\ disk' = [disk EXCEPT !.imp = "failed", !.rev = @ + 1] /\ UNCHANGED bound
         \/ UNCHANGED disk /\ (Faulted \/ UNCHANGED bound)
  BY DEF Boots
<1>3. bound' \in BoundRec /\ bound'.fresh = bound.fresh
  BY <1>1, <1>2, FaultedIs
<1>4. CASE disk' = disk
  <2>1. FileSound' /\ NotDrawn'
    BY <1>2, <1>3, <1>4, StoresStay
  <2>2. QED
    BY <1>1, <1>2, <1>3, <1>4, <2>1, RestKeeps
<1>5. CASE disk.imp = "in_progress" /\ disk' = [disk EXCEPT !.imp = "failed", !.rev = @ + 1]
  <2> PICK next \in Nat : next = disk.rev + 1
    BY <1>1 DEF ConfigSet
  <2>1. disk' = [disk EXCEPT !.imp = "failed", !.rev = next]
    BY <1>5
  <2>2. /\ disk' \in ConfigSet /\ disk'.imp = "failed" /\ disk'.written = disk.written
        /\ disk'.origin = disk.origin /\ disk'.meta = disk.meta
    BY <1>1, <2>1 DEF ConfigSet
  <2>3. FileSound'
    BY <1>1, <1>2, <1>5, <2>2 DEF FileSound, LibrarySound, Has
  <2>4. NotDrawn'
    BY <1>1, <1>2, <1>3, <2>2 DEF NotDrawn
  <2>5. QED
    BY <1>1, <1>2, <1>3, <2>2, <2>3, <2>4, RestKeeps
<1>6. QED
  BY <1>2, <1>4, <1>5

LEMMA StutterKeeps ==
  ASSUME CredentialsInv, UNCHANGED pvars
  PROVE  CredentialsInv'
  BY DEF CredentialsInv, SettingsTypeOK, FileSound, LibrarySound, Has, NotDrawn, AtWork, Imported, StillListed, Declining,
         OfLibrary, Swapped, pvars

(* A step that leaves an import under way.                                 *)
LEMMA ImportKeeps ==
  ASSUME disk' \in ConfigSet, copy' \in ConfigSet, chain' \in [Libs -> 0..Moves], up' = TRUE,
         bound' \in BoundRec, op' \in OpRec, FileSound', NotDrawn',
         op'.at \in ImportAt, op'.at # "fail" => copy' = disk', Imported', One => StillListed'
  PROVE  CredentialsInv'
<1>1. SettingsTypeOK'
  BY DEF SettingsTypeOK, OpRec, BoundRec
<1>2. Declining' /\ OfLibrary' /\ Swapped'
  BY DEF Declining, OfLibrary, Swapped, ImportAt
<1>3. QED
  BY <1>1, <1>2 DEF CredentialsInv, AtWork, ImportAt, Unsure, One

LEMMA ImportBeginsKeeps ==
  ASSUME SettingsAssumption, CredentialsInv, NEW found \in SUBSET Legacy, ImportBegins(found)
  PROVE  CredentialsInv'
<1>1. /\ disk \in ConfigSet /\ chain \in [Libs -> 0..Moves] /\ up = TRUE /\ bound \in BoundRec
      /\ \A l \in Libs : LibrarySound(l)
  BY WorkIs DEF ImportBegins, Opens, At
<1> PICK written \in SUBSET Libs : written = disk.written
  BY <1>1 DEF ConfigSet
<1> PICK next : next = [Idle EXCEPT !.at = "import", !.todo = found, !.found = found, !.written = written]
  OBVIOUS
<1>2. next \in OpRec /\ next.at = "import" /\ next.todo = found /\ next.found = found /\ next.written = written
  BY IdleIs DEF OpRec, Ats, Libs
<1>3. /\ op' = next /\ copy' = disk /\ UNCHANGED <<disk, chain, up>>
      /\ bound.imports > 0 /\ bound' = [bound EXCEPT !.imports = @ - 1]
      /\ disk.imp \in {"none", "failed"} /\ \A l \in Libs : disk.origin[l] = 0
  BY DEF ImportBegins, Opens, Closed, Has
<1> PICK left \in 0..Imports : left = bound.imports - 1
  BY <1>1, <1>3 DEF BoundRec, SettingsAssumption
<1>4. bound' = [bound EXCEPT !.imports = left]
  BY <1>3
<1>5. bound' \in BoundRec /\ bound'.fresh = bound.fresh
  BY <1>1, <1>4 DEF BoundRec
<1>6. FileSound' /\ NotDrawn' /\ disk' \in ConfigSet /\ chain' \in [Libs -> 0..Moves]
  BY <1>3, <1>5, StoresStay
<1>7. Imported'
  BY <1>2, <1>3 DEF Imported, ImportAt
<1>8. One => StillListed'
  BY <1>1, <1>2, <1>3 DEF StillListed, ImportAt, LibrarySound, Has, Libs
<1>9. QED
  BY <1>1, <1>2, <1>3, <1>5, <1>6, <1>7, <1>8, ImportKeeps DEF ImportAt

LEMMA ImportStartsKeeps ==
  ASSUME SettingsAssumption, CredentialsInv, ImportStarts
  PROVE  CredentialsInv'
<1>1. op.at = "import"
  BY DEF ImportStarts, At
<1>2. /\ SettingsTypeOK /\ disk \in ConfigSet /\ copy = disk /\ chain \in [Libs -> 0..Moves] /\ up = TRUE
      /\ op \in OpRec /\ NotDrawn /\ \A l \in Libs : LibrarySound(l)
  BY <1>1, WorkIs DEF ImportAt, Unsure
<1>3. /\ op.todo = op.found /\ op.found \subseteq Legacy /\ disk.imp # "completed"
      /\ \A l \in Libs : disk.origin[l] = 0
      /\ One => \A l \in Libs : chain[l] # 0 => disk.meta[l] # "none" \/ l \in op.written
      /\ One => \A l \in Legacy : chain[l] # 0 => l \in op.written
  BY <1>1, <1>2 DEF CredentialsInv, AtWork, Imported, StillListed, ImportAt
<1> PICK written \in SUBSET Libs : written = copy.written \cup Legacy
  BY <1>2 DEF ConfigSet, Libs
<1> PICK cfg : cfg = [copy EXCEPT !.imp = "in_progress", !.written = written]
  OBVIOUS
<1>4. /\ cfg \in ConfigSet /\ cfg.imp = "in_progress" /\ cfg.written = written /\ cfg.origin = disk.origin
      /\ cfg.meta = disk.meta
  BY <1>2 DEF ConfigSet
<1>5. Commits(cfg, Then("values"), Idle) /\ chain' = chain
  BY DEF ImportStarts
<1> PICK c \in ConfigSet : Committed(c, cfg, Then("values"), Idle)
  BY <1>2, <1>4, <1>5, CommitIs
<1>6. /\ c.imp = cfg.imp /\ c.written = cfg.written /\ c.origin = cfg.origin /\ c.meta = cfg.meta
      /\ up' = up /\ bound' \in BoundRec /\ bound'.fresh = bound.fresh
      /\ \/ disk' = c /\ copy' = c /\ op' = Then("values")
         \/ disk' \in {disk, c} /\ copy' = copy /\ op' = Idle
  BY DEF Committed
<1>7. FileSound'
  BY <1>2, <1>3, <1>4, <1>5, <1>6 DEF FileSound, LibrarySound, Has
<1>8. NotDrawn'
  BY <1>2, <1>3, <1>4, <1>5, <1>6 DEF NotDrawn
<1>9. CASE op' = Idle
  BY <1>2, <1>5, <1>6, <1>7, <1>8, <1>9, OverKeeps
<1>10. CASE op' # Idle
  <2>1. disk' = c /\ copy' = c /\ op' = Then("values")
    BY <1>6, <1>10
  <2>2. /\ op' \in OpRec /\ op'.at = "values" /\ op'.todo = op.todo /\ op'.found = op.found
        /\ op'.written = op.written
    BY <1>2, <2>1, ThenIs DEF Ats
  <2>3. Imported'
    BY <1>3, <1>4, <1>5, <1>6, <2>1, <2>2 DEF Imported, ImportAt
  <2>4. One => StillListed'
    BY <1>2, <1>3, <1>4, <1>5, <1>6, <2>1, <2>2 DEF StillListed, ImportAt
  <2>5. QED
    BY <1>2, <1>5, <1>6, <1>7, <1>8, <2>1, <2>2, <2>3, <2>4, ImportKeeps DEF ImportAt
<1>11. QED
  BY <1>9, <1>10


LEMMA ImportStoresKeeps ==
  ASSUME SettingsAssumption, CredentialsInv, NEW lib \in Libs, ImportStores(lib)
  PROVE  CredentialsInv'
<1>1. op.at = "values" /\ lib \in op.todo
  BY DEF ImportStores, At
<1>2. /\ SettingsTypeOK /\ disk \in ConfigSet /\ copy = disk /\ chain \in [Libs -> 0..Moves] /\ up = TRUE
      /\ op \in OpRec /\ \A l \in Libs : LibrarySound(l)
  BY <1>1, WorkIs DEF ImportAt, Unsure
<1>3. /\ op.todo \subseteq op.found /\ op.found \subseteq Legacy /\ disk.imp = "in_progress"
      /\ \A l \in Libs : disk.origin[l] = 0
      /\ \A l \in op.found \ op.todo : chain[l] # 0 /\ l \in op.written
      /\ One => Legacy \subseteq disk.written
      /\ One => \A l \in Libs : chain[l] # 0 => disk.meta[l] # "none" \/ l \in op.written
      /\ One => \A l \in Legacy : chain[l] # 0 => l \in op.written
  BY <1>1, <1>2 DEF CredentialsInv, AtWork, Imported, StillListed, ImportAt
<1> PICK next, otherwise : next = [op EXCEPT !.at = "record", !.lib = lib] /\ otherwise = Then("fail")
  OBVIOUS
<1>4. /\ next \in OpRec /\ next.at = "record" /\ next.lib = lib /\ next.todo = op.todo /\ next.found = op.found
      /\ next.written = op.written
  BY <1>2 DEF OpRec, Ats
<1>5. /\ otherwise \in OpRec /\ otherwise.at = "fail" /\ otherwise.todo = op.todo /\ otherwise.found = op.found
      /\ otherwise.written = op.written
  BY <1>2, ThenIs DEF Ats
<1>6. 1 \in 0..Moves /\ lib \in Legacy /\ lib \notin Fresh
  BY <1>1, <1>3 DEF SettingsAssumption
<1>7. Stored(lib, 1, next, otherwise)
  BY <1>2, <1>6, StoreIs DEF ImportStores
<1>8. /\ UNCHANGED <<disk, copy, up>> /\ bound' \in BoundRec /\ bound'.fresh = bound.fresh
      /\ chain' \in [Libs -> 0..Moves]
      /\ \/ chain'[lib] = 1 /\ (\A l \in Libs \ {lib} : chain'[l] = chain[l]) /\ op' = next
         \/ chain' = chain /\ op' = otherwise
  BY <1>7 DEF Stored
<1>9. FileSound'
  BY <1>2, <1>3, <1>6, <1>8 DEF FileSound, LibrarySound, Has
<1>10. NotDrawn'
  BY <1>6, <1>8, WorkIs DEF NotDrawn, BoundRec, Libs
<1>11. Imported'
  <2>1. CASE op' = next /\ chain'[lib] = 1 /\ \A l \in Libs \ {lib} : chain'[l] = chain[l]
    <3>1. \A l \in op.found \ op.todo : chain'[l] # 0
      BY <1>1, <1>3, <2>1 DEF Libs
    <3>2. QED
      BY <1>1, <1>2, <1>3, <1>4, <1>8, <2>1, <3>1 DEF Imported, ImportAt
  <2>2. CASE op' = otherwise /\ chain' = chain
    BY <1>2, <1>3, <1>5, <1>8, <2>2 DEF Imported, ImportAt
  <2>3. QED
    BY <1>8, <2>1, <2>2
<1>12. One => StillListed'
  <2>1. CASE op' = next /\ \A l \in Libs \ {lib} : chain'[l] = chain[l]
    BY <1>2, <1>3, <1>4, <1>8, <2>1 DEF StillListed, ImportAt, Libs
  <2>2. CASE op' = otherwise /\ chain' = chain
    BY <1>2, <1>3, <1>5, <1>8, <2>2 DEF StillListed, ImportAt
  <2>3. QED
    BY <1>8, <2>1, <2>2
<1>13. QED
  BY <1>2, <1>4, <1>5, <1>8, <1>9, <1>10, <1>11, <1>12, ImportKeeps DEF ImportAt

LEMMA RecordedIs ==
  ASSUME NEW done \in OpRec
  PROVE  /\ AtPlace(done, "values") \in OpRec /\ AtPlace(done, "values").at = "values"
         /\ AtPlace(done, "values").todo = done.todo /\ AtPlace(done, "values").found = done.found
         /\ AtPlace(done, "values").written = done.written
         /\ AtPlace(done, "fail") \in OpRec /\ AtPlace(done, "fail").at = "fail"
         /\ AtPlace(done, "fail").todo = done.todo /\ AtPlace(done, "fail").found = done.found
         /\ AtPlace(done, "fail").written = done.written
<1>1. "values" \in Ats /\ "fail" \in Ats
  BY DEF Ats
<1>2. QED
  BY <1>1, PlacedIs

LEMMA ImportRecordsKeeps ==
  ASSUME SettingsAssumption, CredentialsInv, ImportRecords
  PROVE  CredentialsInv'
<1>1. op.at = "record"
  BY DEF ImportRecords, At
<1>2. /\ SettingsTypeOK /\ disk \in ConfigSet /\ copy = disk /\ chain \in [Libs -> 0..Moves] /\ up = TRUE
      /\ op \in OpRec /\ NotDrawn /\ \A l \in Libs : LibrarySound(l)
  BY <1>1, WorkIs DEF ImportAt, Unsure
<1>3. /\ op.lib \in op.todo /\ chain[op.lib] # 0 /\ op.todo \subseteq op.found /\ op.found \subseteq Legacy /\ disk.imp = "in_progress"
      /\ \A l \in Libs : disk.origin[l] = 0
      /\ \A l \in op.found \ op.todo : chain[l] # 0 /\ l \in op.written
      /\ One => \A l \in Libs : chain[l] # 0 => disk.meta[l] # "none" \/ l \in op.written \/ l = op.lib
      /\ One => \A l \in Legacy : chain[l] # 0 => l \in op.written \/ l = op.lib
  BY <1>1, <1>2 DEF CredentialsInv, AtWork, Imported, StillListed, ImportAt
<1> PICK done : done = [op EXCEPT !.written = @ \cup {op.lib}, !.todo = @ \ {op.lib}, !.lib = NoLib]
  OBVIOUS
<1> PICK lib \in Libs : lib = op.lib
  BY <1>3 DEF Libs
<1> PICK written \in SUBSET Libs, todo \in SUBSET Libs : written = op.written \cup {lib} /\ todo = op.todo \ {lib}
  BY <1>2 DEF OpRec
<1>4. done = [op EXCEPT !.written = written, !.todo = todo, !.lib = NoLib]
  BY <1>2 DEF OpRec
<1>5. /\ done \in OpRec /\ done.todo = todo /\ done.written = written /\ done.found = op.found
  BY <1>2, <1>4 DEF OpRec
<1> PICK next, otherwise : next = AtPlace(done, "values") /\ otherwise = AtPlace(done, "fail")
  OBVIOUS
<1>6. /\ next \in OpRec /\ next.at = "values" /\ next.todo = todo /\ next.found = op.found /\ next.written = written
      /\ otherwise \in OpRec /\ otherwise.at = "fail" /\ otherwise.todo = todo /\ otherwise.found = op.found
      /\ otherwise.written = written
  BY <1>5, RecordedIs
<1> PICK cfg : cfg = [copy EXCEPT !.written = written]
  OBVIOUS
<1>7. /\ cfg \in ConfigSet /\ cfg.imp = disk.imp /\ cfg.written = written /\ cfg.origin = disk.origin
      /\ cfg.meta = disk.meta
  BY <1>2 DEF ConfigSet
<1>8. Commits(cfg, next, otherwise) /\ chain' = chain
  BY <1>5 DEF ImportRecords, AtPlace
<1> PICK c \in ConfigSet : Committed(c, cfg, next, otherwise)
  BY <1>2, <1>7, <1>8, CommitIs
<1>9. /\ c.imp = cfg.imp /\ c.written = cfg.written /\ c.origin = cfg.origin /\ c.meta = cfg.meta
      /\ up' = up /\ bound' \in BoundRec /\ bound'.fresh = bound.fresh
      /\ \/ disk' = c /\ copy' = c /\ op' = next
         \/ disk' \in {disk, c} /\ copy' = copy /\ op' = otherwise
  BY DEF Committed
<1>10. One => \A l \in Legacy : chain[l] # 0 => l \in written
  BY <1>3
<1>11. FileSound'
  BY <1>2, <1>3, <1>7, <1>8, <1>9, <1>10 DEF FileSound, LibrarySound, Has, Libs
<1>12. NotDrawn'
  BY <1>2, <1>7, <1>8, <1>9 DEF NotDrawn
<1>13. CASE disk' = c /\ copy' = c /\ op' = next
  <2>1. \A l \in op.found \ todo : chain[l] # 0
    BY <1>3
  <2>2. Imported'
    BY <1>2, <1>3, <1>6, <1>7, <1>8, <1>9, <1>13, <2>1 DEF Imported, ImportAt
  <2>3. One => StillListed'
    <3>1. One => todo = {}
      BY <1>3, OneLegacy
    <3>2. QED
      BY <1>2, <1>3, <1>6, <1>7, <1>8, <1>9, <1>10, <1>13, <3>1 DEF StillListed, ImportAt
  <2>4. QED
    BY <1>2, <1>6, <1>8, <1>9, <1>11, <1>12, <1>13, <2>2, <2>3, ImportKeeps DEF ImportAt
<1>14. CASE disk' \in {disk, c} /\ copy' = copy /\ op' = otherwise
  <2>1. Imported'
    BY <1>2, <1>3, <1>6, <1>8, <1>9, <1>14 DEF Imported, ImportAt
  <2>2. One => StillListed'
    BY <1>2, <1>3, <1>6, <1>8, <1>9, <1>10, <1>14 DEF StillListed, ImportAt
  <2>3. QED
    BY <1>2, <1>6, <1>8, <1>9, <1>11, <1>12, <1>14, <2>1, <2>2, ImportKeeps DEF ImportAt
<1>15. QED
  BY <1>9, <1>13, <1>14


LEMMA ImportFinishesKeeps ==
  ASSUME SettingsAssumption, CredentialsInv, ImportFinishes
  PROVE  CredentialsInv'
<1>1. op.at = "values" /\ op.todo = {} /\ chain' = chain
  BY DEF ImportFinishes, At
<1>2. /\ SettingsTypeOK /\ disk \in ConfigSet /\ copy = disk /\ chain \in [Libs -> 0..Moves] /\ up = TRUE
      /\ op \in OpRec /\ bound \in BoundRec /\ NotDrawn /\ \A l \in Libs : LibrarySound(l)
  BY <1>1, WorkIs DEF ImportAt, Unsure
<1>3. /\ op.todo \subseteq op.found /\ op.found \subseteq Legacy /\ disk.imp = "in_progress"
      /\ \A l \in Libs : disk.origin[l] = 0
      /\ \A l \in op.found \ op.todo : chain[l] # 0 /\ l \in op.written
      /\ One => \A l \in Libs : chain[l] # 0 => disk.meta[l] # "none" \/ l \in op.written
      /\ One => \A l \in Legacy : chain[l] # 0 => l \in op.written
  BY <1>1, <1>2 DEF CredentialsInv, AtWork, Imported, StillListed, ImportAt
<1> PICK otherwise : otherwise = Then("fail")
  OBVIOUS
<1>4. /\ otherwise \in OpRec /\ otherwise.at = "fail" /\ otherwise.todo = op.todo /\ otherwise.found = op.found
      /\ otherwise.written = op.written
  BY <1>2, ThenIs DEF Ats
<1>5. 0 \in 0..Moves /\ 1 \in 0..Moves
  BY DEF SettingsAssumption
<1> PICK origin \in [Libs -> 0..Moves] : origin = [l \in Libs |-> IF l \in Legacy THEN 1 ELSE 0]
  BY <1>5
<1> PICK meta \in [Libs -> {"none", "live", "pending"}] :
      meta = [l \in Libs |-> IF l \in op.written THEN "live" ELSE "none"]
  OBVIOUS
<1> PICK written \in SUBSET Libs : written = op.written
  BY <1>2 DEF OpRec
<1> PICK cfg : cfg = [copy EXCEPT !.imp = "completed", !.written = written, !.origin = origin, !.meta = meta]
  OBVIOUS
<1>6. /\ cfg \in ConfigSet /\ cfg.imp = "completed" /\ cfg.written = written /\ cfg.origin = origin /\ cfg.meta = meta
  BY <1>2 DEF ConfigSet
<1>7. Commits(cfg, Idle, otherwise) \/ (Faulted /\ op' = otherwise /\ UNCHANGED <<disk, copy, up>>)
  BY DEF ImportFinishes
<1>8. ASSUME op' = otherwise, copy' = copy, up' = up, disk' \in ConfigSet, bound' \in BoundRec, FileSound', NotDrawn'
      PROVE  CredentialsInv'
  <2>1. Imported'
    BY <1>1, <1>2, <1>3, <1>4, <1>8 DEF Imported, ImportAt
  <2>2. One => StillListed'
    BY <1>1, <1>2, <1>3, <1>4, <1>8 DEF StillListed, ImportAt
  <2>3. QED
    BY <1>1, <1>2, <1>4, <1>8, <2>1, <2>2, ImportKeeps DEF ImportAt
<1>9. CASE Faulted /\ op' = otherwise /\ UNCHANGED <<disk, copy, up>>
  <2>1. bound' \in BoundRec /\ bound'.fresh = bound.fresh
    BY <1>2, <1>9, FaultedIs
  <2>2. FileSound' /\ NotDrawn'
    BY <1>1, <1>9, <2>1, StoresStay
  <2>3. QED
    BY <1>2, <1>8, <1>9, <2>1, <2>2
<1>10. CASE Commits(cfg, Idle, otherwise)
  <2> PICK c \in ConfigSet : Committed(c, cfg, Idle, otherwise)
    BY <1>2, <1>6, <1>10, CommitIs
  <2>1. /\ c.imp = cfg.imp /\ c.written = cfg.written /\ c.origin = cfg.origin /\ c.meta = cfg.meta
        /\ up' = up /\ bound' \in BoundRec /\ bound'.fresh = bound.fresh
        /\ \/ disk' = c /\ copy' = c /\ op' = Idle
           \/ disk' \in {disk, c} /\ copy' = copy /\ op' = otherwise
    BY DEF Committed
  <2>2. \A l \in Libs : chain[l] # 0 => chain[l] >= 1
    BY <1>2 DEF SettingsAssumption
  <2>3. CASE disk' = disk
    <3>1. FileSound' /\ NotDrawn'
      BY <1>1, <2>1, <2>3, StoresStay
    <3>2. CASE op' = Idle
      BY <1>1, <1>2, <2>1, <2>3, <3>1, <3>2, OverKeeps
    <3>3. QED
      BY <1>2, <1>8, <2>1, <2>3, <3>1, <3>2
  <2>4. CASE disk' = c
    <3>1. FileSound'
      BY <1>1, <1>2, <1>3, <1>6, <2>1, <2>2, <2>4 DEF FileSound, LibrarySound, Has, Libs
    <3>2. NotDrawn'
      BY <1>1, <1>2, <1>6, <2>1, <2>4 DEF NotDrawn, BoundRec, SettingsAssumption, Libs
    <3>3. CASE op' = Idle
      BY <1>1, <1>2, <2>1, <2>4, <3>1, <3>2, <3>3, OverKeeps
    <3>4. QED
      BY <1>2, <1>8, <2>1, <2>4, <3>1, <3>2, <3>3
  <2>5. QED
    BY <2>1, <2>3, <2>4
<1>11. QED
  BY <1>7, <1>9, <1>10

LEMMA ImportFailsKeeps ==
  ASSUME SettingsAssumption, CredentialsInv, ImportFails
  PROVE  CredentialsInv'
<1>1. op.at = "fail" /\ chain' = chain
  BY DEF ImportFails, At
<1>2. /\ SettingsTypeOK /\ disk \in ConfigSet /\ copy \in ConfigSet /\ chain \in [Libs -> 0..Moves] /\ up = TRUE
      /\ op \in OpRec /\ NotDrawn /\ \A l \in Libs : LibrarySound(l)
  BY <1>1, WorkIs
<1>3. /\ \A l \in Libs : copy.origin[l] = 0
      /\ One => \A l \in Libs : chain[l] # 0 => copy.meta[l] # "none" \/ l \in op.written
      /\ One => \A l \in Legacy : chain[l] # 0 => l \in op.written
  BY <1>1 DEF CredentialsInv, AtWork, Imported, StillListed, ImportAt
<1> PICK written \in SUBSET Libs : written = op.written
  BY <1>2 DEF OpRec
<1> PICK cfg : cfg = [copy EXCEPT !.imp = "failed", !.written = written]
  OBVIOUS
<1>4. /\ cfg \in ConfigSet /\ cfg.imp = "failed" /\ cfg.written = written /\ cfg.origin = copy.origin
      /\ cfg.meta = copy.meta
  BY <1>2 DEF ConfigSet
<1>5. Commits(cfg, Idle, Idle)
  BY DEF ImportFails
<1> PICK c \in ConfigSet : Committed(c, cfg, Idle, Idle)
  BY <1>2, <1>4, <1>5, CommitIs
<1>6. /\ c.imp = cfg.imp /\ c.written = cfg.written /\ c.origin = cfg.origin /\ c.meta = cfg.meta
      /\ up' = up /\ bound' \in BoundRec /\ bound'.fresh = bound.fresh
      /\ disk' \in {disk, c} /\ copy' \in {copy, c} /\ op' = Idle
  BY DEF Committed
<1>7. FileSound'
  BY <1>1, <1>2, <1>3, <1>4, <1>6 DEF FileSound, LibrarySound, Has
<1>8. NotDrawn'
  BY <1>1, <1>2, <1>3, <1>4, <1>6 DEF NotDrawn, BoundRec, SettingsTypeOK, Libs
<1>9. QED
  BY <1>1, <1>2, <1>6, <1>7, <1>8, OverKeeps

LEMMA DeclineBeginsKeeps ==
  ASSUME SettingsAssumption, CredentialsInv, DeclineBegins
  PROVE  CredentialsInv'
<1>1. /\ disk \in ConfigSet /\ chain \in [Libs -> 0..Moves] /\ up = TRUE /\ bound \in BoundRec
  BY WorkIs DEF DeclineBegins, Opens, At
<1> PICK todo \in SUBSET Libs : todo = disk.written
  BY <1>1 DEF ConfigSet
<1> PICK next : next = [Idle EXCEPT !.at = "decline", !.todo = todo]
  OBVIOUS
<1>2. next \in OpRec /\ next.at = "decline" /\ next.todo = todo
  BY IdleIs DEF OpRec, Ats
<1>3. op' = next /\ copy' = disk /\ UNCHANGED <<disk, chain, up, bound>> /\ disk.imp \in {"none", "failed"}
  BY DEF DeclineBegins, Opens, Closed
<1>4. FileSound' /\ NotDrawn' /\ disk' \in ConfigSet /\ chain' \in [Libs -> 0..Moves]
  BY <1>3, StoresStay
<1>5. SettingsTypeOK'
  BY <1>1, <1>2, <1>3 DEF SettingsTypeOK, OpRec, BoundRec
<1>6. Imported' /\ StillListed' /\ Declining' /\ OfLibrary' /\ Swapped'
  BY <1>2, <1>3 DEF Imported, StillListed, Declining, OfLibrary, Swapped, ImportAt
<1>7. QED
  BY <1>1, <1>2, <1>3, <1>4, <1>5, <1>6 DEF CredentialsInv, AtWork

LEMMA DeclineDeletesKeeps ==
  ASSUME SettingsAssumption, CredentialsInv, NEW lib \in Libs, DeclineDeletes(lib)
  PROVE  CredentialsInv'
<1>1. op.at = "decline" /\ lib \in op.todo
  BY DEF DeclineDeletes, At
<1>2. /\ SettingsTypeOK /\ disk \in ConfigSet /\ copy = disk /\ chain \in [Libs -> 0..Moves] /\ up = TRUE
      /\ op \in OpRec /\ \A l \in Libs : LibrarySound(l)
  BY <1>1, WorkIs DEF ImportAt, Unsure
<1>3. copy.imp \in {"none", "failed"} /\ \A l \in copy.written \ op.todo : chain[l] = 0
  BY <1>1 DEF CredentialsInv, AtWork, Declining
<1> PICK todo \in SUBSET Libs : todo = op.todo \ {lib}
  BY <1>2 DEF OpRec
<1> PICK next : next = [op EXCEPT !.todo = todo]
  OBVIOUS
<1>4. next \in OpRec /\ next.at = "decline" /\ next.todo = todo
  BY <1>1, <1>2 DEF OpRec
<1>5. Stored(lib, 0, next, Idle)
  <2>1. next = [op EXCEPT !.todo = @ \ {lib}] /\ 0 \in 0..Moves
    BY <1>2 DEF OpRec, SettingsAssumption
  <2>2. QED
    BY <1>2, <2>1, StoreIs DEF DeclineDeletes
<1>6. /\ UNCHANGED <<disk, copy, up>> /\ bound' \in BoundRec /\ bound'.fresh = bound.fresh
      /\ chain' \in [Libs -> 0..Moves]
      /\ \/ chain'[lib] = 0 /\ (\A l \in Libs \ {lib} : chain'[l] = chain[l]) /\ op' = next
         \/ chain' = chain /\ op' = Idle
  BY <1>5 DEF Stored
<1>7. chain'[lib] = 0 => LibrarySound(lib)'
  BY <1>2, <1>6 DEF LibrarySound, Has
<1>8. FileSound' /\ NotDrawn'
  BY <1>2, <1>5, <1>7, StoreKeeps
<1>9. CASE op' = Idle
  BY <1>2, <1>6, <1>8, <1>9, OverKeeps
<1>10. CASE op' # Idle
  <2>1. chain'[lib] = 0 /\ (\A l \in Libs \ {lib} : chain'[l] = chain[l]) /\ op' = next
    BY <1>6, <1>10
  <2>2. SettingsTypeOK'
    BY <1>2, <1>4, <1>6, <2>1 DEF SettingsTypeOK, OpRec, BoundRec
  <2>3. Declining'
    BY <1>2, <1>3, <1>4, <1>6, <2>1 DEF Declining, ConfigSet
  <2>4. Imported' /\ StillListed' /\ OfLibrary' /\ Swapped'
    BY <1>4, <2>1 DEF Imported, StillListed, OfLibrary, Swapped, ImportAt
  <2>5. QED
    BY <1>2, <1>6, <1>8, <2>2, <2>3, <2>4 DEF CredentialsInv, AtWork
<1>11. QED
  BY <1>9, <1>10

LEMMA DeclineEndsKeeps ==
  ASSUME SettingsAssumption, CredentialsInv, DeclineEnds
  PROVE  CredentialsInv'
<1>1. op.at = "decline" /\ op.todo = {} /\ chain' = chain
  BY DEF DeclineEnds, At
<1>2. /\ SettingsTypeOK /\ disk \in ConfigSet /\ copy = disk /\ chain \in [Libs -> 0..Moves] /\ up = TRUE
      /\ op \in OpRec /\ NotDrawn /\ \A l \in Libs : LibrarySound(l)
  BY <1>1, WorkIs DEF ImportAt, Unsure
<1>3. disk.imp \in {"none", "failed"} /\ \A l \in disk.written : chain[l] = 0
  BY <1>1, <1>2 DEF CredentialsInv, AtWork, Declining
<1> PICK meta \in [Libs -> {"none", "live", "pending"}] :
      meta = [l \in Libs |-> IF l \in copy.written THEN "none" ELSE copy.meta[l]]
  BY <1>2 DEF ConfigSet
<1> PICK cfg : cfg = [copy EXCEPT !.imp = "declined", !.written = {}, !.meta = meta]
  OBVIOUS
<1>4. /\ cfg \in ConfigSet /\ cfg.imp = "declined" /\ cfg.written = {} /\ cfg.origin = disk.origin /\ cfg.meta = meta
  BY <1>2 DEF ConfigSet
<1>5. Commits(cfg, Idle, Idle)
  <2>1. cfg = [copy EXCEPT !.imp = "declined", !.written = {},
                        !.meta = [l \in Libs |-> IF l \in copy.written THEN "none" ELSE @[l]]]
    BY <1>2 DEF ConfigSet
  <2>2. QED
    BY <2>1 DEF DeclineEnds
<1> PICK c \in ConfigSet : Committed(c, cfg, Idle, Idle)
  BY <1>2, <1>4, <1>5, CommitIs
<1>6. /\ c.imp = cfg.imp /\ c.written = cfg.written /\ c.origin = cfg.origin /\ c.meta = cfg.meta
      /\ up' = up /\ bound' \in BoundRec /\ bound'.fresh = bound.fresh
      /\ disk' \in {disk, c} /\ copy' \in {copy, c} /\ op' = Idle
  BY DEF Committed
<1>7. FileSound'
  BY <1>1, <1>2, <1>3, <1>4, <1>6 DEF FileSound, LibrarySound, Has
<1>8. NotDrawn'
  BY <1>1, <1>2, <1>4, <1>6 DEF NotDrawn
<1>9. QED
  BY <1>1, <1>2, <1>6, <1>7, <1>8, OverKeeps


LEMMA SettingsNextKeeps ==
  ASSUME SettingsAssumption, CredentialsInv, SettingsNext
  PROVE  CredentialsInv'
<1>1. CASE \E found \in SUBSET Legacy : ImportBegins(found)
  BY <1>1, ImportBeginsKeeps
<1>2. CASE DeclineBegins
  BY <1>2, DeclineBeginsKeeps
<1>3. CASE Importing
  BY <1>3, ImportStartsKeeps, ImportRecordsKeeps, ImportFinishesKeeps, ImportFailsKeeps, DeclineEndsKeeps DEF Importing
<1>4. CASE Changing
  BY <1>4, CreatesKeeps, CreateStoresKeeps, RollsBackKeeps, PutsKeeps, RecordsMetaKeeps, MovedKeeps DEF Changing
<1>5. CASE Swapping
  BY <1>5, SwapStoresKeeps, SwapCommitsKeeps, SwapChecksKeeps, RestoresKeeps, DropsKeeps, MarksKeeps, MarksPendingKeeps
     DEF Swapping
<1>6. CASE Removing
  BY <1>6, UnlistsKeeps, UnindexesKeeps, ErasesKeeps, RemovedKeeps DEF Removing
<1>7. CASE SettingsDie \/ Boots
  BY <1>7, SettingsDieKeeps, BootsKeeps
<1>8. ASSUME NEW l \in Libs,
             \/ ImportStores(l) \/ DeclineDeletes(l) \/ PutBegins(l)
             \/ \E pat \in 0..1 : CreateBegins(l, pat)
             \/ \E new \in 1..Moves, pat, keep \in BOOLEAN : PatchBegins(l, new, pat, keep)
             \/ \E place \in {"unlist", "unindex"} : DeleteBegins(l, place)
      PROVE  CredentialsInv'
  <2>1. CASE ImportStores(l) \/ DeclineDeletes(l) \/ PutBegins(l)
    BY <2>1, ImportStoresKeeps, DeclineDeletesKeeps, PutBeginsKeeps
  <2>2. CASE \E pat \in 0..1 : CreateBegins(l, pat)
    BY <2>2, CreateBeginsKeeps
  <2>3. CASE \E new \in 1..Moves, pat, keep \in BOOLEAN : PatchBegins(l, new, pat, keep)
    BY <2>3, PatchBeginsKeeps
  <2>4. CASE \E place \in {"unlist", "unindex"} : DeleteBegins(l, place)
    BY <2>4, DeleteBeginsKeeps
  <2>5. QED
    BY <1>8, <2>1, <2>2, <2>3, <2>4
<1>9. QED
  BY <1>1, <1>2, <1>3, <1>4, <1>5, <1>6, <1>7, <1>8 DEF SettingsNext

(* What CredentialsSafe says, of every reachable state.                    *)
THEOREM CredentialsAreSafe ==
  ASSUME SettingsAssumption
  PROVE  SettingsSpec => []CredentialsSafe
<1>1. SettingsInit => CredentialsInv
  BY CredentialsInitKeeps
<1>2. CredentialsInv /\ [SettingsNext]_pvars => CredentialsInv'
  BY SettingsNextKeeps, StutterKeeps
<1>3. CredentialsInv => CredentialsSafe
  <2> SUFFICES ASSUME CredentialsInv PROVE CredentialsSafe
    OBVIOUS
  <2>1. SettingsTypeOK /\ \A l \in Libs : LibrarySound(l)
    BY WorkIs
  <2>2. NoOldPat
    BY <2>1 DEF NoOldPat, LibrarySound, Has
  <2>3. One => SecretIndexed /\ DeclineClean
    BY <2>1 DEF One, SecretIndexed, DeclineClean, LibrarySound, Libs
  <2>4. QED
    BY <2>1, <2>2, <2>3 DEF CredentialsSafe, One
<1>4. QED
  BY <1>1, <1>2, <1>3, PTL DEF SettingsSpec


(* What a commit writes, if anything.                                      *)
Edits(config) == copy \in ConfigSet /\ DOMAIN config = DOMAIN copy
Written(config) == disk' = disk \/ (disk'.rev = copy.rev + 1 /\ disk'.imp = config.imp /\ disk'.meta = config.meta)

LEMMA CommitWrites ==
  ASSUME NEW config, Edits(config), NEW next, NEW otherwise, Commits(config, next, otherwise)
  PROVE  Written(config)
<1>1. disk' = disk \/ disk' = [config EXCEPT !.rev = copy.rev + 1]
  BY DEF Commits
<1>2. QED
  BY <1>1 DEF ConfigSet, Edits, Written

(* A step that does not touch the state of the import.                     *)
Forward == disk' = disk \/ (disk'.rev > disk.rev /\ disk'.imp = disk.imp)

LEMMA EntriesForward ==
  ASSUME SettingsAssumption, CredentialsInv, Changing \/ Swapping \/ Removing
  PROVE  Forward
<1>1. copy \in ConfigSet /\ copy.rev \in Nat
  BY WorkIs DEF ConfigSet
<1>2. op.at \notin Unsure \cup {"idle"} => copy = disk
  BY WorkIs
<1>3. CASE RollsBack
  <2> PICK cfg : cfg = [copy EXCEPT !.origin[op.lib] = 0, !.meta[op.lib] = "none"]
    OBVIOUS
  <2>1. Commits(cfg, Idle, Idle)
    BY <1>3 DEF RollsBack
  <2>2. Edits(cfg) /\ cfg.imp = copy.imp
    BY <1>1 DEF ConfigSet, Edits
  <2>3. Written(cfg)
    BY <2>1, <2>2, CommitWrites
  <2>4. QED
    BY <1>1, <1>2, <1>3, <2>2, <2>3 DEF RollsBack, At, Written, Forward, Unsure
<1>4. CASE RecordsMeta
  <2> PICK cfg : cfg = [copy EXCEPT !.meta[op.lib] = "live"]
    OBVIOUS
  <2>1. Commits(cfg, Idle, Idle)
    BY <1>4 DEF RecordsMeta
  <2>2. Edits(cfg) /\ cfg.imp = copy.imp
    BY <1>1 DEF ConfigSet, Edits
  <2>3. Written(cfg)
    BY <2>1, <2>2, CommitWrites
  <2>4. QED
    BY <1>1, <1>2, <1>4, <2>2, <2>3 DEF RecordsMeta, At, Written, Forward, Unsure
<1>5. CASE Creates
  <2> PICK cfg : cfg = [copy EXCEPT !.origin[op.lib] = 1]
    OBVIOUS
  <2>1. Commits(cfg, IF op.new = 1 THEN Then("createSet") ELSE Idle, Idle)
    BY <1>5 DEF Creates
  <2>2. Edits(cfg) /\ cfg.imp = copy.imp
    BY <1>1 DEF ConfigSet, Edits
  <2>3. Written(cfg)
    BY <2>1, <2>2, CommitWrites
  <2>4. QED
    BY <1>1, <1>2, <1>5, <2>2, <2>3 DEF Creates, At, Written, Forward, Unsure
<1>6. CASE Moved
  <2> PICK cfg : cfg = [copy EXCEPT !.origin[op.lib] = op.new]
    OBVIOUS
  <2>1. Commits(cfg, Idle, Idle)
    BY <1>6 DEF Moved
  <2>2. Edits(cfg) /\ cfg.imp = copy.imp
    BY <1>1 DEF ConfigSet, Edits
  <2>3. Written(cfg)
    BY <2>1, <2>2, CommitWrites
  <2>4. QED
    BY <1>1, <1>2, <1>6, <2>2, <2>3 DEF Moved, At, Written, Forward, Unsure
<1>7. CASE SwapCommits
  <2> PICK cfg : cfg = [copy EXCEPT !.origin[op.lib] = op.new, !.meta[op.lib] = "live"]
    OBVIOUS
  <2>1. Commits(cfg, Idle, Then("check"))
    BY <1>7 DEF SwapCommits
  <2>2. Edits(cfg) /\ cfg.imp = copy.imp
    BY <1>1 DEF ConfigSet, Edits
  <2>3. Written(cfg)
    BY <2>1, <2>2, CommitWrites
  <2>4. QED
    BY <1>1, <1>2, <1>7, <2>2, <2>3 DEF SwapCommits, At, Written, Forward, Unsure
<1>8. CASE MarksPending
  <2> PICK cfg : cfg = [copy EXCEPT !.meta[op.lib] = "pending"]
    OBVIOUS
  <2>1. Commits(cfg, Idle, Idle)
    BY <1>8 DEF MarksPending
  <2>2. Edits(cfg) /\ cfg.imp = copy.imp
    BY <1>1 DEF ConfigSet, Edits
  <2>3. Written(cfg)
    BY <2>1, <2>2, CommitWrites
  <2>4. QED
    BY <1>1, <1>2, <1>8, <2>2, <2>3 DEF MarksPending, At, Written, Forward, Unsure
<1>9. CASE Unlists
  <2> PICK cfg : cfg = [copy EXCEPT !.origin[op.lib] = 0, !.meta[op.lib] = "pending"]
    OBVIOUS
  <2>1. Commits(cfg, Then("unindex"), Idle)
    BY <1>9 DEF Unlists
  <2>2. Edits(cfg) /\ cfg.imp = copy.imp
    BY <1>1 DEF ConfigSet, Edits
  <2>3. Written(cfg)
    BY <2>1, <2>2, CommitWrites
  <2>4. QED
    BY <1>1, <1>2, <1>9, <2>2, <2>3 DEF Unlists, At, Written, Forward, Unsure
<1>10. CASE Unindexes
  <2> PICK cfg : cfg = [copy EXCEPT !.meta[op.lib] = "pending"]
    OBVIOUS
  <2>1. Commits(cfg, Then("erase"), Idle)
    BY <1>10 DEF Unindexes
  <2>2. Edits(cfg) /\ cfg.imp = copy.imp
    BY <1>1 DEF ConfigSet, Edits
  <2>3. Written(cfg)
    BY <2>1, <2>2, CommitWrites
  <2>4. QED
    BY <1>1, <1>2, <1>10, <2>2, <2>3 DEF Unindexes, At, Written, Forward, Unsure
<1>11. CASE Removed
  <2> PICK cfg : cfg = [copy EXCEPT !.meta[op.lib] = "none", !.written = @ \ {op.lib}]
    OBVIOUS
  <2>1. Commits(cfg, Idle, Idle)
    BY <1>11 DEF Removed
  <2>2. Edits(cfg) /\ cfg.imp = copy.imp
    BY <1>1 DEF ConfigSet, Edits
  <2>3. Written(cfg)
    BY <2>1, <2>2, CommitWrites
  <2>4. QED
    BY <1>1, <1>2, <1>11, <2>2, <2>3 DEF Removed, At, Written, Forward, Unsure
<1>12. CASE CreateStores \/ Puts \/ SwapStores \/ Restores \/ Drops \/ Erases
  BY <1>12 DEF CreateStores, Puts, SwapStores, Restores, Drops, Erases, Stores, Forward
<1>13. CASE SwapChecks \/ Marks
  BY <1>13 DEF SwapChecks, Marks, Forward
<1>14. QED
  BY <1>3, <1>4, <1>5, <1>6, <1>7, <1>8, <1>9, <1>10, <1>11, <1>12, <1>13 DEF Changing, Swapping, Removing

LEMMA OthersForward ==
  ASSUME NEW l \in Libs,
         \/ ImportStores(l) \/ DeclineDeletes(l) \/ PutBegins(l)
         \/ \E pat \in 0..1 : CreateBegins(l, pat)
         \/ \E new \in 1..Moves, pat, keep \in BOOLEAN : PatchBegins(l, new, pat, keep)
         \/ \E place \in {"unlist", "unindex"} : DeleteBegins(l, place)
  PROVE  Forward
  BY DEF ImportStores, DeclineDeletes, PutBegins, CreateBegins, PatchBegins, DeleteBegins, Stores, Opens, Forward

LEMMA ForwardIs ==
  ASSUME Forward
  PROVE  CredentialsStep
  BY DEF Forward, CredentialsStep, ImportWhole, RevisionForward, ImportFinal

LEMMA ImportSteps ==
  ASSUME SettingsAssumption, CredentialsInv, Importing
  PROVE  CredentialsStep
<1>1. copy \in ConfigSet /\ copy.rev \in Nat /\ op \in OpRec
  BY WorkIs DEF ConfigSet
<1>2. op.at \notin Unsure \cup {"idle"} => copy = disk
  BY WorkIs
<1>3. CASE ImportStarts
  <2> PICK cfg : cfg = [copy EXCEPT !.imp = "in_progress", !.written = @ \cup Legacy]
    OBVIOUS
  <2>1. Commits(cfg, Then("values"), Idle) /\ op.at = "import"
    BY <1>3 DEF ImportStarts, At
  <2>2. copy = disk /\ disk.imp \notin {"completed", "declined"}
    BY <1>2, <2>1 DEF Unsure, CredentialsInv, AtWork, Imported, ImportAt
  <2>3. Edits(cfg) /\ cfg.imp = "in_progress"
    BY <1>1 DEF ConfigSet, Edits
  <2>4. Written(cfg)
    BY <2>1, <2>3, CommitWrites
  <2>5. disk' = disk \/ (disk'.rev > disk.rev /\ disk'.imp = "in_progress")
    BY <1>1, <2>2, <2>3, <2>4 DEF Written
  <2>6. QED
    BY <2>2, <2>5 DEF CredentialsStep, ImportWhole, RevisionForward, ImportFinal
<1>4. CASE ImportRecords
  <2> PICK written : written = op.written \cup {op.lib}
    OBVIOUS
  <2> PICK cfg : cfg = [copy EXCEPT !.written = written]
    OBVIOUS
  <2> PICK done : done = [op EXCEPT !.written = @ \cup {op.lib}, !.todo = @ \ {op.lib}, !.lib = NoLib]
    OBVIOUS
  <2>1. done.written = written
    BY <1>1 DEF OpRec
  <2>2. Commits(cfg, [done EXCEPT !.at = "values"], [done EXCEPT !.at = "fail"]) /\ op.at = "record"
    BY <1>4, <2>1 DEF ImportRecords, At
  <2>3. Edits(cfg) /\ cfg.imp = copy.imp
    BY <1>1 DEF ConfigSet, Edits
  <2>4. Written(cfg)
    BY <2>2, <2>3, CommitWrites
  <2>5. Forward
    BY <1>1, <1>2, <2>2, <2>3, <2>4 DEF Forward, Unsure, Written
  <2>6. QED
    BY <2>5, ForwardIs
<1>5. CASE ImportFinishes
  <2> PICK cfg : cfg = [copy EXCEPT !.imp = "completed", !.written = op.written,
                           !.origin = [l \in Libs |-> IF l \in Legacy THEN 1 ELSE 0],
                           !.meta = [l \in Libs |-> IF l \in op.written THEN "live" ELSE "none"]]
    OBVIOUS
  <2>1. (Commits(cfg, Idle, Then("fail")) \/ disk' = disk) /\ op.at = "values" /\ op.todo = {}
    BY <1>5 DEF ImportFinishes, At
  <2>2. /\ copy = disk /\ disk.imp \notin {"completed", "declined"} /\ op.found \subseteq Libs
        /\ \A l \in op.found : chain[l] # 0 /\ l \in op.written
    BY <1>2, <2>1 DEF Unsure, CredentialsInv, AtWork, Imported, ImportAt, Libs
  <2>3. Edits(cfg) /\ cfg.meta = [l \in Libs |-> IF l \in op.written THEN "live" ELSE "none"]
    BY <1>1 DEF ConfigSet, Edits
  <2>4. Written(cfg) \/ disk' = disk
    BY <2>1, <2>3, CommitWrites
  <2>5. disk' = disk \/ (disk'.rev > disk.rev /\ disk'.meta = cfg.meta)
    BY <1>1, <2>2, <2>4 DEF Written
  <2>6. QED
    BY <2>2, <2>3, <2>5 DEF CredentialsStep, ImportWhole, RevisionForward, ImportFinal
<1>6. CASE ImportFails
  <2> PICK cfg : cfg = [copy EXCEPT !.imp = "failed", !.written = op.written]
    OBVIOUS
  <2>1. Commits(cfg, Idle, Idle) /\ op.at = "fail"
    BY <1>6 DEF ImportFails, At
  <2>2. Edits(cfg) /\ cfg.imp = "failed"
    BY <1>1 DEF ConfigSet, Edits
  <2>3. Written(cfg)
    BY <2>1, <2>2, CommitWrites
  <2>4. disk' = disk \/ disk'.imp = "failed"
    BY <2>2, <2>3 DEF Written
  <2>5. QED
    BY <2>1, <2>4 DEF CredentialsStep, ImportWhole
<1>7. CASE DeclineEnds
  <2> PICK cfg : cfg = [copy EXCEPT !.imp = "declined", !.written = {},
                        !.meta = [l \in Libs |-> IF l \in copy.written THEN "none" ELSE @[l]]]
    OBVIOUS
  <2>1. Commits(cfg, Idle, Idle) /\ op.at = "decline"
    BY <1>7 DEF DeclineEnds, At
  <2>2. copy = disk /\ disk.imp \in {"none", "failed"}
    BY <1>2, <2>1 DEF Unsure, CredentialsInv, AtWork, Declining
  <2>3. Edits(cfg) /\ cfg.imp = "declined"
    BY <1>1 DEF ConfigSet, Edits
  <2>4. Written(cfg)
    BY <2>1, <2>3, CommitWrites
  <2>5. disk' = disk \/ (disk'.rev > disk.rev /\ disk'.imp = "declined")
    BY <1>1, <2>2, <2>3, <2>4 DEF Written
  <2>6. QED
    BY <2>2, <2>5 DEF CredentialsStep, ImportWhole, RevisionForward, ImportFinal
<1>8. QED
  BY <1>3, <1>4, <1>5, <1>6, <1>7 DEF Importing

LEMMA AllSteps ==
  ASSUME SettingsAssumption, CredentialsInv, SettingsNext
  PROVE  CredentialsStep
<1>1. CASE (\E found \in SUBSET Legacy : ImportBegins(found)) \/ DeclineBegins \/ SettingsDie
  <2>1. Forward
    BY <1>1 DEF ImportBegins, DeclineBegins, SettingsDie, Opens, Forward
  <2>2. QED
    BY <2>1, ForwardIs
<1>2. CASE Boots
  <2>1. disk' = disk \/ (disk.imp = "in_progress" /\ disk' = [disk EXCEPT !.imp = "failed", !.rev = @ + 1])
    BY <1>2 DEF Boots
  <2>2. disk \in ConfigSet /\ disk.rev \in Nat
    BY WorkIs DEF ConfigSet
  <2> PICK next \in Nat : next = disk.rev + 1
    BY <2>2
  <2>3. disk' = disk \/ (disk.imp = "in_progress" /\ disk' = [disk EXCEPT !.imp = "failed", !.rev = next])
    BY <2>1
  <2>4. disk' = disk \/ (disk.imp = "in_progress" /\ disk'.imp = "failed" /\ disk'.rev = next)
    BY <2>2, <2>3 DEF ConfigSet
  <2>5. QED
    BY <2>2, <2>4 DEF CredentialsStep, ImportWhole, RevisionForward, ImportFinal
<1>3. CASE Importing
  BY <1>3, ImportSteps
<1>4. CASE Changing \/ Swapping \/ Removing
  BY <1>4, EntriesForward, ForwardIs
<1>5. QED
  BY <1>1, <1>2, <1>3, <1>4, OthersForward, ForwardIs DEF SettingsNext

(* What CredentialsStep says, of every step.                               *)
THEOREM CredentialsStepsSafe ==
  ASSUME SettingsAssumption
  PROVE  SettingsSpec => [][CredentialsStep]_pvars
<1>1. SettingsInit => CredentialsInv
  BY CredentialsInitKeeps
<1>2. CredentialsInv /\ [SettingsNext]_pvars => CredentialsInv'
  BY SettingsNextKeeps, StutterKeeps
<1>3. CredentialsInv /\ [SettingsNext]_pvars => [CredentialsStep]_pvars
  BY AllSteps
<1>4. QED
  BY <1>1, <1>2, <1>3, PTL DEF SettingsSpec
=============================================================================

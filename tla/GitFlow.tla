------------------------------- MODULE GitFlow -------------------------------
(***************************************************************************)
(* The Git step of a run, adapters/task_git.py and its supervisor          *)
(* git_process.py: the locks of a repository, one child process per git    *)
(* command, the fetch, updates, merges and pushes of a plan, the end that  *)
(* restores the working tree, and the reconciliation of a push.            *)
(*                                                                         *)
(* A branch is the set of changes it contains: a fast-forward needs the    *)
(* old set inside the new one, a merge is a union.  People commit, push    *)
(* and edit the working tree without any lock.                             *)
(***************************************************************************)
EXTENDS Integers, Sequences, FiniteSets, SequencesExt

CONSTANTS
  Flows,     \* runs of the Git step
  Keys,      \* flow -> the lock keys of its repository, sorted
  Branches,  \* branches the plan names
  Updates,   \* branches to fast-forward, in order
  Merges,    \* <<source, target>> rules, in order
  Pushes,    \* branches to push, in order
  Build,     \* the branch that is built
  Edits,     \* bound: changes that people make
  Faults     \* bound: failed commands, crashes

AllKeys == UNION {ToSet(Keys[p]) : p \in Flows}

PlanAssumption ==
  /\ "none" \notin Flows /\ \A p \in Flows : Keys[p] \in Seq(AllKeys)
  /\ Build \in Branches /\ Updates \in Seq(Branches) /\ Pushes \in Seq(Branches)
  /\ Merges \in Seq(Branches \X Branches)
  /\ "-" \notin Branches /\ Edits \in Nat /\ Faults \in Nat

VARIABLES
  lock,      \* key -> the flow whose file description holds it, or "none"
  heads,     \* the local branches
  tracking,  \* refs/remotes/origin
  remote,    \* the branches of origin
  at,        \* the branch that is checked out
  merging,   \* MERGE_HEAD exists
  dirty,     \* uncommitted changes
  f,         \* flow -> [pc, todo, orig, out, got, stop]
  effects,   \* journalled pushes: [flow, branch, commit, state]
  edits, faults

repo == <<heads, tracking, remote, at, merging, dirty>>
vars == <<lock, heads, tracking, remote, at, merging, dirty, f, effects, edits, faults>>

Base    == {0}

(* The commands of a plan, in order, two for each of its entries; checks   *)
(* are part of the commands.                                               *)
Commands ==
  LET Pairs(s) == 1..(2 * Len(s))
      Odd(i)   == i % 2 = 1
      Entry(i) == (i + 1) \div 2
  IN [i \in Pairs(Updates) |-> [do |-> IF Odd(i) THEN "checkout" ELSE "ff", branch |-> Updates[Entry(i)]]]
       \o [i \in Pairs(Merges) |-> IF Odd(i) THEN [do |-> "checkout", branch |-> Merges[Entry(i)][2]]
                                              ELSE [do |-> "merge", branch |-> Merges[Entry(i)][1]]]
       \o [i \in Pairs(Pushes) |-> [do |-> IF Odd(i) THEN "intent" ELSE "push", branch |-> Pushes[Entry(i)]]]

Fresh == [pc |-> "idle", todo |-> <<>>, orig |-> "-", out |-> "none", got |-> {}, stop |-> FALSE]

Init ==
  /\ lock = [k \in AllKeys |-> "none"]
  /\ heads = [b \in Branches |-> Base] /\ tracking = heads /\ remote = heads
  /\ at \in Branches /\ merging = FALSE /\ dirty = FALSE
  /\ f = [p \in Flows |-> Fresh] /\ effects = <<>>
  /\ edits = Edits /\ faults = Faults

At(p, pc)   == f[p].pc = pc
Go(p, pc)   == f' = [f EXCEPT ![p].pc = pc]
Held(p)     == {k \in AllKeys : lock[k] = p}
Release(p)  == lock' = [k \in AllKeys |-> IF lock[k] = p THEN "none" ELSE lock[k]]
Todo(p)     == Head(f[p].todo)
Doing(p, c) == At(p, "work") /\ f[p].todo # <<>> /\ Todo(p).do = c /\ ~f[p].stop
Next1(p)    == f' = [f EXCEPT ![p].todo = Tail(@)]
Faulty      == faults > 0 /\ faults' = faults - 1

(* A command fails or times out, or the cancellation kills it.             *)
Breaks(p)   == IF f[p].stop THEN UNCHANGED faults ELSE Faulty

-----------------------------------------------------------------------------
(* locked: the keys one by one in their order; a key somebody holds is     *)
(* waited for until the deadline or the cancellation.                      *)
Acquire(p) ==
  LET k == Keys[p][Cardinality(Held(p)) + 1] IN
  /\ At(p, "idle") /\ Cardinality(Held(p)) < Len(Keys[p])
  /\ ~f[p].stop /\ lock[k] = "none"
  /\ lock' = [lock EXCEPT ![k] = p]
  /\ UNCHANGED <<repo, f, effects, edits, faults>>

Busy(p) ==
  /\ At(p, "idle") /\ Cardinality(Held(p)) < Len(Keys[p])
  /\ f[p].stop \/ lock[Keys[p][Cardinality(Held(p)) + 1]] # "none"
  /\ f' = [f EXCEPT ![p].pc = "ended", ![p].out = IF f[p].stop THEN "cancelled" ELSE "busy"]
  /\ Release(p)
  /\ UNCHANGED <<repo, effects, edits, faults>>

(* check: no merge under way, nothing uncommitted; repeated before every   *)
(* checkout and push.                                                      *)
Clean == ~merging /\ ~dirty

(* The end of the commands: without an error nothing is left to report, an *)
(* error is kept while the original branch is checked out again.           *)
Fail(p, out) == f' = [f EXCEPT ![p].pc = "restore", ![p].out = out]

Begin(p) ==
  /\ At(p, "idle") /\ Cardinality(Held(p)) = Len(Keys[p])
  /\ IF Clean
       THEN f' = [f EXCEPT ![p].pc = "fetch", ![p].orig = at] /\ UNCHANGED lock
       ELSE f' = [f EXCEPT ![p].pc = "ended", ![p].out = "unsafe"] /\ Release(p)
  /\ UNCHANGED <<repo, effects, edits, faults>>

Fetch(p) ==
  /\ At(p, "fetch") /\ ~f[p].stop
  /\ tracking' = remote
  /\ f' = [f EXCEPT ![p].pc = "work", ![p].todo = Commands]
  /\ UNCHANGED <<lock, heads, remote, at, merging, dirty, effects, edits, faults>>

Checkout(p) ==
  /\ Doing(p, "checkout")
  /\ IF Clean THEN at' = Todo(p).branch /\ Next1(p) ELSE UNCHANGED at /\ Fail(p, "unsafe")
  /\ UNCHANGED <<lock, heads, tracking, remote, merging, dirty, effects, edits, faults>>

(* Mutant: the branch is reset to what was fetched.                        *)
FastForwardReset(p) ==
  /\ Doing(p, "ff")
  /\ heads' = [heads EXCEPT ![at] = tracking[Todo(p).branch]] /\ Next1(p)
  /\ UNCHANGED <<lock, tracking, remote, at, merging, dirty, effects, edits, faults>>

(* merge --ff-only: whatever is checked out by now is what moves.          *)
FastForward(p) ==
  /\ Doing(p, "ff")
  /\ IF heads[at] \subseteq tracking[Todo(p).branch]
       THEN heads' = [heads EXCEPT ![at] = tracking[Todo(p).branch]] /\ Next1(p)
       ELSE IF tracking[Todo(p).branch] \subseteq heads[at]
              THEN UNCHANGED heads /\ Next1(p)
              ELSE UNCHANGED heads /\ Fail(p, "failed")
  /\ UNCHANGED <<lock, tracking, remote, at, merging, dirty, effects, edits, faults>>

(* merge --no-edit of the fetched source; a conflict or a kill leaves a    *)
(* merge under way, which only this flow's abort ends.                     *)
Merge(p) ==
  /\ Doing(p, "merge") /\ ~dirty
  /\ heads' = [heads EXCEPT ![at] = @ \cup tracking[Todo(p).branch]]
  /\ Next1(p)
  /\ UNCHANGED <<lock, tracking, remote, at, merging, dirty, effects, edits, faults>>

MergeBreaks(p) ==
  /\ At(p, "work") /\ f[p].todo # <<>> /\ Todo(p).do = "merge"
  /\ \/ dirty /\ UNCHANGED faults /\ UNCHANGED merging
     \/ Breaks(p) /\ merging' = TRUE
  /\ Go(p, "abort")
  /\ UNCHANGED <<lock, heads, tracking, remote, at, dirty, effects, edits>>

(* Without a merge under way the abort fails, as when git fails.           *)
Abort(p) ==
  /\ At(p, "abort")
  /\ \/ /\ merging /\ merging' = FALSE
        /\ Fail(p, "failed")
        /\ UNCHANGED faults
     \/ /\ IF merging THEN Faulty ELSE UNCHANGED faults
        /\ Fail(p, "repo_needs_attention")
        /\ UNCHANGED merging
  /\ UNCHANGED <<lock, heads, tracking, remote, at, dirty, effects, edits>>

(* A push is journalled before it is sent.                                 *)
Intend(p) ==
  /\ Doing(p, "intent")
  /\ IF Clean
       THEN /\ effects' = Append(effects, [flow |-> p, branch |-> Todo(p).branch,
                                           commit |-> heads[Todo(p).branch], state |-> "intent"])
            /\ Next1(p)
       ELSE UNCHANGED effects /\ Fail(p, "unsafe")
  /\ UNCHANGED <<lock, repo, edits, faults>>

(* The push that the flow journalled last.                                 *)
Sets(p, st) ==
  LET i == CHOOSE i \in DOMAIN effects :
             effects[i].flow = p /\ \A j \in DOMAIN effects : effects[j].flow = p => j <= i
  IN effects' = [effects EXCEPT ![i].state = st]

(* origin takes a push that only adds to its branch.                       *)
Accepted(b) == remote[b] \subseteq heads[b]

(* Any error of the push leaves it, and the run, unknown: it may have      *)
(* arrived.                                                                *)
PushError == "unknown"

Push(p) ==
  LET b == Todo(p).branch IN
  /\ Doing(p, "push") /\ Accepted(b)
  /\ remote' = [remote EXCEPT ![b] = heads[b]]
  /\ Sets(p, "confirmed") /\ Next1(p)
  /\ UNCHANGED <<lock, heads, tracking, at, merging, dirty, edits, faults>>

PushBreaks(p) ==
  LET b == Todo(p).branch IN
  /\ At(p, "work") /\ f[p].todo # <<>> /\ Todo(p).do = "push"
  /\ \/ ~Accepted(b) /\ UNCHANGED <<remote, faults>>
     \/ Breaks(p) /\ Accepted(b) /\ remote' = [remote EXCEPT ![b] = heads[b]]
     \/ Breaks(p) /\ UNCHANGED remote
  /\ Sets(p, "unknown") /\ Fail(p, PushError)
  /\ UNCHANGED <<lock, heads, tracking, at, merging, dirty, edits>>

(* The commit to build is the local one, if origin has exactly that.       *)
Published(b) == remote[b] = heads[b]

Verify(p) ==
  /\ At(p, "work") /\ f[p].todo = <<>> /\ ~f[p].stop
  /\ IF Published(Build)
       THEN f' = [f EXCEPT ![p].pc = "restore", ![p].out = "done", ![p].got = heads[Build]]
       ELSE Fail(p, "plan_changed")
  /\ UNCHANGED <<lock, repo, effects, edits, faults>>

(* A command fails, times out or is cancelled: its child is killed and     *)
(* waited for.                                                             *)
CommandFails(p) ==
  /\ f[p].pc \in {"fetch", "work"} /\ (f[p].todo # <<>> => Todo(p).do \notin {"merge", "push"})
  /\ Breaks(p)
  /\ Fail(p, IF f[p].stop THEN "cancelled" ELSE "failed")
  /\ UNCHANGED <<lock, repo, effects, edits>>

Restored(p, out) ==
  /\ f' = [f EXCEPT ![p].pc = "ended", ![p].out = out]
  /\ Release(p)

(* The original branch again.  When that fails, the error is reported only *)
(* if there was none before.                                               *)
Restore(p) ==
  /\ At(p, "restore")
  /\ \/ /\ ~merging
        /\ at' = f[p].orig
        /\ Restored(p, f[p].out)
        /\ UNCHANGED faults
     \/ /\ merging \/ dirty
        /\ Restored(p, IF f[p].out = "done" THEN "repo_needs_attention" ELSE f[p].out)
        /\ UNCHANGED <<at, faults>>
  /\ UNCHANGED <<heads, tracking, remote, merging, dirty, effects, edits>>

(* Mutant: the locks go with the backend.                                  *)
CrashFrees(p) ==
  /\ f[p].pc \in {"fetch", "work", "abort", "restore"}
  /\ Faulty
  /\ Go(p, "orphan") /\ Release(p)
  /\ UNCHANGED <<repo, effects, edits>>

(* The backend dies: the file descriptions of the locks stay with the      *)
(* child and its supervisor until the group is gone.                       *)
Crash(p) ==
  /\ f[p].pc \in {"fetch", "work", "abort", "restore"}
  /\ Faulty
  /\ Go(p, "orphan")
  /\ UNCHANGED <<lock, repo, effects, edits>>

(* The child's command is done or not by the time it is gone.              *)
OrphanEnds(p) ==
  /\ At(p, "orphan")
  /\ \/ /\ f[p].todo # <<>> /\ Todo(p).do = "push" /\ Accepted(Todo(p).branch)
        /\ remote' = [remote EXCEPT ![Todo(p).branch] = heads[Todo(p).branch]]
        /\ UNCHANGED <<heads, merging, at>>
     \/ /\ f[p].todo # <<>> /\ Todo(p).do = "checkout" /\ Clean
        /\ at' = Todo(p).branch
        /\ UNCHANGED <<heads, remote, merging>>
     \/ /\ f[p].todo # <<>> /\ Todo(p).do = "merge" /\ ~dirty
        /\ \/ heads' = [heads EXCEPT ![at] = @ \cup tracking[Todo(p).branch]] /\ UNCHANGED merging
           \/ merging' = TRUE /\ UNCHANGED heads
        /\ UNCHANGED <<remote, at>>
     \/ UNCHANGED <<heads, remote, merging, at>>
  /\ f' = [f EXCEPT ![p].pc = "ended", ![p].out = "crashed", ![p].todo = <<>>]
  /\ Release(p)
  /\ UNCHANGED <<tracking, dirty, effects, edits, faults>>

(* reconcile: a push without an answer is confirmed when origin has        *)
(* exactly its commit, under the locks of the repository.                  *)
Reconcile(i) ==
  LET p == effects[i].flow IN
  /\ effects[i].state \in {"intent", "unknown"} /\ At(p, "ended")
  /\ \A k \in ToSet(Keys[p]) : lock[k] = "none"
  /\ Clean
  /\ remote[effects[i].branch] = effects[i].commit
  /\ effects' = [effects EXCEPT ![i].state = "confirmed"]
  /\ UNCHANGED <<lock, repo, f, edits, faults>>

Cancel(p) ==
  /\ ~f[p].stop /\ ~At(p, "ended")
  /\ f' = [f EXCEPT ![p].stop = TRUE]
  /\ UNCHANGED <<lock, repo, effects, edits, faults>>

(* People: a commit on the branch that is checked out, a push of their     *)
(* own to origin, an edit begun or put away.                               *)
People ==
  /\ edits > 0 /\ edits' = edits - 1
  /\ \/ /\ ~merging
        /\ heads' = [heads EXCEPT ![at] = @ \cup {edits}]
        /\ UNCHANGED <<remote, dirty>>
     \/ /\ \E b \in Branches : remote' = [remote EXCEPT ![b] = @ \cup {edits}]
        /\ UNCHANGED <<heads, dirty>>
     \/ /\ dirty' = ~dirty
        /\ UNCHANGED <<heads, remote>>
  /\ UNCHANGED <<lock, tracking, at, merging, f, effects, faults>>

Over == (\A p \in Flows : At(p, "ended")) /\ UNCHANGED vars

Step(p) ==
  \/ Acquire(p) \/ Busy(p) \/ Begin(p) \/ Fetch(p) \/ Checkout(p) \/ FastForward(p) \/ Merge(p)
  \/ MergeBreaks(p) \/ Abort(p) \/ Intend(p) \/ Push(p) \/ PushBreaks(p) \/ Verify(p) \/ Restore(p) \/ OrphanEnds(p)

Next ==
  \/ \E p \in Flows : Step(p) \/ CommandFails(p) \/ Crash(p) \/ Cancel(p)
  \/ \E i \in DOMAIN effects : Reconcile(i)
  \/ People \/ Over

Spec == Init /\ [][Next]_vars

-----------------------------------------------------------------------------
Outcomes == {"none", "done", "busy", "cancelled", "unsafe", "failed", "unknown", "plan_changed",
             "repo_needs_attention", "crashed"}

(* Locks belong to flows, branches and commands to the plan.               *)
GitTypeOK ==
  /\ lock \in [AllKeys -> Flows \cup {"none"}]
  /\ at \in Branches /\ merging \in BOOLEAN /\ dirty \in BOOLEAN
  /\ \A p \in Flows : /\ f[p].out \in Outcomes
                      /\ f[p].todo # <<>> => \E i \in DOMAIN Commands :
                           f[p].todo = SubSeq(Commands, i, Len(Commands))
  /\ \A i \in DOMAIN effects : effects[i].state \in {"intent", "unknown", "confirmed"}

(* Two flows never work on repositories that share a directory at the same *)
(* time, not even through a child that has outlived its backend (locked,   *)
(* git_process).                                                           *)
Working(p) == f[p].pc \in {"fetch", "work", "abort", "restore", "orphan"}
OneAtATime ==
  \A p, q \in Flows :
    p # q /\ Working(p) /\ Working(q) => ToSet(Keys[p]) \cap ToSet(Keys[q]) = {}

(* No commit is ever lost, neither of the user's branches nor of origin's  *)
(* (no reset, no forced push).                                             *)
NothingLost ==
  \A b \in Branches : heads[b] \subseteq heads'[b] /\ remote[b] \subseteq remote'[b]

(* What the journal holds for pushed is on origin (execute, reconcile).    *)
ConfirmedIsThere ==
  \A i \in DOMAIN effects :
    effects[i].state = "confirmed" => effects[i].commit \subseteq remote[effects[i].branch]

(* A flow that reports anything but an unknown end has no push of unknown  *)
(* fate (execute).                                                         *)
EndIsKnown ==
  \A p \in Flows : At(p, "ended") /\ f[p].out \notin {"unknown", "crashed"} =>
    \A i \in DOMAIN effects : effects[i].flow = p => effects[i].state = "confirmed"

(* The commit that a build is asked for is on origin (execute).            *)
DoneIsPublished == \A p \in Flows : f[p].out = "done" => f[p].got \subseteq remote[Build]

(* A half-done merge is one that its flow will abort, could not abort and  *)
(* said so, or was killed in (execute).                                    *)
MergeIsKnown ==
  merging => \E p \in Flows : \/ f[p].pc \in {"abort", "orphan"}
                              \/ f[p].out \in {"repo_needs_attention", "crashed"}

(* A flow that leaves another branch checked out than it found says that   *)
(* the repository needs attention (execute).                               *)
LeftIsTold ==
  [][\A p \in Flows : At(p, "restore") /\ f'[p].pc = "ended" =>
       at' = f[p].orig \/ f'[p].out = "repo_needs_attention"]_vars

(* Flows of one repository take turns, and what a flow reports of its      *)
(* pushes and of its working copy is so.                                   *)
GitSafe ==
  GitTypeOK /\ OneAtATime /\ ConfirmedIsThere /\ EndIsKnown /\ DoneIsPublished /\ MergeIsKnown
=============================================================================

---------------------------- MODULE GitFlowProofs ----------------------------
(***************************************************************************)
(* The Git step is safe for any number of flows and repositories, any plan *)
(* and any number of failures, deaths and changes that people make: flows  *)
(* of one repository take turns, a push that is recorded as confirmed is   *)
(* on origin, the end of a flow says what has become of its pushes and of  *)
(* its merge, and no step loses a commit.                                  *)
(*                                                                         *)
(* The event stream is safe for every journal, queue, page and history, any*)
(* number of commits and any client that keeps the numbers of its topic:   *)
(* what it delivers is in order and without a hole, over every cut.        *)
(***************************************************************************)
EXTENDS GitFlow, EventStream, FiniteSetTheorems, SequenceTheorems, WellFoundedInduction, TLAPS

-----------------------------------------------------------------------------
(* The invariant                                                           *)

(* Commits that people make are numbered by their bound.                   *)
Changes  == 0..Edits
Kinds    == {"checkout", "ff", "merge", "intent", "push"}
Command  == [do: Kinds, branch: Branches]
Pcs      == {"idle", "fetch", "work", "abort", "restore", "orphan", "ended"}
FlowType == [pc: Pcs, todo: Seq(Command), orig: Branches \cup {"-"}, out: Outcomes,
             got: SUBSET Changes, stop: BOOLEAN]
PushType == [flow: Flows, branch: Branches, commit: SUBSET Changes,
             state: {"intent", "unknown", "confirmed"}]

RepoTypes ==
  /\ heads \in [Branches -> SUBSET Changes]
  /\ tracking \in [Branches -> SUBSET Changes]
  /\ remote \in [Branches -> SUBSET Changes]
  /\ at \in Branches /\ merging \in BOOLEAN /\ dirty \in BOOLEAN /\ edits \in Changes
FlowTypes ==
  /\ f \in [Flows -> FlowType]
  /\ \A p \in Flows : f[p].pc \in {"fetch", "work", "abort", "restore"} => f[p].orig \in Branches

(* What is left to do is the end of the plan.                              *)
OnPlan(s) == s = <<>> \/ \E i \in DOMAIN Commands : s = SubSeq(Commands, i, Len(Commands))
PlanInv   == \A p \in Flows : OnPlan(f[p].todo)

(* A flow that waits holds a first part of its keys, one that works holds  *)
(* them all.                                                               *)
LocksOf(p) ==
  /\ f[p].pc = "idle" => /\ IsFiniteSet(Held(p)) /\ Cardinality(Held(p)) <= Len(Keys[p])
                         /\ Held(p) = {Keys[p][i] : i \in 1..Cardinality(Held(p))}
  /\ Working(p) => Held(p) = ToSet(Keys[p])
LockInv == lock \in [AllKeys -> Flows \cup {"none"}] /\ \A p \in Flows : LocksOf(p)

(* A push that is journalled was made of commits that its branch still     *)
(* has, and one that is confirmed is on origin.                            *)
EffectInv ==
  /\ effects \in Seq(PushType)
  /\ \A i \in DOMAIN effects : effects[i].commit \subseteq heads[effects[i].branch]
  /\ ConfirmedIsThere

(* The pushes of a flow are confirmed, but for the last one while it is    *)
(* sent; only a flow that says so, or has died, leaves one unconfirmed.    *)
Pushing(p)   == f[p].pc = "work" /\ f[p].todo # <<>> /\ Todo(p).do = "push"
Own(p)       == {i \in DOMAIN effects : effects[i].flow = p}
Confirmed(p) == \A i \in Own(p) : effects[i].state = "confirmed"
PushesOf(p) ==
  /\ f[p].pc \in {"idle", "fetch", "work", "abort"} => f[p].out = "none"
  /\ f[p].pc \in {"idle", "fetch"} => Own(p) = {} /\ f[p].todo = <<>>
  /\ Pushing(p) => \E i \in Own(p) :
       /\ effects[i].branch = Todo(p).branch
       /\ \A j \in Own(p) : j <= i /\ (j # i => effects[j].state = "confirmed")
  /\ f[p].pc = "abort" \/ (f[p].pc = "work" /\ ~Pushing(p)) => Confirmed(p)
  /\ f[p].pc = "restore" /\ f[p].out # "unknown" => Confirmed(p)
  /\ f[p].pc = "ended" /\ f[p].out \notin {"unknown", "crashed"} => Confirmed(p)
PushInv == \A p \in Flows : PushesOf(p)

GitInv ==
  /\ RepoTypes /\ FlowTypes /\ PlanInv /\ LockInv /\ EffectInv /\ PushInv
  /\ DoneIsPublished /\ MergeIsKnown
-----------------------------------------------------------------------------
(* The plan                                                                *)

(* The entries of three sequences that follow each other.                  *)
LEMMA Joined ==
  ASSUME NEW S, NEW A \in Seq(S), NEW B \in Seq(S), NEW D \in Seq(S)
  PROVE  /\ A \o B \o D \in Seq(S)
         /\ Len(A \o B \o D) = Len(A) + Len(B) + Len(D)
         /\ \A i \in 1..Len(A) : (A \o B \o D)[i] = A[i]
         /\ \A i \in 1..Len(B) : (A \o B \o D)[Len(A) + i] = B[i]
         /\ \A i \in 1..Len(D) : (A \o B \o D)[Len(A) + Len(B) + i] = D[i]
<1>1. A \o B \in Seq(S) /\ Len(A \o B) = Len(A) + Len(B)
  OBVIOUS
<1>2. /\ \A i \in 1..Len(A) : (A \o B)[i] = A[i]
      /\ \A i \in 1..Len(B) : (A \o B)[Len(A) + i] = B[i]
  OBVIOUS
<1>3. /\ A \o B \o D \in Seq(S) /\ Len(A \o B \o D) = Len(A \o B) + Len(D)
      /\ \A i \in 1..Len(A \o B) : (A \o B \o D)[i] = (A \o B)[i]
      /\ \A i \in 1..Len(D) : (A \o B \o D)[Len(A \o B) + i] = D[i]
  BY <1>1
<1> QED
  BY <1>1, <1>2, <1>3

(* Every entry of the plan is two commands.                                *)
LEMMA Entries ==
  ASSUME NEW n \in Nat, NEW i \in 1..(2 * n)
  PROVE  /\ (i + 1) \div 2 \in 1..n
         /\ i % 2 = 1 => i + 1 \in 1..(2 * n) /\ (i + 1) % 2 # 1 /\ (i + 2) \div 2 = (i + 1) \div 2
         /\ i % 2 # 1 => (i + 1) % 2 = 1
         /\ n # 0 => 1 \in 1..(2 * n)
  OBVIOUS

(* A push follows its record, and nothing else does.                       *)
Announced(s) ==
  /\ s # <<>> => s[1].do # "push"
  /\ \A i \in 1..Len(s) : s[i].do = "intent" =>
       i + 1 \in 1..Len(s) /\ s[i + 1] = [do |-> "push", branch |-> s[i].branch]
  /\ \A i \in 1..Len(s) : i + 1 \in 1..Len(s) /\ s[i].do # "intent" => s[i + 1].do # "push"

LEMMA CommandsAnnounced ==
  ASSUME PlanAssumption
  PROVE  Commands \in Seq(Command) /\ Announced(Commands)
<1>1. PICK A :
        A = [i \in 1..(2 * Len(Updates)) |->
               [do |-> IF i % 2 = 1 THEN "checkout" ELSE "ff", branch |-> Updates[(i + 1) \div 2]]]
  OBVIOUS
<1>2. PICK B :
        B = [i \in 1..(2 * Len(Merges)) |->
               IF i % 2 = 1 THEN [do |-> "checkout", branch |-> Merges[(i + 1) \div 2][2]]
                            ELSE [do |-> "merge", branch |-> Merges[(i + 1) \div 2][1]]]
  OBVIOUS
<1>3. PICK D :
        D = [i \in 1..(2 * Len(Pushes)) |->
               [do |-> IF i % 2 = 1 THEN "intent" ELSE "push", branch |-> Pushes[(i + 1) \div 2]]]
  OBVIOUS
<1>4. Commands = A \o B \o D
  BY <1>1, <1>2, <1>3 DEF Commands
<1>5. /\ A \in Seq(Command) /\ Len(A) \in Nat
      /\ \A i \in 1..Len(A) : A[i].do \notin {"intent", "push"}
  <2>1. \A i \in 1..(2 * Len(Updates)) : Updates[(i + 1) \div 2] \in Branches
    BY Entries DEF PlanAssumption
  <2>2. 2 * Len(Updates) \in Nat
    BY DEF PlanAssumption
  <2>3. A \in [1..(2 * Len(Updates)) -> Command]
    BY <1>1, <2>1 DEF Command, Kinds
  <2>4. A \in Seq(Command) /\ Len(A) = 2 * Len(Updates)
    BY <2>2, <2>3
  <2> QED
    BY <1>1, <2>2, <2>4
<1>6. /\ B \in Seq(Command) /\ Len(B) \in Nat
      /\ \A i \in 1..Len(B) : B[i].do \notin {"intent", "push"}
  <2>1. \A i \in 1..(2 * Len(Merges)) :
          Merges[(i + 1) \div 2][1] \in Branches /\ Merges[(i + 1) \div 2][2] \in Branches
    BY Entries DEF PlanAssumption
  <2>2. 2 * Len(Merges) \in Nat
    BY DEF PlanAssumption
  <2>3. B \in [1..(2 * Len(Merges)) -> Command]
    BY <1>2, <2>1 DEF Command, Kinds
  <2>4. B \in Seq(Command) /\ Len(B) = 2 * Len(Merges)
    BY <2>2, <2>3
  <2> QED
    BY <1>2, <2>2, <2>4
<1>7. D \in Seq(Command) /\ Len(D) \in Nat /\ Announced(D)
  <2>1. \A i \in 1..(2 * Len(Pushes)) : Pushes[(i + 1) \div 2] \in Branches
    BY Entries DEF PlanAssumption
  <2>2. 2 * Len(Pushes) \in Nat /\ Len(Pushes) \in Nat
    BY DEF PlanAssumption
  <2>3. D \in [1..(2 * Len(Pushes)) -> Command]
    BY <1>3, <2>1 DEF Command, Kinds
  <2>4. D \in Seq(Command) /\ Len(D) = 2 * Len(Pushes)
    BY <2>2, <2>3
  <2>5. ASSUME D # <<>> PROVE D[1].do # "push"
    <3>1. 1 \in 1..(2 * Len(Pushes)) /\ 1 % 2 = 1
      BY <2>2, <2>4, <2>5
    <3> QED
      BY <3>1, <1>3
  <2>6. ASSUME NEW i \in 1..Len(D), D[i].do = "intent"
        PROVE  i + 1 \in 1..Len(D) /\ D[i + 1] = [do |-> "push", branch |-> D[i].branch]
    <3>1. i % 2 = 1
      BY <1>3, <2>4, <2>6
    <3>2. i + 1 \in 1..Len(D) /\ (i + 1) % 2 # 1 /\ (i + 2) \div 2 = (i + 1) \div 2
      BY <2>2, <2>4, <3>1, Entries
    <3>3. (i + 1) + 1 = i + 2
      OBVIOUS
    <3> QED
      BY <1>3, <2>4, <3>1, <3>2, <3>3
  <2>7. ASSUME NEW i \in 1..Len(D), i + 1 \in 1..Len(D), D[i].do # "intent"
        PROVE  D[i + 1].do # "push"
    <3>1. i % 2 # 1
      BY <1>3, <2>4, <2>7
    <3>2. (i + 1) % 2 = 1
      BY <2>2, <2>4, <3>1, Entries
    <3> QED
      BY <1>3, <2>4, <2>7, <3>2
  <2> QED
    BY <2>2, <2>4, <2>5, <2>6, <2>7 DEF Announced
<1> DEFINE C == A \o B \o D
<1>8. /\ C \in Seq(Command) /\ Len(C) = Len(A) + Len(B) + Len(D)
      /\ \A i \in 1..Len(A) : C[i] = A[i]
      /\ \A i \in 1..Len(B) : C[Len(A) + i] = B[i]
      /\ \A i \in 1..Len(D) : C[Len(A) + Len(B) + i] = D[i]
  BY <1>5, <1>6, <1>7, Joined
<1> HIDE DEF C
<1>9. \A i \in 1..Len(C) : i <= Len(A) + Len(B) => C[i].do \notin {"intent", "push"}
  <2> SUFFICES ASSUME NEW i \in 1..Len(C), i <= Len(A) + Len(B) PROVE C[i].do \notin {"intent", "push"}
    OBVIOUS
  <2>1. CASE i <= Len(A)
    BY <1>5, <1>8, <2>1
  <2>2. CASE i > Len(A)
    <3>1. i - Len(A) \in 1..Len(B) /\ Len(A) + (i - Len(A)) = i
      BY <1>5, <1>6, <1>7, <1>8, <2>2
    <3> QED
      BY <1>6, <1>8, <3>1
  <2> QED
    BY <1>5, <2>1, <2>2
<1>10. \A i \in 1..Len(C) : i > Len(A) + Len(B) =>
         /\ i - (Len(A) + Len(B)) \in 1..Len(D) /\ C[i] = D[i - (Len(A) + Len(B))]
  <2> SUFFICES ASSUME NEW i \in 1..Len(C), i > Len(A) + Len(B)
               PROVE  i - (Len(A) + Len(B)) \in 1..Len(D) /\ C[i] = D[i - (Len(A) + Len(B))]
    OBVIOUS
  <2>1. i - (Len(A) + Len(B)) \in 1..Len(D) /\ Len(A) + Len(B) + (i - (Len(A) + Len(B))) = i
    BY <1>5, <1>6, <1>7, <1>8
  <2> QED
    BY <1>8, <2>1
<1>11. \A i \in 1..Len(C) : i > Len(A) + Len(B) /\ i + 1 \in 1..Len(C) =>
         C[i + 1] = D[i - (Len(A) + Len(B)) + 1] /\ i - (Len(A) + Len(B)) + 1 \in 1..Len(D)
  <2> SUFFICES ASSUME NEW i \in 1..Len(C), i > Len(A) + Len(B), i + 1 \in 1..Len(C)
               PROVE  C[i + 1] = D[i - (Len(A) + Len(B)) + 1] /\ i - (Len(A) + Len(B)) + 1 \in 1..Len(D)
    OBVIOUS
  <2>1. (i + 1) - (Len(A) + Len(B)) = i - (Len(A) + Len(B)) + 1 /\ i + 1 > Len(A) + Len(B)
    BY <1>5, <1>6, <1>7
  <2>2. i - (Len(A) + Len(B)) + 1 \in 1..Len(D)
    BY <1>10, <2>1
  <2> QED
    BY <1>10, <2>1, <2>2
<1>12. ASSUME C # <<>> PROVE C[1].do # "push"
  <2>1. 1 \in 1..Len(C)
    BY <1>8, <1>12
  <2>2. CASE 1 <= Len(A) + Len(B)
    BY <1>9, <2>1, <2>2
  <2>3. CASE 1 > Len(A) + Len(B)
    <3>1. 1 - (Len(A) + Len(B)) = 1
      BY <1>5, <1>6, <2>3
    <3>2. 1 \in 1..Len(D) /\ C[1] = D[1]
      BY <1>10, <2>1, <2>3, <3>1
    <3> QED
      BY <1>7, <3>2 DEF Announced
  <2> QED
    BY <1>5, <1>6, <2>2, <2>3
<1>13. ASSUME NEW i \in 1..Len(C), C[i].do = "intent"
       PROVE  i + 1 \in 1..Len(C) /\ C[i + 1] = [do |-> "push", branch |-> C[i].branch]
  <2>1. i > Len(A) + Len(B)
    BY <1>5, <1>6, <1>9, <1>13
  <2>2. /\ i - (Len(A) + Len(B)) \in 1..Len(D)
        /\ C[i] = D[i - (Len(A) + Len(B))]
    BY <1>10, <2>1
  <2>3. /\ i - (Len(A) + Len(B)) + 1 \in 1..Len(D)
        /\ D[i - (Len(A) + Len(B)) + 1] = [do |-> "push", branch |-> C[i].branch]
    BY <1>7, <1>13, <2>2 DEF Announced
  <2>4. i + 1 \in 1..Len(C)
    BY <1>5, <1>6, <1>7, <1>8, <2>3
  <2> QED
    BY <1>11, <2>1, <2>3, <2>4
<1>14. ASSUME NEW i \in 1..Len(C), i + 1 \in 1..Len(C), C[i].do # "intent"
       PROVE  C[i + 1].do # "push"
  <2>1. CASE i + 1 <= Len(A) + Len(B)
    BY <1>9, <1>14, <2>1
  <2>2. CASE i = Len(A) + Len(B)
    <3>1. i + 1 > Len(A) + Len(B) /\ (i + 1) - (Len(A) + Len(B)) = 1
      BY <1>5, <1>6, <2>2
    <3>2. 1 \in 1..Len(D) /\ C[i + 1] = D[1]
      BY <1>10, <1>14, <3>1
    <3> QED
      BY <1>7, <3>2 DEF Announced
  <2>3. CASE i > Len(A) + Len(B)
    <3>1. i - (Len(A) + Len(B)) \in 1..Len(D) /\ C[i] = D[i - (Len(A) + Len(B))]
      BY <1>10, <2>3
    <3>2. C[i + 1] = D[i - (Len(A) + Len(B)) + 1] /\ i - (Len(A) + Len(B)) + 1 \in 1..Len(D)
      BY <1>11, <1>14, <2>3
    <3> QED
      BY <1>7, <1>14, <3>1, <3>2 DEF Announced
  <2> QED
    BY <1>5, <1>6, <2>1, <2>2, <2>3
<1> QED
  BY <1>4, <1>8, <1>12, <1>13, <1>14 DEF Announced, C

(* The rest of a plan: its first command, and what follows it.             *)
LEMMA FirstCommand ==
  ASSUME PlanAssumption, NEW s, OnPlan(s), s # <<>>
  PROVE  /\ s \in Seq(Command) /\ Head(s) \in Command
         /\ Tail(s) \in Seq(Command) /\ OnPlan(Tail(s))
         /\ Head(s).do = "intent" =>
              Tail(s) # <<>> /\ Head(Tail(s)) = [do |-> "push", branch |-> Head(s).branch]
         /\ Head(s).do # "intent" /\ Tail(s) # <<>> => Head(Tail(s)).do # "push"
<1>1. PICK C \in Seq(Command) : C = Commands /\ Announced(C)
  BY CommandsAnnounced
<1>2. PICK i \in 1..Len(C) : s = SubSeq(C, i, Len(C))
  <2>1. \E i \in DOMAIN Commands : s = SubSeq(Commands, i, Len(Commands))
    BY DEF OnPlan
  <2>2. PICK i \in DOMAIN Commands : s = SubSeq(Commands, i, Len(Commands))
    BY <2>1
  <2>3. i \in 1..Len(C)
    BY <1>1
  <2>4. s = SubSeq(C, i, Len(C))
    BY <1>1, <2>2
  <2> QED
    BY <2>3, <2>4
<1>3. s \in Seq(Command) /\ Len(s) = Len(C) - i + 1 /\ \A j \in 1..Len(s) : s[j] = C[i + j - 1]
  BY <1>2
<1>4. Head(s) = C[i] /\ C[i] \in Command
  BY <1>2, <1>3
<1>5. PICK t \in Seq(Command) : t = Tail(s) /\ Len(t) = Len(s) - 1 /\ \A j \in 1..Len(t) : t[j] = s[j + 1]
  <2>1. Tail(s) \in Seq(Command)
    BY <1>3
  <2>2. Len(Tail(s)) = Len(s) - 1 /\ \A j \in 1..Len(Tail(s)) : Tail(s)[j] = s[j + 1]
    BY <1>3
  <2> QED
    BY <2>1, <2>2
<1>6. Len(t) = Len(C) - i /\ \A j \in 1..Len(t) : t[j] = C[i + j]
  BY <1>2, <1>3, <1>5
<1>7. CASE i = Len(C)
  <2>1. t = <<>>
    BY <1>2, <1>5, <1>6, <1>7
  <2>2. C[i].do # "intent"
    <3>1. i + 1 \notin 1..Len(C)
      BY <1>7
    <3> QED
      BY <1>1, <1>2, <3>1 DEF Announced
  <2>3. OnPlan(t)
    BY <2>1 DEF OnPlan
  <2> QED
    BY <1>3, <1>4, <1>5, <2>1, <2>2, <2>3
<1>8. CASE i # Len(C)
  <2>1. i + 1 \in 1..Len(C) /\ 1 \in 1..Len(t)
    BY <1>2, <1>6, <1>8
  <2>2. t # <<>> /\ Head(t) = C[i + 1]
    <3>1. t[1] = C[i + 1]
      BY <1>6, <2>1
    <3>2. t # <<>>
      BY <2>1
    <3>3. Head(t) = t[1]
      BY <1>5, <3>2
    <3> QED
      BY <3>1, <3>2, <3>3
  <2>3. PICK u \in Seq(Command) : u = SubSeq(C, i + 1, Len(C))
    <3>1. SubSeq(C, i + 1, Len(C)) \in Seq(Command)
      BY <2>1
    <3> QED
      BY <3>1
  <2>4. Len(u) = Len(C) - i /\ \A j \in 1..Len(u) : u[j] = C[i + j]
    BY <2>1, <2>3
  <2>5. t = u
    BY <1>5, <1>6, <2>3, <2>4, SeqEqual
  <2>6. OnPlan(t)
    <3>1. t = SubSeq(Commands, i + 1, Len(Commands)) /\ i + 1 \in DOMAIN Commands
      BY <1>1, <2>1, <2>3, <2>5
    <3> QED
      BY <3>1 DEF OnPlan
  <2>7. /\ C[i].do = "intent" => C[i + 1] = [do |-> "push", branch |-> C[i].branch]
        /\ C[i].do # "intent" => C[i + 1].do # "push"
    BY <1>1, <1>2, <2>1 DEF Announced
  <2> QED
    BY <1>3, <1>4, <1>5, <2>2, <2>6, <2>7
<1> QED
  BY <1>7, <1>8

LEMMA WholePlan ==
  ASSUME PlanAssumption
  PROVE  /\ Commands \in Seq(Command) /\ OnPlan(Commands)
         /\ Commands # <<>> => Head(Commands).do # "push"
<1>1. Commands \in Seq(Command) /\ Announced(Commands)
  BY CommandsAnnounced
<1>2. CASE Commands = <<>>
  BY <1>1, <1>2 DEF OnPlan
<1>3. CASE Commands # <<>>
  <2>1. 1 \in DOMAIN Commands /\ Commands = SubSeq(Commands, 1, Len(Commands))
        /\ Head(Commands) = Commands[1]
    BY <1>1, <1>3
  <2> QED
    BY <1>1, <1>3, <2>1 DEF OnPlan, Announced
<1> QED
  BY <1>2, <1>3

-----------------------------------------------------------------------------
(* The commands of a flow and its state                                    *)

Act(p) == Step(p) \/ CommandFails(p) \/ Crash(p) \/ Cancel(p)

(* The command that comes next names a branch of the plan.                 *)
LEMMA TodoTyped ==
  ASSUME PlanAssumption, PlanInv, NEW p \in Flows, f[p].todo # <<>>
  PROVE  Todo(p) \in Command /\ Todo(p).branch \in Branches
<1>1. Todo(p) \in Command
  BY FirstCommand DEF PlanInv, Todo
<1> QED
  BY <1>1 DEF Command

(* A step of a flow changes no other flow.                                 *)
LEMMA OneMoves ==
  ASSUME FlowTypes, NEW p \in Flows, Act(p)
  PROVE  \A q \in Flows : q # p => f'[q] = f[q]
  BY DEF FlowTypes, Act, Step, CommandFails, Crash, Cancel, Acquire, Busy, Begin, Fetch, Checkout,
         FastForward, Merge, MergeBreaks, Abort, Intend, Push, PushBreaks, Verify, Restore, OrphanEnds,
         Fail, Go, Next1, Restored
LEMMA OthersStay ==
  ASSUME FlowTypes, NEW p \in Flows, Act(p), f'[p] \in FlowType
  PROVE  f' \in [Flows -> FlowType]
<1>1. DOMAIN f' = Flows /\ f' = [q \in DOMAIN f' |-> f'[q]]
  BY DEF FlowTypes, Act, Step, CommandFails, Crash, Cancel, Acquire, Busy, Begin, Fetch, Checkout,
         FastForward, Merge, MergeBreaks, Abort, Intend, Push, PushBreaks, Verify, Restore, OrphanEnds,
         Fail, Go, Next1, Restored
<1>2. \A q \in Flows : f'[q] \in FlowType
  BY OneMoves DEF FlowTypes
<1> QED
  BY <1>1, <1>2

(* A flow stays what a flow is, and on its plan.                           *)
StaysTyped(p) ==
  /\ f'[p] \in FlowType
  /\ f'[p].pc \in {"fetch", "work", "abort", "restore"} => f'[p].orig \in Branches
  /\ OnPlan(f'[p].todo)

LEMMA FailedTyped ==
  ASSUME FlowTypes, PlanInv, NEW p \in Flows, f[p].pc \in {"fetch", "work", "abort"},
         NEW out \in Outcomes, f'[p] = [f[p] EXCEPT !.pc = "restore", !.out = out]
  PROVE  StaysTyped(p)
<1>1. f[p] \in FlowType
  BY DEF FlowTypes
<1>2. f'[p].todo = f[p].todo /\ f'[p].orig = f[p].orig
  BY <1>1 DEF FlowType
<1>3. f'[p] \in FlowType
  BY <1>1 DEF FlowType, Pcs
<1> QED
  BY <1>2, <1>3 DEF FlowTypes, PlanInv, StaysTyped

LEMMA EndedTyped ==
  ASSUME FlowTypes, PlanInv, NEW p \in Flows,
         NEW out \in Outcomes, f'[p] = [f[p] EXCEPT !.pc = "ended", !.out = out]
  PROVE  StaysTyped(p)
<1>1. f[p] \in FlowType
  BY DEF FlowTypes
<1>2. f'[p].todo = f[p].todo /\ f'[p].pc = "ended"
  BY <1>1 DEF FlowType
<1>3. f'[p] \in FlowType
  BY <1>1 DEF FlowType, Pcs
<1> QED
  BY <1>2, <1>3 DEF PlanInv, StaysTyped

LEMMA FailsTyped ==
  ASSUME FlowTypes, PlanInv, NEW p \in Flows, f[p].pc \in {"fetch", "work", "abort"},
         NEW out \in Outcomes, Fail(p, out)
  PROVE  StaysTyped(p)
<1>1. f'[p] = [f[p] EXCEPT !.pc = "restore", !.out = out]
  BY DEF FlowTypes, Fail
<1> QED
  BY <1>1, FailedTyped

LEMMA EndsTyped ==
  ASSUME FlowTypes, PlanInv, NEW p \in Flows, NEW out \in Outcomes,
         f' = [f EXCEPT ![p].pc = "ended", ![p].out = out]
  PROVE  StaysTyped(p)
<1>1. f'[p] = [f[p] EXCEPT !.pc = "ended", !.out = out]
  BY DEF FlowTypes
<1> QED
  BY <1>1, EndedTyped

LEMMA NextTyped ==
  ASSUME PlanAssumption, FlowTypes, PlanInv, NEW p \in Flows, f[p].pc = "work", f[p].todo # <<>>, Next1(p)
  PROVE  StaysTyped(p)
<1>1. PICK s \in Seq(Command) : s = Tail(f[p].todo) /\ OnPlan(s)
  BY FirstCommand DEF PlanInv
<1>2. f[p] \in FlowType /\ f'[p] = [f[p] EXCEPT !.todo = s]
  BY <1>1 DEF FlowTypes, Next1
<1>3. f'[p].todo = s /\ f'[p].orig = f[p].orig
  BY <1>2 DEF FlowType
<1>4. f'[p] \in FlowType
  BY <1>2 DEF FlowType
<1> QED
  BY <1>1, <1>3, <1>4 DEF FlowTypes, StaysTyped

LEMMA MovesTyped ==
  ASSUME FlowTypes, PlanInv, NEW p \in Flows, NEW pc \in Pcs, f' = [f EXCEPT ![p].pc = pc],
         f[p].pc \in {"fetch", "work", "abort", "restore"}
  PROVE  StaysTyped(p)
<1>1. f[p] \in FlowType /\ f'[p] = [f[p] EXCEPT !.pc = pc]
  BY DEF FlowTypes
<1>2. f'[p].todo = f[p].todo /\ f'[p].orig = f[p].orig
  BY <1>1 DEF FlowType
<1>3. f'[p] \in FlowType
  BY <1>1 DEF FlowType
<1> QED
  BY <1>2, <1>3 DEF FlowTypes, PlanInv, StaysTyped

LEMMA FlowStep ==
  ASSUME PlanAssumption, RepoTypes, FlowTypes, PlanInv, NEW p \in Flows, Act(p)
  PROVE  StaysTyped(p)
<1> USE DEF At
<1>1. CASE Acquire(p)
  BY <1>1 DEF Acquire, FlowTypes, PlanInv, StaysTyped
<1>2. CASE Busy(p)
  BY <1>2, EndsTyped DEF Busy, Outcomes
<1>3. CASE Begin(p)
  <2>1. CASE Clean
    <3>1. f[p] \in FlowType /\ f'[p] = [f[p] EXCEPT !.pc = "fetch", !.orig = at]
      BY <1>3, <2>1 DEF Begin, FlowTypes
    <3>2. f'[p].todo = f[p].todo /\ f'[p].orig = at
      BY <3>1 DEF FlowType
    <3>3. f'[p] \in FlowType
      BY <3>1 DEF FlowType, Pcs, RepoTypes
    <3> QED
      BY <3>2, <3>3 DEF RepoTypes, PlanInv, StaysTyped
  <2>2. CASE ~Clean
    BY <1>3, <2>2, EndsTyped DEF Begin, Outcomes
  <2> QED
    BY <2>1, <2>2
<1>4. CASE Fetch(p)
  <2>1. f[p] \in FlowType /\ f'[p] = [f[p] EXCEPT !.pc = "work", !.todo = Commands]
    BY <1>4 DEF Fetch, FlowTypes
  <2>2. f'[p].todo = Commands /\ f'[p].orig = f[p].orig
    BY <2>1 DEF FlowType
  <2>3. f'[p] \in FlowType
    BY <2>1, WholePlan DEF FlowType, Pcs
  <2> QED
    BY <1>4, <2>2, <2>3, WholePlan DEF Fetch, FlowTypes, StaysTyped
<1>5. CASE Checkout(p)
  <2>1. CASE Clean
    BY <1>5, <2>1, NextTyped DEF Checkout, Doing
  <2>2. CASE ~Clean
    BY <1>5, <2>2, FailsTyped DEF Checkout, Doing, Outcomes
  <2> QED
    BY <2>1, <2>2
<1>6. CASE FastForward(p)
  <2>1. CASE Next1(p)
    BY <1>6, <2>1, NextTyped DEF FastForward, Doing
  <2>2. CASE Fail(p, "failed")
    BY <1>6, <2>2, FailsTyped DEF FastForward, Doing, Outcomes
  <2> QED
    BY <1>6, <2>1, <2>2 DEF FastForward
<1>7. CASE Merge(p)
  BY <1>7, NextTyped DEF Merge, Doing
<1>8. CASE MergeBreaks(p)
  BY <1>8, MovesTyped DEF MergeBreaks, Go, Pcs
<1>9. CASE Abort(p)
  BY <1>9, FailsTyped DEF Abort, Outcomes
<1>10. CASE Intend(p)
  <2>1. CASE Clean
    BY <1>10, <2>1, NextTyped DEF Intend, Doing
  <2>2. CASE ~Clean
    BY <1>10, <2>2, FailsTyped DEF Intend, Doing, Outcomes
  <2> QED
    BY <2>1, <2>2
<1>11. CASE Push(p)
  BY <1>11, NextTyped DEF Push, Doing
<1>12. CASE PushBreaks(p)
  BY <1>12, FailsTyped DEF PushBreaks, PushError, Outcomes
<1>13. CASE Verify(p)
  <2>1. CASE Published(Build)
    <3>1. f[p] \in FlowType
          /\ f'[p] = [f[p] EXCEPT !.pc = "restore", !.out = "done", !.got = heads[Build]]
      BY <1>13, <2>1 DEF Verify, FlowTypes
    <3>2. f'[p].todo = f[p].todo /\ f'[p].orig = f[p].orig
      BY <3>1 DEF FlowType
    <3>3. heads[Build] \in SUBSET Changes
      BY DEF RepoTypes, PlanAssumption
    <3>4. f'[p] \in FlowType
      BY <3>1, <3>3 DEF FlowType, Pcs, Outcomes
    <3> QED
      BY <1>13, <3>2, <3>4 DEF Verify, FlowTypes, PlanInv, StaysTyped
  <2>2. CASE ~Published(Build)
    BY <1>13, <2>2, FailsTyped DEF Verify, Outcomes
  <2> QED
    BY <2>1, <2>2
<1>14. CASE Restore(p)
  <2>1. f[p].out \in Outcomes
    BY DEF FlowTypes, FlowType
  <2>2. PICK out \in Outcomes : Restored(p, out)
    BY <1>14, <2>1 DEF Restore, Outcomes
  <2> QED
    BY <2>2, EndsTyped DEF Restored
<1>15. CASE OrphanEnds(p)
  <2>0. PICK s \in Seq(Command) : s = <<>>
    <3>1. <<>> \in Seq(Command)
      OBVIOUS
    <3> QED
      BY <3>1
  <2>1. f[p] \in FlowType /\ f'[p] = [f[p] EXCEPT !.pc = "ended", !.out = "crashed", !.todo = s]
    <3>1. f' = [f EXCEPT ![p].pc = "ended", ![p].out = "crashed", ![p].todo = s]
      BY <1>15, <2>0 DEF OrphanEnds
    <3> QED
      BY <3>1 DEF FlowTypes
  <2>2. f'[p].todo = <<>> /\ f'[p].pc = "ended"
    BY <2>0, <2>1 DEF FlowType
  <2>3. "ended" \in Pcs /\ "crashed" \in Outcomes
    BY DEF Pcs, Outcomes
  <2>4. f'[p] \in FlowType
    BY <2>1, <2>3 DEF FlowType
  <2> QED
    BY <2>2, <2>4 DEF StaysTyped, OnPlan
<1>16. CASE CommandFails(p)
  <2>1. CASE f[p].stop
    BY <1>16, <2>1, FailsTyped DEF CommandFails, Outcomes
  <2>2. CASE ~f[p].stop
    BY <1>16, <2>2, FailsTyped DEF CommandFails, Outcomes
  <2> QED
    BY <2>1, <2>2
<1>17. CASE Crash(p)
  BY <1>17, MovesTyped DEF Crash, Go, Pcs
<1>18. CASE Cancel(p)
  <2>1. f[p] \in FlowType /\ f'[p] = [f[p] EXCEPT !.stop = TRUE]
    BY <1>18 DEF Cancel, FlowTypes
  <2>2. f'[p].todo = f[p].todo /\ f'[p].orig = f[p].orig /\ f'[p].pc = f[p].pc
    BY <2>1 DEF FlowType
  <2>3. f'[p] \in FlowType
    BY <2>1 DEF FlowType
  <2> QED
    BY <2>2, <2>3 DEF FlowTypes, PlanInv, StaysTyped
<1> QED
  BY <1>1, <1>2, <1>3, <1>4, <1>5, <1>6, <1>7, <1>8, <1>9, <1>10, <1>11, <1>12, <1>13, <1>14, <1>15, <1>16,
     <1>17, <1>18 DEF Act, Step

LEMMA FlowsStayTyped ==
  ASSUME PlanAssumption, RepoTypes, FlowTypes, PlanInv, Next
  PROVE  FlowTypes' /\ PlanInv'
<1>1. CASE \E p \in Flows : Act(p)
  <2>1. PICK p \in Flows : Act(p)
    BY <1>1
  <2>2. StaysTyped(p) /\ \A q \in Flows : q # p => f'[q] = f[q]
    BY <2>1, FlowStep, OneMoves
  <2>3. f' \in [Flows -> FlowType]
    BY <2>1, <2>2, OthersStay DEF StaysTyped
  <2>4. FlowTypes'
    BY <2>2, <2>3 DEF FlowTypes, StaysTyped
  <2>5. PlanInv'
    BY <2>2 DEF PlanInv, StaysTyped, OnPlan
  <2> QED
    BY <2>4, <2>5
<1>2. CASE f' = f
  BY <1>2 DEF FlowTypes, PlanInv, OnPlan
<1> QED
  BY <1>1, <1>2 DEF Next, Act, Reconcile, People, Over, vars

-----------------------------------------------------------------------------
(* The repository, and what is never lost                                  *)

(* A push to origin carries what the local branch has.                     *)
LEMMA Grows ==
  ASSUME RepoTypes, NEW b \in Branches, Accepted(b), remote' = [remote EXCEPT ![b] = heads[b]]
  PROVE  remote' \in [Branches -> SUBSET Changes] /\ \A c \in Branches : remote[c] \subseteq remote'[c]
  BY DEF RepoTypes, Accepted

LEMMA Advances ==
  ASSUME RepoTypes, NEW new \in SUBSET Changes, heads[at] \subseteq new, heads' = [heads EXCEPT ![at] = new]
  PROVE  heads' \in [Branches -> SUBSET Changes] /\ \A c \in Branches : heads[c] \subseteq heads'[c]
  BY DEF RepoTypes

LEMMA RepoStep ==
  ASSUME PlanAssumption, RepoTypes, FlowTypes, PlanInv, Next
  PROVE  RepoTypes' /\ NothingLost
<1>1. ASSUME UNCHANGED <<repo, edits>> PROVE RepoTypes' /\ NothingLost
  BY <1>1 DEF repo, RepoTypes, NothingLost
<1>2. ASSUME NEW p \in Flows, Act(p) PROVE RepoTypes' /\ NothingLost
  <2>1. CASE UNCHANGED <<repo, edits>>
    BY <2>1, <1>1
  <2>2. CASE Fetch(p)
    BY <2>2 DEF Fetch, RepoTypes, NothingLost
  <2>3. CASE Checkout(p)
    <3>1. Todo(p).branch \in Branches
      BY <2>3, TodoTyped DEF Checkout, Doing
    <3>2. at' \in Branches
      BY <2>3, <3>1 DEF Checkout, RepoTypes
    <3> QED
      BY <2>3, <3>2 DEF Checkout, RepoTypes, NothingLost
  <2>4. CASE FastForward(p)
    <3>1. Todo(p).branch \in Branches
      BY <2>4, TodoTyped DEF FastForward, Doing
    <3>2. tracking[Todo(p).branch] \in SUBSET Changes
      BY <3>1 DEF RepoTypes
    <3>3. CASE heads[at] \subseteq tracking[Todo(p).branch]
      <4>1. heads' \in [Branches -> SUBSET Changes] /\ \A c \in Branches : heads[c] \subseteq heads'[c]
        BY <2>4, <3>2, <3>3, Advances DEF FastForward
      <4> QED
        BY <2>4, <4>1 DEF FastForward, RepoTypes, NothingLost
    <3>4. CASE ~(heads[at] \subseteq tracking[Todo(p).branch])
      BY <2>4, <3>4 DEF FastForward, RepoTypes, NothingLost
    <3> QED
      BY <3>3, <3>4
  <2>5. CASE Merge(p)
    <3>1. Todo(p).branch \in Branches
      BY <2>5, TodoTyped DEF Merge, Doing
    <3>2. heads[at] \cup tracking[Todo(p).branch] \in SUBSET Changes
      BY <3>1 DEF RepoTypes
    <3>3. heads' = [heads EXCEPT ![at] = heads[at] \cup tracking[Todo(p).branch]]
      BY <2>5 DEF Merge
    <3>4. heads' \in [Branches -> SUBSET Changes] /\ \A c \in Branches : heads[c] \subseteq heads'[c]
      BY <3>2, <3>3, Advances
    <3> QED
      BY <2>5, <3>4 DEF Merge, RepoTypes, NothingLost
  <2>6. CASE MergeBreaks(p) \/ Abort(p)
    <3>1. /\ UNCHANGED <<heads, tracking, remote, at, dirty, edits>>
          /\ merging' \in BOOLEAN
      BY <2>6 DEF MergeBreaks, Abort, RepoTypes
    <3> QED
      BY <3>1 DEF RepoTypes, NothingLost
  <2>7. CASE Push(p)
    <3>1. Todo(p).branch \in Branches
      BY <2>7, TodoTyped DEF Push, Doing
    <3>2. remote' \in [Branches -> SUBSET Changes] /\ \A c \in Branches : remote[c] \subseteq remote'[c]
      BY <2>7, <3>1, Grows DEF Push
    <3> QED
      BY <2>7, <3>2 DEF Push, RepoTypes, NothingLost
  <2>8. CASE PushBreaks(p)
    <3>1. Todo(p).branch \in Branches
      BY <2>8, TodoTyped DEF PushBreaks
    <3>2. \/ UNCHANGED remote
          \/ Accepted(Todo(p).branch) /\ remote' = [remote EXCEPT ![Todo(p).branch] = heads[Todo(p).branch]]
      BY <2>8 DEF PushBreaks
    <3>3. remote' \in [Branches -> SUBSET Changes] /\ \A c \in Branches : remote[c] \subseteq remote'[c]
      BY <3>1, <3>2, Grows DEF RepoTypes
    <3> QED
      BY <2>8, <3>3 DEF PushBreaks, RepoTypes, NothingLost
  <2>9. CASE Restore(p)
    <3>1. f[p].orig \in Branches
      BY <2>9 DEF Restore, At, FlowTypes
    <3>2. at' \in Branches
      BY <2>9, <3>1 DEF Restore, RepoTypes
    <3> QED
      BY <2>9, <3>2 DEF Restore, RepoTypes, NothingLost
  <2>10. CASE OrphanEnds(p)
    <3>1. UNCHANGED <<tracking, dirty, edits>>
      BY <2>10 DEF OrphanEnds
    <3>2. f[p].todo # <<>> => Todo(p).branch \in Branches
      BY TodoTyped
    <3>3. CASE /\ f[p].todo # <<>> /\ Accepted(Todo(p).branch)
               /\ remote' = [remote EXCEPT ![Todo(p).branch] = heads[Todo(p).branch]]
               /\ UNCHANGED <<heads, merging, at>>
      <4>1. remote' \in [Branches -> SUBSET Changes] /\ \A c \in Branches : remote[c] \subseteq remote'[c]
        BY <3>2, <3>3, Grows
      <4> QED
        BY <3>1, <3>3, <4>1 DEF RepoTypes, NothingLost
    <3>4. CASE f[p].todo # <<>> /\ at' = Todo(p).branch /\ UNCHANGED <<heads, remote, merging>>
      BY <3>1, <3>2, <3>4 DEF RepoTypes, NothingLost
    <3>5. CASE /\ f[p].todo # <<>> /\ heads' = [heads EXCEPT ![at] = heads[at] \cup tracking[Todo(p).branch]]
               /\ UNCHANGED <<merging, remote, at>>
      <4>1. heads[at] \cup tracking[Todo(p).branch] \in SUBSET Changes
        BY <3>2, <3>5 DEF RepoTypes
      <4>2. heads' \in [Branches -> SUBSET Changes] /\ \A c \in Branches : heads[c] \subseteq heads'[c]
        BY <3>5, <4>1, Advances
      <4> QED
        BY <3>1, <3>5, <4>2 DEF RepoTypes, NothingLost
    <3>6. CASE merging' = TRUE /\ UNCHANGED <<heads, remote, at>>
      BY <3>1, <3>6 DEF RepoTypes, NothingLost
    <3>7. CASE UNCHANGED <<heads, remote, merging, at>>
      BY <3>1, <3>7 DEF RepoTypes, NothingLost
    <3> QED
      BY <2>10, <3>3, <3>4, <3>5, <3>6, <3>7 DEF OrphanEnds
  <2>11. \/ UNCHANGED <<repo, edits>>
         \/ Fetch(p) \/ Checkout(p) \/ FastForward(p) \/ Merge(p) \/ MergeBreaks(p) \/ Abort(p)
         \/ Push(p) \/ PushBreaks(p) \/ Restore(p) \/ OrphanEnds(p)
    BY <1>2 DEF Act, Step, Acquire, Busy, Begin, Intend, Verify, CommandFails, Crash, Cancel
  <2> QED
    BY <2>1, <2>2, <2>3, <2>4, <2>5, <2>6, <2>7, <2>8, <2>9, <2>10, <2>11
<1>3. ASSUME NEW i \in DOMAIN effects, Reconcile(i) PROVE RepoTypes' /\ NothingLost
  BY <1>1, <1>3 DEF Reconcile
<1>4. ASSUME People PROVE RepoTypes' /\ NothingLost
  <2>1. edits \in Nat /\ edits > 0 /\ edits' = edits - 1 /\ edits \in Changes /\ edits' \in Changes
    BY <1>4 DEF People, RepoTypes, Changes, PlanAssumption
  <2>2. UNCHANGED <<tracking, at, merging>>
    BY <1>4 DEF People
  <2>3. CASE heads' = [heads EXCEPT ![at] = heads[at] \cup {edits}] /\ UNCHANGED <<remote, dirty>>
    <3>1. heads[at] \cup {edits} \in SUBSET Changes
      BY <2>1 DEF RepoTypes
    <3>2. heads' \in [Branches -> SUBSET Changes] /\ \A c \in Branches : heads[c] \subseteq heads'[c]
      BY <2>3, <3>1, Advances
    <3> QED
      BY <2>1, <2>2, <2>3, <3>2 DEF RepoTypes, NothingLost
  <2>4. ASSUME NEW b \in Branches, remote' = [remote EXCEPT ![b] = remote[b] \cup {edits}], UNCHANGED <<heads, dirty>>
        PROVE  RepoTypes' /\ NothingLost
    <3>1. remote' \in [Branches -> SUBSET Changes] /\ \A c \in Branches : remote[c] \subseteq remote'[c]
      BY <2>1, <2>4 DEF RepoTypes
    <3> QED
      BY <2>1, <2>2, <2>4, <3>1 DEF RepoTypes, NothingLost
  <2>5. CASE dirty' = ~dirty /\ UNCHANGED <<heads, remote>>
    BY <2>1, <2>2, <2>5 DEF RepoTypes, NothingLost
  <2> QED
    BY <1>4, <2>3, <2>4, <2>5 DEF People
<1>5. CASE Over
  BY <1>1, <1>5 DEF Over, vars, repo
<1>6. (\E p \in Flows : Act(p)) \/ (\E i \in DOMAIN effects : Reconcile(i)) \/ People \/ Over
  BY DEF Next, Act
<1>7. CASE \E p \in Flows : Act(p)
  BY <1>2, <1>7
<1>8. CASE \E i \in DOMAIN effects : Reconcile(i)
  BY <1>3, <1>8
<1> QED
  BY <1>4, <1>5, <1>6, <1>7, <1>8

-----------------------------------------------------------------------------
(* The locks                                                               *)

LEMMA HeldIn ==
  ASSUME PlanAssumption, NEW p \in Flows
  PROVE  ToSet(Keys[p]) \subseteq AllKeys /\ Keys[p] \in Seq(AllKeys) /\ p # "none"
         /\ ToSet(Keys[p]) = {Keys[p][i] : i \in 1..Len(Keys[p])}
<1>1. Keys[p] \in Seq(AllKeys) /\ p # "none"
  BY DEF PlanAssumption
<1>2. ToSet(Keys[p]) = {Keys[p][i] : i \in 1..Len(Keys[p])}
  BY <1>1 DEF ToSet
<1>3. ToSet(Keys[p]) \subseteq AllKeys
  BY <1>1, <1>2
<1> QED
  BY <1>1, <1>2, <1>3

(* A release touches no other flow.                                        *)
LEMMA ReleaseKeeps ==
  ASSUME PlanAssumption, LockInv, NEW p \in Flows, Release(p)
  PROVE  /\ lock' \in [AllKeys -> Flows \cup {"none"}]
         /\ \A q \in Flows : q # p => Held(q)' = Held(q)
  BY HeldIn DEF LockInv, Release, Held

LEMMA LockKeeps ==
  ASSUME NEW q \in Flows, LocksOf(q), Held(q)' = Held(q), f'[q].pc = f[q].pc
  PROVE  LocksOf(q)'
  BY DEF LocksOf, Working

(* A flow takes the key that follows the ones it has.                      *)
LEMMA AcquireStep ==
  ASSUME PlanAssumption, LockInv, NEW p \in Flows, Acquire(p)
  PROVE  LockInv'
<1>1. PICK n \in Nat : n = Cardinality(Held(p)) /\ IsFiniteSet(Held(p)) /\ n < Len(Keys[p])
                       /\ Held(p) = {Keys[p][i] : i \in 1..n}
  BY FS_CardinalityType DEF Acquire, At, LockInv, LocksOf
<1>2. PICK k : k = Keys[p][n + 1] /\ k \in AllKeys /\ lock[k] = "none" /\ lock' = [lock EXCEPT ![k] = p]
  <2>1. n + 1 \in 1..Len(Keys[p])
    BY <1>1, HeldIn
  <2>2. Keys[p][n + 1] \in AllKeys
    BY <2>1, HeldIn
  <2> QED
    BY <1>1, <2>2 DEF Acquire
<1>3. lock' \in [AllKeys -> Flows \cup {"none"}]
  BY <1>2 DEF LockInv
<1>4. \A q \in Flows : q # p => Held(q)' = Held(q)
  BY <1>2, HeldIn DEF Held, LockInv
<1>5. Held(p)' = Held(p) \cup {k} /\ k \notin Held(p)
  BY <1>2, HeldIn DEF Held, LockInv
<1>6. IsFiniteSet(Held(p)') /\ Cardinality(Held(p)') = n + 1
  <2>1. PICK S : S = Held(p)
    OBVIOUS
  <2>2. IsFiniteSet(S \cup {k}) /\ Cardinality(S \cup {k}) = n + 1
    BY <1>1, <1>5, <2>1, FS_AddElement
  <2> QED
    BY <1>5, <2>1, <2>2
<1>7. Held(p)' = {Keys[p][i] : i \in 1..(n + 1)}
  <2>1. 1..(n + 1) = (1..n) \cup {n + 1}
    OBVIOUS
  <2>2. {Keys[p][i] : i \in 1..(n + 1)} = {Keys[p][i] : i \in 1..n} \cup {Keys[p][n + 1]}
    BY <2>1, Zenon
  <2> QED
    BY <1>1, <1>2, <1>5, <2>2
<1>8. f' = f /\ f[p].pc = "idle"
  BY DEF Acquire, At
<1>9. n + 1 <= Len(Keys[p])
  BY <1>1, HeldIn
<1>10. LocksOf(p)'
  BY <1>6, <1>7, <1>8, <1>9 DEF LocksOf, Working
<1>11. \A q \in Flows : q # p => LocksOf(q)'
  BY <1>4, <1>8, LockKeeps DEF LockInv
<1> QED
  BY <1>3, <1>10, <1>11 DEF LockInv

(* Whoever holds all of its keys may start; whoever ends gives them back.  *)
LEMMA LockStep ==
  ASSUME PlanAssumption, FlowTypes, FlowTypes', LockInv, Next
  PROVE  LockInv'
<1>1. ASSUME NEW p \in Flows, Act(p) PROVE LockInv'
  <2>1. \A q \in Flows : q # p => f'[q] = f[q]
    BY <1>1, OneMoves
  <2>2. ASSUME UNCHANGED lock, LocksOf(p)' PROVE LockInv'
    <3>1. \A q \in Flows : Held(q)' = Held(q)
      BY <2>2 DEF Held
    <3>2. \A q \in Flows : q # p => LocksOf(q)'
      BY <2>1, <3>1, LockKeeps DEF LockInv
    <3> QED
      BY <2>2, <3>2 DEF LockInv
  <2>3. ASSUME Release(p), f'[p].pc = "ended" PROVE LockInv'
    <3>1. /\ lock' \in [AllKeys -> Flows \cup {"none"}]
          /\ \A q \in Flows : q # p => Held(q)' = Held(q)
      BY <2>3, ReleaseKeeps
    <3>2. \A q \in Flows : q # p => LocksOf(q)'
      BY <2>1, <3>1, LockKeeps DEF LockInv
    <3>3. LocksOf(p)'
      BY <2>3 DEF LocksOf, Working
    <3> QED
      BY <3>1, <3>2, <3>3 DEF LockInv
  <2>4. f[p] \in FlowType
    BY DEF FlowTypes
  <2>5. CASE Acquire(p)
    BY <2>5, AcquireStep
  <2>6. CASE Busy(p)
    <3>1. f'[p].pc = "ended"
      BY <2>4, <2>6 DEF Busy, FlowTypes, FlowType
    <3> QED
      BY <2>3, <2>6, <3>1 DEF Busy
  <2>7. CASE Begin(p) /\ ~Clean
    <3>1. f'[p].pc = "ended"
      BY <2>4, <2>7 DEF Begin, FlowTypes, FlowType
    <3> QED
      BY <2>3, <2>7, <3>1 DEF Begin
  <2>8. CASE Begin(p) /\ Clean
    <3>1. f'[p].pc = "fetch" /\ UNCHANGED lock
      BY <2>4, <2>8 DEF Begin, FlowTypes, FlowType
    <3>2. Held(p) = ToSet(Keys[p])
      BY <2>8, HeldIn DEF Begin, At, LockInv, LocksOf
    <3>3. LocksOf(p)'
      BY <3>1, <3>2 DEF LocksOf, Held, Working
    <3> QED
      BY <2>2, <3>1, <3>3
  <2>9. CASE Restore(p) \/ OrphanEnds(p)
    <3>1. Release(p)
      BY <2>9 DEF Restore, Restored, OrphanEnds
    <3>2. f'[p].pc = "ended"
      <4>1. CASE Restore(p)
        BY <2>4, <4>1 DEF Restore, Restored, FlowTypes, FlowType
      <4>2. CASE OrphanEnds(p)
        <5>1. f' = [f EXCEPT ![p].pc = "ended", ![p].out = "crashed", ![p].todo = <<>>]
          BY <4>2 DEF OrphanEnds
        <5> QED
          BY <2>4, <5>1 DEF FlowTypes, FlowType
      <4> QED
        BY <2>9, <4>1, <4>2
    <3> QED
      BY <2>3, <3>1, <3>2
  <2>10. CASE Cancel(p)
    <3>1. f'[p].pc = f[p].pc /\ UNCHANGED lock
      BY <2>4, <2>10 DEF Cancel, FlowTypes, FlowType
    <3>2. LocksOf(p)'
      BY <3>1, LockKeeps DEF LockInv, Held
    <3> QED
      BY <2>2, <3>1, <3>2
  <2>11. CASE /\ UNCHANGED lock
              /\ Working(p) /\ f'[p].pc # "idle"
    <3>1. Held(p)' = ToSet(Keys[p])
      BY <2>11 DEF LockInv, LocksOf, Held
    <3>2. LocksOf(p)'
      BY <2>11, <3>1 DEF LocksOf
    <3> QED
      BY <2>2, <2>11, <3>2
  <2>12. \/ Acquire(p) \/ Busy(p) \/ Begin(p) \/ Restore(p) \/ OrphanEnds(p) \/ Cancel(p)
         \/ /\ UNCHANGED lock
            /\ Working(p) /\ f'[p].pc # "idle"
    <3>1. CASE Fetch(p)
      BY <2>4, <3>1 DEF Fetch, At, Working, FlowTypes, FlowType
    <3>2. CASE Checkout(p) \/ FastForward(p) \/ Merge(p) \/ Intend(p) \/ Push(p)
      <4>1. UNCHANGED lock /\ f[p].pc = "work"
        BY <3>2 DEF Checkout, FastForward, Merge, Intend, Push, Doing, At
      <4>2. Next1(p) \/ \E out \in Outcomes : Fail(p, out)
        BY <3>2 DEF Checkout, FastForward, Merge, Intend, Push, Outcomes
      <4>3. f'[p].pc \in {"work", "restore"}
        <5>1. CASE Next1(p)
          BY <2>4, <4>1, <5>1 DEF Next1, FlowTypes, FlowType
        <5>2. CASE \E out \in Outcomes : Fail(p, out)
          BY <2>4, <5>2 DEF Fail, FlowTypes, FlowType
        <5> QED
          BY <4>2, <5>1, <5>2
      <4> QED
        BY <4>1, <4>3 DEF Working
    <3>3. CASE MergeBreaks(p) \/ Crash(p)
      BY <2>4, <3>3 DEF MergeBreaks, Crash, Go, At, Working, FlowTypes, FlowType
    <3>4. CASE Abort(p) \/ PushBreaks(p) \/ CommandFails(p) \/ Verify(p)
      <4>1. UNCHANGED lock /\ f[p].pc \in {"fetch", "work", "abort"}
        BY <3>4 DEF Abort, PushBreaks, CommandFails, Verify, At
      <4>2. f'[p].pc = "restore"
        BY <2>4, <3>4 DEF Abort, PushBreaks, CommandFails, Verify, Fail, FlowTypes, FlowType
      <4> QED
        BY <4>1, <4>2 DEF Working
    <3> QED
      BY <1>1, <3>1, <3>2, <3>3, <3>4 DEF Act, Step
  <2> QED
    BY <2>5, <2>6, <2>7, <2>8, <2>9, <2>10, <2>11, <2>12
<1>2. CASE UNCHANGED <<lock, f>>
  BY <1>2 DEF LockInv, LocksOf, Held, Working
<1> QED
  BY <1>1, <1>2 DEF Next, Act, Reconcile, People, Over, vars

(* Two flows that work share no key.                                       *)
LEMMA LocksExclude ==
  ASSUME PlanAssumption, LockInv
  PROVE  OneAtATime
<1> SUFFICES ASSUME NEW p \in Flows, NEW q \in Flows, p # q, Working(p), Working(q),
                    NEW k \in ToSet(Keys[p]), k \in ToSet(Keys[q])
             PROVE  FALSE
  BY DEF OneAtATime
<1>1. k \in Held(p) /\ k \in Held(q)
  BY DEF LockInv, LocksOf
<1> QED
  BY <1>1 DEF Held

-----------------------------------------------------------------------------
(* What a step makes of its flow                                           *)

Became(p, pc, out, todo) ==
  f'[p].pc = pc /\ f'[p].out = out /\ f'[p].todo = todo /\ f'[p].got = f[p].got

LEMMA FailMakes ==
  ASSUME FlowTypes, NEW p \in Flows, NEW out, Fail(p, out)
  PROVE  Became(p, "restore", out, f[p].todo)
<1>1. PICK r \in FlowType : r = f[p]
  BY DEF FlowTypes
<1>2. PICK e : e = f'[p] /\ e = [r EXCEPT !.pc = "restore", !.out = out]
  BY <1>1 DEF FlowTypes, Fail
<1>3. e.pc = "restore" /\ e.out = out /\ e.todo = r.todo /\ e.got = r.got
  BY <1>2 DEF FlowType
<1> QED
  BY <1>1, <1>2, <1>3 DEF Became

LEMMA EndMakes ==
  ASSUME FlowTypes, NEW p \in Flows, NEW out, f' = [f EXCEPT ![p].pc = "ended", ![p].out = out]
  PROVE  Became(p, "ended", out, f[p].todo)
<1>1. PICK r \in FlowType : r = f[p]
  BY DEF FlowTypes
<1>2. PICK e : e = f'[p] /\ e = [r EXCEPT !.pc = "ended", !.out = out]
  BY <1>1 DEF FlowTypes
<1>3. e.pc = "ended" /\ e.out = out /\ e.todo = r.todo /\ e.got = r.got
  BY <1>2 DEF FlowType
<1> QED
  BY <1>1, <1>2, <1>3 DEF Became

LEMMA NextMakes ==
  ASSUME FlowTypes, NEW p \in Flows, Next1(p)
  PROVE  Became(p, f[p].pc, f[p].out, Tail(f[p].todo))
<1>1. PICK s : s = Tail(f[p].todo)
  OBVIOUS
<1>2. f[p] \in FlowType /\ f'[p] = [f[p] EXCEPT !.todo = s]
  BY <1>1 DEF FlowTypes, Next1
<1> QED
  BY <1>1, <1>2 DEF FlowType, Became

LEMMA GoMakes ==
  ASSUME FlowTypes, NEW p \in Flows, NEW pc, f' = [f EXCEPT ![p].pc = pc]
  PROVE  Became(p, pc, f[p].out, f[p].todo)
<1>1. f[p] \in FlowType /\ f'[p] = [f[p] EXCEPT !.pc = pc]
  BY DEF FlowTypes
<1> QED
  BY <1>1 DEF FlowType, Became

LEMMA CrashMakes ==
  ASSUME FlowTypes, NEW p \in Flows, OrphanEnds(p)
  PROVE  Became(p, "ended", "crashed", <<>>) /\ f[p].pc = "orphan"
<1>1. f' = [f EXCEPT ![p].pc = "ended", ![p].out = "crashed", ![p].todo = <<>>] /\ f[p].pc = "orphan"
  BY DEF OrphanEnds, At
<1>2. PICK r \in FlowType : r = f[p]
  BY DEF FlowTypes
<1>3. PICK s : s = <<>>
  OBVIOUS
<1>4. f'[p] = [r EXCEPT !.pc = "ended", !.out = "crashed", !.todo = s]
  BY <1>1, <1>2, <1>3 DEF FlowTypes
<1>5. f'[p].pc = "ended" /\ f'[p].out = "crashed" /\ f'[p].todo = s /\ f'[p].got = r.got
  BY <1>2, <1>4 DEF FlowType
<1> QED
  BY <1>1, <1>2, <1>3, <1>5 DEF Became

LEMMA BeginMakes ==
  ASSUME FlowTypes, NEW p \in Flows, Begin(p)
  PROVE  /\ f[p].pc = "idle"
         /\ Became(p, "fetch", f[p].out, f[p].todo) \/ Became(p, "ended", "unsafe", f[p].todo)
<1>1. CASE Clean
  <2>1. f[p] \in FlowType /\ f'[p] = [f[p] EXCEPT !.pc = "fetch", !.orig = at]
    BY <1>1 DEF Begin, FlowTypes
  <2> QED
    BY <2>1 DEF FlowType, Became, Begin, At
<1>2. CASE ~Clean
  BY <1>2, EndMakes DEF Begin, At
<1> QED
  BY <1>1, <1>2

LEMMA FetchMakes ==
  ASSUME FlowTypes, NEW p \in Flows, Fetch(p)
  PROVE  f[p].pc = "fetch" /\ Became(p, "work", f[p].out, Commands)
<1>1. PICK s : s = Commands
  OBVIOUS
<1>2. PICK r \in FlowType : r = f[p]
  BY DEF FlowTypes
<1>3. PICK e : e = f'[p] /\ e = [r EXCEPT !.pc = "work", !.todo = s]
  BY <1>1, <1>2 DEF Fetch, FlowTypes
<1>4. e.pc = "work" /\ e.out = r.out /\ e.todo = s /\ e.got = r.got
  BY <1>3 DEF FlowType
<1> QED
  BY <1>1, <1>2, <1>3, <1>4 DEF Became, Fetch, At

LEMMA CancelMakes ==
  ASSUME FlowTypes, NEW p \in Flows, Cancel(p)
  PROVE  Became(p, f[p].pc, f[p].out, f[p].todo)
<1>1. f[p] \in FlowType /\ f'[p] = [f[p] EXCEPT !.stop = TRUE]
  BY DEF FlowTypes, Cancel
<1> QED
  BY <1>1 DEF FlowType, Became

(* The end of the commands, with the commit to build.                      *)
LEMMA VerifyMakes ==
  ASSUME FlowTypes, NEW p \in Flows, Verify(p)
  PROVE  /\ f[p].pc = "work" /\ f[p].todo = <<>>
         /\ f'[p].pc = "restore" /\ f'[p].todo = <<>>
         /\ \/ f'[p].out = "done" /\ f'[p].got = heads[Build] /\ Published(Build)
            \/ f'[p].out = "plan_changed"
<1>1. f[p].pc = "work" /\ f[p].todo = <<>>
  BY DEF Verify, At
<1>2. CASE Published(Build)
  <2>1. f[p] \in FlowType /\ f'[p] = [f[p] EXCEPT !.pc = "restore", !.out = "done", !.got = heads[Build]]
    BY <1>2 DEF Verify, FlowTypes
  <2> QED
    BY <1>1, <1>2, <2>1 DEF FlowType
<1>3. CASE ~Published(Build)
  BY <1>1, <1>3, FailMakes DEF Verify, Became
<1> QED
  BY <1>2, <1>3

(* The ways of a flow, by where it is.                                     *)
LEMMA Ways ==
  ASSUME FlowTypes, NEW p \in Flows, Act(p)
  PROVE  \/ Became(p, f[p].pc, f[p].out, f[p].todo) /\ UNCHANGED <<effects, merging>>
         \/ /\ f[p].pc = "idle" /\ UNCHANGED <<effects, merging>>
            /\ \/ Became(p, "fetch", f[p].out, f[p].todo)
               \/ \E out \in {"cancelled", "busy", "unsafe"} : Became(p, "ended", out, f[p].todo)
         \/ Fetch(p) /\ UNCHANGED <<effects, merging>>
         \/ /\ f[p].pc = "work" /\ f[p].todo # <<>> /\ Todo(p).do \notin {"intent", "push"}
            /\ UNCHANGED <<effects, merging>>
            /\ \/ Became(p, "work", f[p].out, Tail(f[p].todo))
               \/ \E out \in {"unsafe", "failed"} : Became(p, "restore", out, f[p].todo)
         \/ MergeBreaks(p) \/ Abort(p) \/ Intend(p) \/ Push(p) \/ PushBreaks(p) \/ Verify(p)
         \/ /\ f[p].pc \in {"fetch", "work"} /\ (f[p].todo # <<>> => Todo(p).do # "push")
            /\ UNCHANGED <<effects, merging>>
            /\ \E out \in {"cancelled", "failed"} : Became(p, "restore", out, f[p].todo)
         \/ /\ f[p].pc = "restore" /\ UNCHANGED <<effects, merging>>
            /\ \E out \in {f[p].out, "repo_needs_attention"} :
                 Became(p, "ended", out, f[p].todo) /\ (out # f[p].out => f[p].out = "done")
         \/ OrphanEnds(p) /\ UNCHANGED effects
         \/ /\ f[p].pc \in {"fetch", "work", "abort", "restore"} /\ UNCHANGED <<effects, merging>>
            /\ Became(p, "orphan", f[p].out, f[p].todo)
<1> USE DEF At
<1>1. CASE Acquire(p) \/ Cancel(p)
  BY <1>1, CancelMakes DEF Acquire, Cancel, repo, Became
<1>2. CASE Busy(p) \/ Begin(p)
  BY <1>2, EndMakes, BeginMakes DEF Busy, Begin, repo
<1>3. CASE Fetch(p)
  BY <1>3 DEF Fetch
<1>4. CASE Checkout(p) \/ FastForward(p) \/ Merge(p)
  <2>1. /\ f[p].pc = "work" /\ f[p].todo # <<>> /\ Todo(p).do \notin {"intent", "push"}
        /\ UNCHANGED <<effects, merging>>
    BY <1>4 DEF Checkout, FastForward, Merge, Doing
  <2>2. Next1(p) \/ Fail(p, "unsafe") \/ Fail(p, "failed")
    BY <1>4 DEF Checkout, FastForward, Merge
  <2> QED
    BY <2>1, <2>2, NextMakes, FailMakes
<1>5. CASE CommandFails(p)
  <2>1. /\ f[p].pc \in {"fetch", "work"} /\ (f[p].todo # <<>> => Todo(p).do # "push")
        /\ UNCHANGED <<effects, merging>>
    BY <1>5 DEF CommandFails, repo
  <2>2. Fail(p, "cancelled") \/ Fail(p, "failed")
    BY <1>5 DEF CommandFails
  <2> QED
    BY <2>1, <2>2, FailMakes
<1>6. CASE Restore(p)
  <2>1. f[p].pc = "restore" /\ UNCHANGED <<effects, merging>>
    BY <1>6 DEF Restore
  <2>2. PICK out \in {f[p].out, "repo_needs_attention"} :
          (out # f[p].out => f[p].out = "done") /\ f' = [f EXCEPT ![p].pc = "ended", ![p].out = out]
    BY <1>6 DEF Restore, Restored
  <2> QED
    BY <2>1, <2>2, EndMakes
<1>7. CASE OrphanEnds(p)
  BY <1>7 DEF OrphanEnds
<1>8. CASE Crash(p)
  <2>1. f[p].pc \in {"fetch", "work", "abort", "restore"} /\ UNCHANGED <<effects, merging>>
    BY <1>8 DEF Crash, repo
  <2>2. Became(p, "orphan", f[p].out, f[p].todo)
    BY <1>8, GoMakes DEF Crash, Go
  <2> QED
    BY <2>1, <2>2
<1> QED
  BY <1>1, <1>2, <1>3, <1>4, <1>5, <1>6, <1>7, <1>8 DEF Act, Step

-----------------------------------------------------------------------------
(* The build and the merge                                                 *)

LEMMA DoneStep ==
  ASSUME PlanAssumption, RepoTypes, FlowTypes, PushInv, DoneIsPublished, NothingLost, Next
  PROVE  DoneIsPublished'
<1>1. remote[Build] \subseteq remote'[Build]
  BY DEF NothingLost, PlanAssumption
<1>2. ASSUME NEW p \in Flows, Act(p), f'[p].out = "done"
      PROVE  f'[p].got \subseteq remote'[Build]
  <2>1. CASE f[p].out = "done" /\ f'[p].got = f[p].got
    BY <1>1, <2>1 DEF DoneIsPublished
  <2>2. CASE Verify(p)
    BY <1>1, <1>2, <2>2, VerifyMakes DEF Published
  <2>3. CASE MergeBreaks(p)
    BY <1>2, <2>1, <2>3, GoMakes DEF MergeBreaks, Go, Became
  <2>4. CASE Abort(p)
    BY <1>2, <2>4, FailMakes DEF Abort, Became
  <2>5. CASE Intend(p)
    BY <1>2, <2>1, <2>5, NextMakes, FailMakes DEF Intend, Became
  <2>6. CASE Push(p)
    BY <1>2, <2>1, <2>6, NextMakes DEF Push, Became
  <2>7. CASE PushBreaks(p)
    BY <1>2, <2>7, FailMakes DEF PushBreaks, PushError, Became
  <2>8. CASE Fetch(p)
    BY <1>2, <2>1, <2>8, FetchMakes DEF Became
  <2>9. CASE OrphanEnds(p)
    BY <1>2, <2>9, CrashMakes DEF Became
  <2> QED
    BY <1>2, <2>1, <2>2, <2>3, <2>4, <2>5, <2>6, <2>7, <2>8, <2>9, Ways DEF Became
<1>3. CASE \E p \in Flows : Act(p)
  <2>1. PICK p \in Flows : Act(p)
    BY <1>3
  <2>2. \A q \in Flows : q # p => f'[q] = f[q]
    BY <2>1, OneMoves
  <2> QED
    BY <1>1, <1>2, <2>1, <2>2 DEF DoneIsPublished
<1>4. CASE UNCHANGED f
  BY <1>1, <1>4 DEF DoneIsPublished
<1> QED
  BY <1>3, <1>4 DEF Next, Act, Reconcile, People, Over, vars

(* A flow that will abort its merge, or has told of it, keeps doing so.    *)
Knows(p) == f[p].pc \in {"abort", "orphan"} \/ f[p].out \in {"repo_needs_attention", "crashed"}

LEMMA MergeStep ==
  ASSUME FlowTypes, PushInv, MergeIsKnown, Next
  PROVE  MergeIsKnown'
<1>1. ASSUME NEW p \in Flows, Act(p), Knows(p) PROVE Knows(p)' \/ ~merging'
  <2>1. f[p].pc \notin {"idle", "fetch", "work"}
    BY <1>1 DEF PushInv, PushesOf, Knows
  <2>2. CASE MergeBreaks(p) \/ Intend(p) \/ Push(p) \/ PushBreaks(p) \/ Verify(p) \/ Fetch(p)
    BY <2>1, <2>2 DEF MergeBreaks, Intend, Push, PushBreaks, Verify, Fetch, Doing, At
  <2>3. CASE Abort(p)
    BY <2>3, FailMakes DEF Abort, Became, Knows
  <2>4. CASE OrphanEnds(p)
    BY <2>4, CrashMakes DEF Became, Knows
  <2> QED
    BY <1>1, <2>1, <2>2, <2>3, <2>4, Ways DEF Became, Knows
<1>2. ASSUME NEW p \in Flows, Act(p), ~merging, merging' PROVE Knows(p)'
  <2>1. CASE MergeBreaks(p)
    BY <2>1, GoMakes DEF MergeBreaks, Go, Became, Knows
  <2>2. CASE OrphanEnds(p)
    BY <2>2, CrashMakes DEF Became, Knows
  <2>3. CASE Intend(p) \/ Push(p) \/ PushBreaks(p) \/ Verify(p) \/ Fetch(p)
    BY <1>2, <2>3 DEF Intend, Push, PushBreaks, Verify, Fetch, repo
  <2>4. CASE Abort(p)
    BY <1>2, <2>4 DEF Abort
  <2> QED
    BY <1>2, <2>1, <2>2, <2>3, <2>4, Ways
<1>3. CASE \E p \in Flows : Act(p)
  <2>1. PICK p \in Flows : Act(p)
    BY <1>3
  <2>2. \A q \in Flows : q # p => (Knows(q)' <=> Knows(q))
    BY <2>1, OneMoves DEF Knows
  <2>3. ASSUME merging' PROVE \E q \in Flows : Knows(q)'
    <3>1. CASE merging
      <4>1. PICK q \in Flows : Knows(q)
        BY <3>1 DEF MergeIsKnown, Knows
      <4> QED
        BY <1>1, <2>1, <2>2, <2>3, <4>1
    <3>2. CASE ~merging
      BY <1>2, <2>1, <2>3, <3>2
    <3> QED
      BY <3>1, <3>2
  <2> QED
    BY <2>3 DEF MergeIsKnown, Knows
<1>4. CASE UNCHANGED <<f, merging>>
  BY <1>4 DEF MergeIsKnown
<1> QED
  BY <1>3, <1>4 DEF Next, Act, Reconcile, People, Over, vars, repo

-----------------------------------------------------------------------------
(* The journalled pushes                                                   *)

(* The answer of a push is written to the last record of its flow.         *)
LEMMA LastPush ==
  ASSUME EffectInv, NEW p \in Flows, NEW i \in Own(p), \A j \in Own(p) : j <= i, NEW st, Sets(p, st)
  PROVE  effects' = [effects EXCEPT ![i].state = st] /\ i \in DOMAIN effects
<1> DEFINE Latest(k) == effects[k].flow = p /\ \A j \in DOMAIN effects : effects[j].flow = p => j <= k
<1>1. i \in DOMAIN effects /\ Latest(i)
  BY DEF Own
<1>2. \A k \in DOMAIN effects : Latest(k) => k = i
  <2> SUFFICES ASSUME NEW k \in DOMAIN effects, Latest(k) PROVE k = i
    OBVIOUS
  <2>1. k <= i /\ i <= k
    BY <1>1
  <2> QED
    BY <1>1, <2>1 DEF EffectInv
<1>3. (CHOOSE k \in DOMAIN effects : Latest(k)) = i
  BY <1>1, <1>2
<1> QED
  BY <1>1, <1>3 DEF Sets

LEMMA StateSet ==
  ASSUME NEW e \in PushType, NEW st \in {"unknown", "confirmed"}, NEW r, r = [e EXCEPT !.state = st]
  PROVE  /\ r \in PushType
         /\ r.state = st /\ r.commit = e.commit /\ r.branch = e.branch /\ r.flow = e.flow
<1>1. r.state = st /\ r.commit = e.commit /\ r.branch = e.branch /\ r.flow = e.flow
  BY DEF PushType
<1>2. r \in PushType
  BY DEF PushType
<1> QED
  BY <1>1, <1>2

(* Where the record of a push in progress is.                              *)
PushAt(p, i) ==
  /\ i \in Own(p) /\ effects[i].branch = Todo(p).branch
  /\ \A j \in Own(p) : j <= i /\ (j # i => effects[j].state = "confirmed")

LEMMA SetsMakes ==
  ASSUME EffectInv, NEW p \in Flows, NEW i, PushAt(p, i), NEW st \in {"unknown", "confirmed"}, Sets(p, st)
  PROVE  /\ i \in DOMAIN effects /\ effects' \in Seq(PushType) /\ DOMAIN effects' = DOMAIN effects
         /\ \A j \in DOMAIN effects : j # i => effects'[j] = effects[j]
         /\ effects'[i].state = st /\ effects'[i].commit = effects[i].commit
         /\ effects'[i].branch = effects[i].branch /\ effects'[i].flow = effects[i].flow
<1>1. effects' = [effects EXCEPT ![i].state = st] /\ i \in DOMAIN effects
  BY LastPush DEF PushAt
<1>2. effects \in Seq(PushType) /\ effects[i] \in PushType
  BY <1>1 DEF EffectInv
<1>3. PICK e : e = [effects[i] EXCEPT !.state = st]
  OBVIOUS
<1>4. /\ e \in PushType /\ e.state = st /\ e.commit = effects[i].commit
      /\ e.branch = effects[i].branch /\ e.flow = effects[i].flow
  BY <1>2, <1>3, StateSet
<1>5. effects' = [effects EXCEPT ![i] = e]
  BY <1>1, <1>3
<1>6. /\ effects' \in Seq(PushType) /\ DOMAIN effects' = DOMAIN effects /\ effects'[i] = e
      /\ \A j \in DOMAIN effects : j # i => effects'[j] = effects[j]
  BY <1>1, <1>2, <1>4, <1>5
<1> QED
  BY <1>1, <1>4, <1>6

(* A record is made with the commits that its branch has.                  *)
LEMMA IntendMakes ==
  ASSUME PlanAssumption, RepoTypes, FlowTypes, PlanInv, EffectInv, NEW p \in Flows, Intend(p), Clean
  PROVE  \E e \in PushType :
           /\ effects' = Append(effects, e) /\ e.flow = p /\ e.branch = Todo(p).branch
           /\ e.commit = heads[e.branch] /\ e.state = "intent" /\ e.branch \in Branches
<1>1. Todo(p).branch \in Branches
  BY TodoTyped DEF Intend, Doing
<1>2. PICK e : e = [flow |-> p, branch |-> Todo(p).branch, commit |-> heads[Todo(p).branch], state |-> "intent"]
  OBVIOUS
<1>3. heads[Todo(p).branch] \in SUBSET Changes
  BY <1>1 DEF RepoTypes
<1>4. e \in PushType
  BY <1>1, <1>2, <1>3 DEF PushType
<1>5. effects' = Append(effects, e)
  BY <1>2 DEF Intend
<1> QED
  BY <1>1, <1>2, <1>4, <1>5

LEMMA EffectStep ==
  ASSUME PlanAssumption, RepoTypes, FlowTypes, PlanInv, EffectInv, PushInv, NothingLost, Next
  PROVE  EffectInv'
<1>1. \A i \in DOMAIN effects : effects[i] \in PushType /\ effects[i].branch \in Branches
  <2>1. \A i \in DOMAIN effects : effects[i] \in PushType
    BY DEF EffectInv
  <2>2. \A e \in PushType : e.branch \in Branches
    BY DEF PushType
  <2> QED
    BY <2>1, <2>2
<1>2. ASSUME UNCHANGED effects PROVE EffectInv'
  <2>1. \A b \in Branches : heads[b] \subseteq heads'[b] /\ remote[b] \subseteq remote'[b]
    BY DEF NothingLost
  <2>2. effects' \in Seq(PushType)
    BY <1>2 DEF EffectInv
  <2>3. \A i \in DOMAIN effects' : effects'[i].commit \subseteq heads'[effects'[i].branch]
    BY <1>1, <1>2, <2>1 DEF EffectInv
  <2>4. ConfirmedIsThere'
    BY <1>1, <1>2, <2>1 DEF EffectInv, ConfirmedIsThere
  <2> QED
    BY <2>2, <2>3, <2>4 DEF EffectInv
<1>3. ASSUME NEW p \in Flows, NEW i, PushAt(p, i), NEW st \in {"unknown", "confirmed"}, Sets(p, st),
             st = "confirmed" => remote'[Todo(p).branch] = heads[Todo(p).branch]
      PROVE  EffectInv'
  <2>1. /\ i \in DOMAIN effects /\ effects' \in Seq(PushType) /\ DOMAIN effects' = DOMAIN effects
        /\ \A j \in DOMAIN effects : j # i => effects'[j] = effects[j]
        /\ effects'[i].state = st /\ effects'[i].commit = effects[i].commit
        /\ effects'[i].branch = effects[i].branch
    BY <1>3, SetsMakes
  <2>2. \A b \in Branches : heads[b] \subseteq heads'[b] /\ remote[b] \subseteq remote'[b]
    BY DEF NothingLost
  <2>3. \A j \in DOMAIN effects :
          effects'[j].commit = effects[j].commit /\ effects'[j].branch = effects[j].branch
    BY <2>1
  <2>4. \A j \in DOMAIN effects' : effects'[j].commit \subseteq heads'[effects'[j].branch]
    BY <1>1, <2>1, <2>2, <2>3 DEF EffectInv
  <2>5. st = "confirmed" => effects[i].commit \subseteq remote'[effects[i].branch]
    BY <1>3, <2>1 DEF EffectInv, PushAt
  <2>6. \A j \in DOMAIN effects : j # i =>
          (effects[j].state = "confirmed" => effects[j].commit \subseteq remote'[effects[j].branch])
    BY <1>1, <2>2 DEF EffectInv, ConfirmedIsThere
  <2>7. ConfirmedIsThere'
    BY <2>1, <2>3, <2>5, <2>6 DEF ConfirmedIsThere
  <2> QED
    BY <2>1, <2>4, <2>7 DEF EffectInv
<1>4. ASSUME NEW p \in Flows, Act(p) PROVE EffectInv'
  <2>1. CASE Intend(p) /\ Clean
    <3>1. PICK e \in PushType :
            /\ effects' = Append(effects, e) /\ e.branch \in Branches
            /\ e.commit = heads[e.branch] /\ e.state = "intent"
      BY <2>1, IntendMakes
    <3>2. UNCHANGED <<heads, remote>>
      BY <2>1 DEF Intend, repo
    <3>3. PICK n \in Nat : n = Len(effects) /\ DOMAIN effects = 1..n
      BY DEF EffectInv
    <3>4. /\ effects' \in Seq(PushType) /\ DOMAIN effects' = 1..(n + 1) /\ effects'[n + 1] = e
          /\ \A j \in 1..n : effects'[j] = effects[j]
      BY <3>1, <3>3 DEF EffectInv
    <3>5. \A j \in 1..(n + 1) : j = n + 1 \/ j \in 1..n
      OBVIOUS
    <3>6. \A j \in DOMAIN effects' : effects'[j].commit \subseteq heads'[effects'[j].branch]
      BY <3>1, <3>2, <3>3, <3>4, <3>5 DEF EffectInv
    <3>7. ConfirmedIsThere'
      BY <3>1, <3>2, <3>3, <3>4, <3>5 DEF EffectInv, ConfirmedIsThere
    <3> QED
      BY <3>4, <3>6, <3>7 DEF EffectInv
  <2>2. CASE Push(p)
    <3>1. PICK i : PushAt(p, i)
      BY <2>2 DEF Push, Doing, At, PushInv, PushesOf, Pushing, PushAt
    <3>2. Todo(p).branch \in Branches
      BY <2>2, TodoTyped DEF Push, Doing
    <3>3. remote'[Todo(p).branch] = heads[Todo(p).branch] /\ Sets(p, "confirmed")
      BY <2>2, <3>2 DEF Push, RepoTypes
    <3> QED
      BY <1>3, <3>1, <3>3
  <2>3. CASE PushBreaks(p)
    <3>1. PICK i : PushAt(p, i)
      BY <2>3 DEF PushBreaks, At, PushInv, PushesOf, Pushing, PushAt
    <3>2. Sets(p, "unknown")
      BY <2>3 DEF PushBreaks
    <3> QED
      BY <1>3, <3>1, <3>2
  <2>4. CASE Intend(p) /\ ~Clean
    BY <1>2, <2>4 DEF Intend
  <2>5. CASE MergeBreaks(p) \/ Abort(p) \/ Verify(p)
    BY <1>2, <2>5 DEF MergeBreaks, Abort, Verify
  <2> QED
    BY <1>2, <1>4, <2>1, <2>2, <2>3, <2>4, <2>5, Ways
<1>5. ASSUME NEW i \in DOMAIN effects, Reconcile(i) PROVE EffectInv'
  <2>1. PICK e \in PushType : /\ e = [effects[i] EXCEPT !.state = "confirmed"]
                              /\ e.state = "confirmed" /\ e.commit = effects[i].commit
                              /\ e.branch = effects[i].branch
    <3>1. PICK e : e = [effects[i] EXCEPT !.state = "confirmed"]
      OBVIOUS
    <3>2. e \in PushType /\ e.state = "confirmed" /\ e.commit = effects[i].commit /\ e.branch = effects[i].branch
      BY <1>1, <3>1, StateSet
    <3> QED
      BY <3>1, <3>2
  <2>2. effects' = [effects EXCEPT ![i] = e] /\ remote[effects[i].branch] = effects[i].commit
        /\ UNCHANGED <<heads, remote>>
    BY <1>5, <2>1 DEF Reconcile, repo
  <2>3. /\ effects' \in Seq(PushType) /\ DOMAIN effects' = DOMAIN effects /\ effects'[i] = e
        /\ \A j \in DOMAIN effects : j # i => effects'[j] = effects[j]
    BY <2>2 DEF EffectInv
  <2>4. \A j \in DOMAIN effects' : effects'[j].commit \subseteq heads'[effects'[j].branch]
    BY <2>1, <2>2, <2>3 DEF EffectInv
  <2>5. ConfirmedIsThere'
    BY <2>1, <2>2, <2>3 DEF EffectInv, ConfirmedIsThere
  <2> QED
    BY <2>3, <2>4, <2>5 DEF EffectInv
<1>6. CASE \E p \in Flows : Act(p)
  BY <1>4, <1>6
<1>7. CASE \E i \in DOMAIN effects : Reconcile(i)
  BY <1>5, <1>7
<1>8. CASE UNCHANGED effects
  BY <1>2, <1>8
<1> QED
  BY <1>6, <1>7, <1>8 DEF Next, Act, People, Over, vars

(* What another flow does leaves the records of a flow as they are, or     *)
(* finds out that a push has arrived.                                      *)
LEMMA PushesKeep ==
  ASSUME NEW q \in Flows, PushesOf(q), Own(q)' = Own(q),
         f'[q].pc = f[q].pc, f'[q].out = f[q].out, f'[q].todo = f[q].todo,
         \A j \in Own(q) : /\ effects'[j].branch = effects[j].branch
                           /\ effects[j].state = "confirmed" => effects'[j].state = "confirmed"
  PROVE  PushesOf(q)'
<1>1. (Pushing(q)' <=> Pushing(q)) /\ (Todo(q))' = Todo(q)
  BY DEF Pushing, Todo
<1>2. Confirmed(q) => Confirmed(q)'
  BY DEF Confirmed
<1>3. Pushing(q)' => \E i \in Own(q)' :
        /\ effects'[i].branch = Todo(q)'.branch
        /\ \A j \in Own(q)' : j <= i /\ (j # i => effects'[j].state = "confirmed")
  BY <1>1 DEF PushesOf
<1>4. /\ f'[q].pc \in {"idle", "fetch", "work", "abort"} => f'[q].out = "none"
      /\ f'[q].pc \in {"idle", "fetch"} => Own(q)' = {} /\ f'[q].todo = <<>>
      /\ f'[q].pc = "abort" \/ (f'[q].pc = "work" /\ ~Pushing(q)') => Confirmed(q)'
      /\ f'[q].pc = "restore" /\ f'[q].out # "unknown" => Confirmed(q)'
      /\ f'[q].pc = "ended" /\ f'[q].out \notin {"unknown", "crashed"} => Confirmed(q)'
  BY <1>1, <1>2 DEF PushesOf
<1> QED
  BY <1>3, <1>4 DEF PushesOf

(* A flow whose pushes are confirmed.                                      *)
LEMMA PushesSettled ==
  ASSUME NEW p \in Flows, Confirmed(p)', f'[p].pc \notin {"idle", "fetch"}, ~Pushing(p)',
         f'[p].pc \in {"work", "abort"} => f'[p].out = "none"
  PROVE  PushesOf(p)'
  BY DEF PushesOf

LEMMA PushesSame ==
  ASSUME UNCHANGED effects
  PROVE  \A q \in Flows : /\ Own(q)' = Own(q) /\ (Confirmed(q)' <=> Confirmed(q))
                          /\ \A j \in Own(q) : effects'[j] = effects[j]
  BY DEF Own, Confirmed

LEMMA PushOfFlow ==
  ASSUME PlanAssumption, RepoTypes, FlowTypes, PlanInv, EffectInv, PushInv, NEW p \in Flows, Act(p)
  PROVE  PushesOf(p)'
<1>1. PushesOf(p) /\ OnPlan(f[p].todo)
  BY DEF PushInv, PlanInv
<1>2. CASE Became(p, f[p].pc, f[p].out, f[p].todo) /\ UNCHANGED effects
  BY <1>1, <1>2, PushesSame, PushesKeep DEF Became
<1>3. CASE /\ f[p].pc = "idle" /\ UNCHANGED effects
           /\ \/ Became(p, "fetch", f[p].out, f[p].todo)
              \/ \E out \in {"cancelled", "busy", "unsafe"} : Became(p, "ended", out, f[p].todo)
  <2>1. Own(p)' = {} /\ f[p].out = "none" /\ f[p].todo = <<>> /\ Confirmed(p)'
    BY <1>1, <1>3, PushesSame DEF PushesOf, Confirmed
  <2>2. CASE Became(p, "fetch", f[p].out, f[p].todo)
    BY <2>1, <2>2 DEF Became, PushesOf, Pushing
  <2>3. CASE f'[p].pc = "ended"
    BY <2>1, <2>3, PushesSettled DEF Pushing
  <2> QED
    BY <1>3, <2>2, <2>3 DEF Became
<1>4. CASE Fetch(p) /\ UNCHANGED effects
  <2>1. /\ f[p].pc = "fetch" /\ f'[p].pc = "work" /\ f'[p].out = "none" /\ f'[p].todo = Commands
        /\ Confirmed(p)'
    BY <1>1, <1>4, FetchMakes, PushesSame DEF Became, PushesOf, Confirmed
  <2>2. ~Pushing(p)'
    BY <2>1, WholePlan DEF Pushing, Todo
  <2> QED
    BY <2>1, <2>2, PushesSettled
<1>5. CASE /\ f[p].pc = "work" /\ f[p].todo # <<>> /\ Todo(p).do \notin {"intent", "push"}
           /\ UNCHANGED effects
           /\ \/ Became(p, "work", f[p].out, Tail(f[p].todo))
              \/ \E out \in {"unsafe", "failed"} : Became(p, "restore", out, f[p].todo)
  <2>1. f[p].out = "none" /\ Confirmed(p)'
    BY <1>1, <1>5, PushesSame DEF PushesOf, Pushing
  <2>2. CASE Became(p, "work", f[p].out, Tail(f[p].todo))
    <3>1. ~Pushing(p)'
      BY <1>1, <1>5, <2>2, FirstCommand DEF Became, Pushing, Todo
    <3> QED
      BY <2>1, <2>2, <3>1, PushesSettled DEF Became
  <2>3. CASE f'[p].pc = "restore"
    BY <2>1, <2>3, PushesSettled DEF Pushing
  <2> QED
    BY <1>5, <2>2, <2>3 DEF Became
<1>6. CASE MergeBreaks(p)
  <2>1. Confirmed(p)' /\ f[p].out = "none"
    BY <1>1, <1>6, PushesSame DEF MergeBreaks, At, PushesOf, Pushing
  <2>2. f'[p].pc = "abort" /\ f'[p].out = "none"
    BY <1>6, <2>1, GoMakes DEF MergeBreaks, Go, Became
  <2> QED
    BY <2>1, <2>2, PushesSettled DEF Pushing
<1>7. CASE Abort(p)
  <2>1. Confirmed(p)'
    BY <1>1, <1>7, PushesSame DEF Abort, At, PushesOf
  <2>2. f'[p].pc = "restore"
    BY <1>7, FailMakes DEF Abort, Became
  <2> QED
    BY <2>1, <2>2, PushesSettled DEF Pushing
<1>8. CASE Intend(p) /\ Clean
  <2>1. f[p].pc = "work" /\ f[p].todo # <<>> /\ Todo(p).do = "intent" /\ Next1(p)
    BY <1>8 DEF Intend, Doing, At
  <2>2. Confirmed(p) /\ f[p].out = "none"
    BY <1>1, <2>1 DEF PushesOf, Pushing
  <2>3. /\ f'[p].pc = "work" /\ f'[p].out = "none" /\ f'[p].todo = Tail(f[p].todo)
    BY <2>1, <2>2, NextMakes DEF Became
  <2>4. f'[p].todo # <<>> /\ Head(f'[p].todo) = [do |-> "push", branch |-> Todo(p).branch]
    BY <1>1, <2>1, <2>3, FirstCommand DEF Todo
  <2>5. PICK e \in PushType : effects' = Append(effects, e) /\ e.flow = p /\ e.branch = Todo(p).branch
    BY <1>8, IntendMakes
  <2>6. PICK n \in Nat : n = Len(effects) /\ DOMAIN effects = 1..n
    BY DEF EffectInv
  <2>7. /\ DOMAIN effects' = 1..(n + 1) /\ effects'[n + 1] = e
        /\ \A j \in 1..n : effects'[j] = effects[j]
    BY <2>5, <2>6 DEF EffectInv
  <2>8. n + 1 \in Own(p)'
    BY <2>5, <2>7 DEF Own
  <2>9. ASSUME NEW j \in Own(p)' PROVE j <= n + 1 /\ (j # n + 1 => effects'[j].state = "confirmed")
    <3>1. j \in 1..(n + 1) /\ effects'[j].flow = p
      BY <2>7 DEF Own
    <3>2. CASE j = n + 1
      BY <3>2
    <3>3. CASE j # n + 1
      <4>1. j \in 1..n
        BY <3>1, <3>3
      <4>2. j \in Own(p)
        BY <2>6, <2>7, <3>1, <4>1 DEF Own
      <4> QED
        BY <2>2, <2>7, <4>1, <4>2 DEF Confirmed
    <3> QED
      BY <3>2, <3>3
  <2>10. Pushing(p)' /\ Todo(p)'.branch = Todo(p).branch
    BY <2>3, <2>4 DEF Pushing, Todo
  <2>11. effects'[n + 1].branch = Todo(p)'.branch
    BY <2>5, <2>7, <2>10
  <2> QED
    BY <2>3, <2>8, <2>9, <2>10, <2>11 DEF PushesOf
<1>9. CASE Intend(p) /\ ~Clean
  <2>1. UNCHANGED effects /\ f[p].pc = "work" /\ Todo(p).do = "intent" /\ Fail(p, "unsafe")
    BY <1>9 DEF Intend, Doing, At
  <2>2. Confirmed(p)'
    BY <1>1, <2>1, PushesSame DEF PushesOf, Pushing
  <2>3. f'[p].pc = "restore"
    BY <2>1, FailMakes DEF Became
  <2> QED
    BY <2>2, <2>3, PushesSettled DEF Pushing
<1>10. CASE Push(p)
  <2>1. f[p].pc = "work" /\ f[p].todo # <<>> /\ Todo(p).do = "push" /\ Next1(p) /\ Sets(p, "confirmed")
    BY <1>10 DEF Push, Doing, At
  <2>2. PICK i : PushAt(p, i)
    BY <1>1, <2>1 DEF PushesOf, Pushing, PushAt
  <2>3. /\ i \in DOMAIN effects /\ DOMAIN effects' = DOMAIN effects
        /\ \A j \in DOMAIN effects : j # i => effects'[j] = effects[j]
        /\ effects'[i].state = "confirmed" /\ effects'[i].flow = effects[i].flow
    BY <2>1, <2>2, SetsMakes
  <2>4. Own(p)' = Own(p)
    BY <2>3 DEF Own
  <2>5. Confirmed(p)'
    BY <2>2, <2>3, <2>4 DEF Confirmed, PushAt, Own
  <2>6. f'[p].pc = "work" /\ f'[p].out = "none" /\ f'[p].todo = Tail(f[p].todo)
    BY <1>1, <2>1, NextMakes DEF Became, PushesOf
  <2>7. ~Pushing(p)'
    BY <1>1, <2>1, <2>6, FirstCommand DEF Pushing, Todo
  <2> QED
    BY <2>5, <2>6, <2>7, PushesSettled
<1>11. CASE PushBreaks(p)
  <2>1. f'[p].pc = "restore" /\ f'[p].out = "unknown"
    BY <1>11, FailMakes DEF PushBreaks, PushError, Became
  <2> QED
    BY <2>1 DEF PushesOf, Pushing
<1>12. CASE Verify(p)
  <2>1. f[p].pc = "work" /\ f[p].todo = <<>> /\ f'[p].pc = "restore" /\ UNCHANGED effects
    BY <1>12, VerifyMakes DEF Verify
  <2>2. Confirmed(p)'
    BY <1>1, <2>1, PushesSame DEF PushesOf, Pushing
  <2> QED
    BY <2>1, <2>2, PushesSettled DEF Pushing
<1>13. CASE /\ f[p].pc \in {"fetch", "work"} /\ (f[p].todo # <<>> => Todo(p).do # "push")
            /\ UNCHANGED effects /\ f'[p].pc = "restore"
  <2>1. Confirmed(p)'
    BY <1>1, <1>13, PushesSame DEF PushesOf, Pushing, Confirmed
  <2> QED
    BY <1>13, <2>1, PushesSettled DEF Pushing
<1>14. CASE /\ f[p].pc = "restore" /\ UNCHANGED effects
            /\ \E out \in {f[p].out, "repo_needs_attention"} :
                 Became(p, "ended", out, f[p].todo) /\ (out # f[p].out => f[p].out = "done")
  <2>1. f'[p].pc = "ended" /\ (f'[p].out = f[p].out \/ f[p].out = "done")
    BY <1>14 DEF Became
  <2>2. f[p].out # "unknown" => Confirmed(p)'
    BY <1>1, <1>14, PushesSame DEF PushesOf
  <2> QED
    BY <2>1, <2>2 DEF PushesOf, Pushing
<1>15. CASE f'[p].pc = "orphan"
  BY <1>15 DEF PushesOf, Pushing
<1>16. CASE OrphanEnds(p)
  BY <1>16, CrashMakes DEF Became, PushesOf, Pushing
<1> QED
  BY <1>2, <1>3, <1>4, <1>5, <1>6, <1>7, <1>8, <1>9, <1>10, <1>11, <1>12, <1>13, <1>14, <1>15, <1>16, Ways
     DEF Became

LEMMA PushStep ==
  ASSUME PlanAssumption, RepoTypes, FlowTypes, PlanInv, EffectInv, PushInv, Next
  PROVE  PushInv'
<1>1. ASSUME NEW p \in Flows, Act(p), NEW q \in Flows, q # p PROVE PushesOf(q)'
  <2>1. PushesOf(q) /\ f'[q] = f[q]
    BY <1>1, OneMoves DEF PushInv
  <2>2. ASSUME Own(q)' = Own(q), \A j \in Own(q) : effects'[j] = effects[j] PROVE PushesOf(q)'
    BY <2>1, <2>2, PushesKeep
  <2>3. CASE UNCHANGED effects
    BY <2>2, <2>3, PushesSame
  <2>4. CASE Intend(p) /\ Clean
    <3>1. PICK e \in PushType : effects' = Append(effects, e) /\ e.flow = p
      BY <2>4, IntendMakes
    <3>2. PICK n \in Nat : n = Len(effects) /\ DOMAIN effects = 1..n
      BY DEF EffectInv
    <3>3. /\ DOMAIN effects' = 1..(n + 1) /\ effects'[n + 1].flow = p
          /\ \A j \in 1..n : effects'[j] = effects[j]
      BY <3>1, <3>2 DEF EffectInv
    <3>4. \A j \in 1..(n + 1) : j = n + 1 \/ j \in 1..n
      OBVIOUS
    <3>5. 1..n \subseteq 1..(n + 1)
      OBVIOUS
    <3>6. Own(q)' = Own(q) /\ \A j \in Own(q) : effects'[j] = effects[j]
      BY <1>1, <3>2, <3>3, <3>4, <3>5 DEF Own
    <3> QED
      BY <2>2, <3>6
  <2>5. CASE Push(p) \/ PushBreaks(p)
    <3>1. PICK i : PushAt(p, i)
      BY <2>5 DEF Push, PushBreaks, Doing, At, PushInv, PushesOf, Pushing, PushAt
    <3>2. PICK st \in {"unknown", "confirmed"} : Sets(p, st)
      BY <2>5 DEF Push, PushBreaks
    <3>3. /\ i \in DOMAIN effects /\ DOMAIN effects' = DOMAIN effects
          /\ \A j \in DOMAIN effects : j # i => effects'[j] = effects[j]
          /\ effects'[i].flow = effects[i].flow
      BY <3>1, <3>2, SetsMakes
    <3>4. effects[i].flow = p
      BY <3>1 DEF PushAt, Own
    <3>5. Own(q)' = Own(q) /\ \A j \in Own(q) : effects'[j] = effects[j]
      BY <1>1, <3>3, <3>4 DEF Own
    <3> QED
      BY <2>2, <3>5
  <2>6. UNCHANGED effects \/ (Intend(p) /\ Clean) \/ Push(p) \/ PushBreaks(p)
    BY <1>1, Ways DEF MergeBreaks, Abort, Verify, Intend
  <2> QED
    BY <2>3, <2>4, <2>5, <2>6
<1>2. ASSUME NEW i \in DOMAIN effects, Reconcile(i) PROVE PushInv'
  <2>1. PICK e : e = [effects[i] EXCEPT !.state = "confirmed"]
    OBVIOUS
  <2>2. effects[i] \in PushType
    BY DEF EffectInv
  <2>3. e.state = "confirmed" /\ e.branch = effects[i].branch /\ e.flow = effects[i].flow
    BY <2>1, <2>2, StateSet
  <2>4. effects' = [effects EXCEPT ![i] = e] /\ f' = f
    BY <1>2, <2>1 DEF Reconcile
  <2>5. /\ DOMAIN effects' = DOMAIN effects /\ effects'[i] = e
        /\ \A j \in DOMAIN effects : j # i => effects'[j] = effects[j]
    BY <2>4 DEF EffectInv
  <2>6. ASSUME NEW q \in Flows PROVE PushesOf(q)'
    <3>1. Own(q)' = Own(q)
      BY <2>3, <2>5 DEF Own
    <3>2. \A j \in Own(q) : /\ effects'[j].branch = effects[j].branch
                            /\ effects[j].state = "confirmed" => effects'[j].state = "confirmed"
      BY <2>3, <2>5 DEF Own
    <3> QED
      BY <2>4, <3>1, <3>2, PushesKeep DEF PushInv
  <2> QED
    BY <2>6 DEF PushInv
<1>3. CASE \E p \in Flows : Act(p)
  BY <1>1, <1>3, PushOfFlow DEF PushInv
<1>4. CASE \E i \in DOMAIN effects : Reconcile(i)
  BY <1>2, <1>4
<1>5. CASE UNCHANGED <<f, effects>>
  BY <1>5, PushesSame, PushesKeep DEF PushInv
<1> QED
  BY <1>3, <1>4, <1>5 DEF Next, Act, People, Over, vars

-----------------------------------------------------------------------------
(* The theorems                                                            *)

LEMMA GitInvInit ==
  ASSUME PlanAssumption, Init
  PROVE  GitInv
<1>1. {0} \in SUBSET Changes /\ Edits \in Changes
  BY DEF PlanAssumption, Changes
<1>2. RepoTypes
  BY <1>1 DEF Init, Base, RepoTypes
<1>3. PICK s \in Seq(Command) : s = <<>>
  <2>1. <<>> \in Seq(Command)
    OBVIOUS
  <2> QED
    BY <2>1
<1>4. Fresh = [pc |-> "idle", todo |-> s, orig |-> "-", out |-> "none", got |-> {}, stop |-> FALSE]
  BY <1>3 DEF Fresh
<1>5. "idle" \in Pcs /\ "none" \in Outcomes /\ {} \in SUBSET Changes
  BY DEF Pcs, Outcomes
<1>6. Fresh \in FlowType
  BY <1>4, <1>5 DEF FlowType
<1>7. Fresh.pc = "idle" /\ Fresh.out = "none" /\ Fresh.todo = <<>>
  BY <1>3, <1>4
<1>8. \A p \in Flows : f[p] = Fresh
  BY DEF Init
<1>9. FlowTypes /\ PlanInv
  BY <1>6, <1>7, <1>8 DEF Init, FlowTypes, PlanInv, OnPlan
<1>10. LockInv
  <2>1. ASSUME NEW p \in Flows PROVE LocksOf(p)
    <3>1. Held(p) = {}
      BY HeldIn DEF Held, Init
    <3>2. Cardinality(Held(p)) = 0 /\ IsFiniteSet(Held(p))
      BY <3>1, FS_EmptySet
    <3>3. Len(Keys[p]) \in Nat
      BY HeldIn
    <3>4. {Keys[p][i] : i \in 1..0} = {}
      OBVIOUS
    <3> QED
      BY <1>7, <1>8, <3>1, <3>2, <3>3, <3>4 DEF LocksOf, Working
  <2> QED
    BY <2>1 DEF Init, LockInv
<1>11. EffectInv
  BY DEF Init, EffectInv, ConfirmedIsThere
<1>12. PushInv
  BY <1>7, <1>8 DEF Init, PushInv, PushesOf, Pushing, Own, Confirmed
<1>13. DoneIsPublished /\ MergeIsKnown
  BY <1>7, <1>8 DEF Init, DoneIsPublished, MergeIsKnown
<1> QED
  BY <1>2, <1>9, <1>10, <1>11, <1>12, <1>13 DEF GitInv

LEMMA GitInvNext ==
  ASSUME PlanAssumption, GitInv, [Next]_vars
  PROVE  GitInv' /\ (\A b \in Branches : heads[b] \subseteq heads'[b] /\ remote[b] \subseteq remote'[b])
<1>1. CASE Next
  <2>1. RepoTypes' /\ NothingLost
    BY <1>1, RepoStep DEF GitInv
  <2>2. FlowTypes' /\ PlanInv'
    BY <1>1, FlowsStayTyped DEF GitInv
  <2>3. LockInv'
    BY <1>1, <2>2, LockStep DEF GitInv
  <2>4. EffectInv'
    BY <1>1, <2>1, EffectStep DEF GitInv
  <2>5. PushInv'
    BY <1>1, PushStep DEF GitInv
  <2>6. DoneIsPublished'
    BY <1>1, <2>1, DoneStep DEF GitInv
  <2>7. MergeIsKnown'
    BY <1>1, MergeStep DEF GitInv
  <2> QED
    BY <2>1, <2>2, <2>3, <2>4, <2>5, <2>6, <2>7 DEF GitInv, NothingLost
<1>2. CASE UNCHANGED vars
  <2>1. RepoTypes'
    BY <1>2 DEF GitInv, RepoTypes, vars
  <2>2. FlowTypes' /\ PlanInv'
    BY <1>2 DEF GitInv, FlowTypes, PlanInv, OnPlan, vars
  <2>3. LockInv'
    BY <1>2 DEF GitInv, LockInv, LocksOf, Held, Working, vars
  <2>4. EffectInv'
    BY <1>2 DEF GitInv, EffectInv, ConfirmedIsThere, vars
  <2>5. PushInv'
    BY <1>2, PushesSame, PushesKeep DEF GitInv, PushInv, vars
  <2>6. DoneIsPublished' /\ MergeIsKnown'
    BY <1>2 DEF GitInv, DoneIsPublished, MergeIsKnown, vars
  <2> QED
    BY <1>2, <2>1, <2>2, <2>3, <2>4, <2>5, <2>6 DEF GitInv, vars
<1> QED
  BY <1>1, <1>2

LEMMA GitInvSafe ==
  ASSUME PlanAssumption, GitInv
  PROVE  GitSafe
<1>1. OneAtATime
  BY LocksExclude DEF GitInv
<1>2. EndIsKnown
  BY DEF GitInv, PushInv, PushesOf, Confirmed, Own, EndIsKnown, At
<1>3. \A p \in Flows : f[p].out \in Outcomes
  BY DEF GitInv, FlowTypes, FlowType
<1>4. \A i \in DOMAIN effects : effects[i].state \in {"intent", "unknown", "confirmed"}
  <2>1. \A i \in DOMAIN effects : effects[i] \in PushType
    BY DEF GitInv, EffectInv
  <2> QED
    BY <2>1 DEF PushType
<1>5. GitTypeOK
  BY <1>3, <1>4 DEF GitInv, RepoTypes, LockInv, PlanInv, OnPlan, GitTypeOK
<1> QED
  BY <1>1, <1>2, <1>5 DEF GitInv, EffectInv, GitSafe

(* Flows of one repository never work at the same time, not even through a *)
(* child that has outlived its backend; a push that is recorded as         *)
(* confirmed is on origin; a flow that reports a known end leaves no push  *)
(* of unknown fate, the commit it gives to be built is on origin, and a    *)
(* merge is left half-done only by a flow that says so or was killed       *)
(* (GitAdapter.locked, execute, reconcile).                                *)
THEOREM GitIsSafe == PlanAssumption => (Spec => []GitSafe)
<1> SUFFICES ASSUME PlanAssumption PROVE Spec => []GitSafe
  OBVIOUS
<1>1. Init => GitInv
  BY GitInvInit
<1>2. GitInv /\ [Next]_vars => GitInv'
  BY GitInvNext
<1>3. GitInv => GitSafe
  BY GitInvSafe
<1> QED
  BY <1>1, <1>2, <1>3, PTL DEF Spec

(* No step, of a flow, of a child that outlives it or of a person, takes a *)
(* commit from a local branch or from origin (GitAdapter.execute).         *)
THEOREM CommitsStay == PlanAssumption => (Spec => [][NothingLost]_vars)
<1> SUFFICES ASSUME PlanAssumption PROVE Spec => [][NothingLost]_vars
  OBVIOUS
<1>1. Init => GitInv
  BY GitInvInit
<1>2. GitInv /\ [Next]_vars => GitInv' /\ [NothingLost]_vars
  BY GitInvNext DEF NothingLost
<1> QED
  BY <1>1, <1>2, PTL DEF Spec

-----------------------------------------------------------------------------
(* The event stream: its invariant                                         *)

(* The numbers in use are those the journal has given out.                 *)
Entry       == [seq: Nat, n: Nat, kind: {"event", "other", "subscribed"}]
Given       == 1..journal.last
JournalType == journal \in [last: Nat, stored: SUBSET Nat] /\ journal.stored \subseteq Given
WriterTypes ==
  /\ bound \in [commits: 0..Commits, others: Nat, frames: Nat, cancels: Nat]
  /\ journal.last <= 2 * (Commits - bound.commits)
  /\ due \in Seq(Seq(Nat))
  /\ \A i \in DOMAIN due : due[i] # <<>> /\ \A k \in DOMAIN due[i] : due[i][k] \in Given
SubType    == sub \in [cursor: Int, replaying: BOOLEAN, pending: Seq(Nat)] /\ Len(sub.pending) <= QueueSize
ReplayType ==
  incoming \in [at: {"idle", "get", "read", "send", "mark", "drain"}, after: Nat, mark: Nat, page: SUBSET Nat]
WireType   == wire \in [seq: Nat, queue: Seq(Entry)] /\ Len(wire.queue) <= QueueSize
ClientType == client \in [seen: Nat, got: SUBSET Nat, marked: BOOLEAN]
SentType   == base \in Nat /\ sent \in Seq(Nat)
SubGiven   == sub.cursor \in {Off} \cup 0..journal.last /\ \A i \in DOMAIN sub.pending : sub.pending[i] \in Given
ReplayGiven ==
  incoming.after \in 0..journal.last /\ incoming.mark \in 0..journal.last /\ incoming.page \subseteq Given
QueueGiven ==
  \A i \in DOMAIN wire.queue :
    /\ wire.queue[i].kind = "event" => wire.queue[i].n \in Given
    /\ wire.queue[i].n \in 0..journal.last
ClientGiven == client.seen \in 0..journal.last /\ client.got \subseteq Given
SentGiven   == \A i \in DOMAIN sent : sent[i] \in Given
Types ==
  /\ SubType /\ ReplayType /\ WireType /\ ClientType /\ SentType /\ link \in {"open", "slow", "down"}
  /\ SubGiven /\ ReplayGiven /\ QueueGiven /\ ClientGiven /\ SentGiven

(* A replay goes up from the cursor, which is at or past all that was sent *)
(* for the subscription; a connection that is down has none.               *)
Places ==
  /\ sub.replaying <=> incoming.at # "idle"
  /\ sub.replaying => sub.cursor # Off
  /\ incoming.at \in {"get", "read", "send", "mark"} => sub.cursor = incoming.after
  /\ incoming.at # "send" => incoming.page = {}
  /\ \A n \in incoming.page : n > incoming.after
  /\ sub.cursor # Off => base <= sub.cursor /\ \A i \in DOMAIN sent : sent[i] <= sub.cursor
  /\ link = "down" => sub = NoSub /\ wire.queue = <<>>

(* What is stored and was published: the due numbers are the last ones.    *)
PublishedUpTo == journal.last - Len(due)
DueInTurn ==
  /\ Topic = "bus" => due = <<>>
  /\ \A i \in DOMAIN due : due[i] = <<PublishedUpTo + i>>

(* An event the client has or that is among the first `j' of his queue.    *)
Comes(n, j) == n \in client.got \/ \E i \in 1..j : wire.queue[i].kind = "event" /\ wire.queue[i].n = n
Sent(n) == \E i \in DOMAIN sent : sent[i] = n

(* What comes with an item or before it has no hole below the item, nor    *)
(* has what was sent below the cursor.                                     *)
QueueWhole ==
  \A j \in DOMAIN wire.queue : wire.queue[j].kind # "other" =>
    \A n \in journal.stored : n <= wire.queue[j].n => Comes(n, j)
CursorWhole ==
  sub.cursor # Off /\ link = "open" =>
    \A n \in journal.stored : n <= sub.cursor => Comes(n, Len(wire.queue)) /\ (n > base => Sent(n))

(* Above the cursor there is only what is not published yet, or, while the *)
(* topic replays, what the replay is still to read and what waits for it.  *)
LiveWhole ==
  sub.cursor # Off /\ ~sub.replaying /\ link = "open" =>
    \A n \in journal.stored : n > sub.cursor => n > PublishedUpTo
PageWhole ==
  incoming.at = "send" =>
    /\ \A n \in journal.stored, p \in incoming.page : incoming.after < n /\ n <= p => n \in incoming.page
    /\ Topic = "bus" =>
         \A n \in journal.stored : incoming.after < n /\ n <= incoming.mark => n \in incoming.page
MarkReached ==
  incoming.at \in {"mark", "drain"} => \A n \in journal.stored : n <= incoming.mark => n <= sub.cursor
PendingWhole ==
  /\ \A i, j \in DOMAIN sub.pending : i < j => sub.pending[i] < sub.pending[j]
  /\ \A i \in DOMAIN sub.pending : sub.pending[i] <= PublishedUpTo
  /\ sub.replaying /\ link = "open" /\ incoming.at # "get" =>
       \A n \in journal.stored : n > sub.cursor /\ n > incoming.mark /\ n <= PublishedUpTo =>
         \E i \in DOMAIN sub.pending : sub.pending[i] = n

Whole ==
  /\ DueInTurn /\ QueueWhole /\ NoHole /\ CursorWhole
  /\ LiveWhole /\ PageWhole /\ MarkReached /\ PendingWhole

StreamInv ==
  /\ JournalType /\ WriterTypes /\ Types
  /\ Places /\ InOrder
  /\ Topic # "ai" => Whole

-----------------------------------------------------------------------------
(* A client keeps the numbers of its topic, as the protocol asks it to.    *)
Setting == StreamAssumption /\ Watermark = "topic"
JournalGrows ==
  /\ JournalType /\ JournalType' /\ journal.last <= journal'.last
  /\ \A n \in journal'.stored : n \in journal.stored \/ n > journal.last

LEMMA RecordedIs ==
  ASSUME Setting, JournalType, Record
  PROVE  /\ JournalGrows /\ journal'.last <= journal.last + 2
         /\ Recorded.batch \in Seq(Nat) /\ Recorded.batch # <<>>
         /\ \A k \in DOMAIN Recorded.batch : Recorded.batch[k] \in (journal.last + 1)..journal'.last
         /\ Topic # "ai" => journal'.last = journal.last + 1 /\ Recorded.batch = <<journal.last + 1>>
<1> DEFINE n == journal.last + 1
           S == Recorded.stored
           B == Recorded.batch
<1>1. journal.last \in Nat /\ n \in Nat /\ n + 1 \in Nat /\ journal.stored \subseteq Nat
      /\ journal.stored \subseteq 1..journal.last /\ JournalType
  BY DEF JournalType, Given
<1>2. /\ \A m \in S : m \in journal.stored \/ m = n \/ (B = <<n, n + 1>> /\ m = n + 1)
      /\ B = <<n>> \/ (Topic = "ai" /\ B = <<n, n + 1>>)
  <2>1. CASE Topic = "run" \/ ~Trimmed(journal.stored \cup {n})
    BY <2>1, Zenon DEF Recorded
  <2>2. CASE Topic = "bus" /\ ~(Topic = "run" \/ ~Trimmed(journal.stored \cup {n}))
    <3>1. B = <<n>> /\ S = Newest(journal.stored \cup {n}, Kept)
      BY <2>2, Zenon DEF Recorded
    <3> QED
      BY <3>1, Zenon DEF Newest
  <2>3. CASE Topic # "bus" /\ ~(Topic = "run" \/ ~Trimmed(journal.stored \cup {n}))
    <3>1. B = <<n, n + 1>> /\ S = Newest(journal.stored \cup {n}, Kept) \cup {n + 1}
      BY <2>3, Zenon DEF Recorded
    <3>2. Topic = "ai"
      BY <2>3 DEF Setting, StreamAssumption
    <3> QED
      BY <3>1, <3>2, Zenon DEF Newest
  <2> QED
    BY <2>1, <2>2, <2>3, Zenon
<1>3. journal'.last = Last(B) /\ journal'.stored = S /\ journal' = [last |-> Last(B), stored |-> S]
  BY DEF Record
<1> HIDE DEF S, B
<1>4. Last(B) = IF B = <<n>> THEN n ELSE n + 1
  <2>1. CASE B = <<n>>
    <3>1. Len(B) = 1 /\ B[1] = n
      BY <2>1
    <3> QED
      BY <2>1, <3>1, Zenon DEF Last
  <2>2. CASE B = <<n, n + 1>>
    <3>1. Len(B) = 2 /\ B[2] = n + 1 /\ B # <<n>>
      BY <2>2
    <3> QED
      BY <2>2, <3>1, Zenon DEF Last
  <2> QED
    BY <1>2, <2>1, <2>2
<1>5. /\ B \in Seq(Nat) /\ B # <<>>
      /\ \A k \in DOMAIN B : B[k] \in n..Last(B)
      /\ Last(B) \in {n, n + 1} /\ (B = <<n, n + 1>> => Last(B) = n + 1)
  <2>1. CASE B = <<n>>
    <3>1. Last(B) = n
      BY <1>4, <2>1
    <3>2. DOMAIN B = {1} /\ B[1] = n /\ B # <<n, n + 1>>
      BY <2>1
    <3> QED
      BY <1>1, <2>1, <3>1, <3>2
  <2>2. CASE B = <<n, n + 1>>
    <3>1. DOMAIN B = {1, 2} /\ B[1] = n /\ B[2] = n + 1 /\ B # <<n>>
      BY <2>2
    <3>2. Last(B) = n + 1
      BY <1>4, <3>1
    <3> QED
      BY <1>1, <2>2, <3>1, <3>2
  <2> QED
    BY <1>2, <2>1, <2>2
<1>6. \A m \in S : m \in 1..Last(B) /\ (m \in journal.stored \/ m > journal.last)
  BY <1>1, <1>2, <1>5
<1>7. S \subseteq Nat
  BY <1>6, <1>5, <1>1
<1>8. JournalGrows
  BY <1>3, <1>5, <1>6, <1>7, <1>1 DEF JournalGrows, JournalType, Given
<1>9. Topic # "ai" => B = <<n>> /\ Last(B) = n
  BY <1>2, <1>4
<1>10. B = Recorded.batch
  BY DEF B
<1> QED
  BY <1>1, <1>3, <1>5, <1>8, <1>9, <1>10

LEMMA EnqueueIs ==
  ASSUME Setting, WireType, NEW n \in Nat, NEW kind \in {"event", "other", "subscribed"}, enqueue(n, kind)
  PROVE  /\ WireType'
         /\ Full => link' = "slow" /\ wire'.queue = wire.queue
         /\ ~Full => /\ link' = link /\ Len(wire'.queue) = Len(wire.queue) + 1
                     /\ \A i \in 1..Len(wire.queue) : wire'.queue[i] = wire.queue[i]
                     /\ wire'.queue[Len(wire.queue) + 1].n = n
                     /\ wire'.queue[Len(wire.queue) + 1].kind = kind
<1>1. wire \in [seq: Nat, queue: Seq(Entry)] /\ Len(wire.queue) <= QueueSize /\ QueueSize \in Nat
      /\ Len(wire.queue) \in Nat
  BY DEF WireType, Setting, StreamAssumption
<1>2. CASE Full
  BY <1>1, <1>2 DEF enqueue, Full, WireType
<1>3. CASE ~Full
  <2>1. /\ Item(n, kind) \in Entry /\ Item(n, kind).n = n /\ Item(n, kind).kind = kind
    BY <1>1 DEF Item, Entry
  <2>2. /\ wire' = [seq |-> wire.seq + 1, queue |-> Append(wire.queue, Item(n, kind))] /\ link' = link
    BY <1>3 DEF enqueue
  <2>3. wire'.queue = Append(wire.queue, Item(n, kind))
    BY <2>2
  <2>4. /\ Append(wire.queue, Item(n, kind)) \in Seq(Entry)
        /\ Len(Append(wire.queue, Item(n, kind))) = Len(wire.queue) + 1
        /\ \A i \in 1..Len(wire.queue) : Append(wire.queue, Item(n, kind))[i] = wire.queue[i]
        /\ Append(wire.queue, Item(n, kind))[Len(wire.queue) + 1] = Item(n, kind)
    BY <1>1, <2>1, AppendProperties
  <2>5. Len(wire.queue) < QueueSize
    BY <1>1, <1>3 DEF Full
  <2>6. wire' \in [seq: Nat, queue: Seq(Entry)]
    BY <1>1, <2>2, <2>4
  <2> QED
    BY <1>1, <1>3, <2>1, <2>2, <2>3, <2>4, <2>5, <2>6 DEF WireType
<1> QED
  BY <1>2, <1>3

(* What is due: a batch is added, or the first number of one is published. *)
LEMMA RemoveIs ==
  ASSUME NEW S, NEW s \in Seq(S), NEW i \in DOMAIN s
  PROVE  /\ RemoveAt(s, i) \in Seq(S) /\ Len(RemoveAt(s, i)) = Len(s) - 1
         /\ \A j \in DOMAIN RemoveAt(s, i) : \E k \in DOMAIN s : RemoveAt(s, i)[j] = s[k]
         /\ i = 1 => \A j \in DOMAIN RemoveAt(s, i) : RemoveAt(s, i)[j] = s[j + 1]
<1> DEFINE A == SubSeq(s, 1, i - 1)
           B == SubSeq(s, i + 1, Len(s))
<1>1. Len(s) \in Nat /\ DOMAIN s = 1..Len(s) /\ i \in 1..Len(s) /\ \A j \in 1..Len(s) : s[j] \in S
  OBVIOUS
<1>2. /\ A \in Seq(S) /\ Len(A) = i - 1 /\ \A j \in 1..(i - 1) : A[j] = s[j]
  BY <1>1, SubSeqProperties
<1>3. /\ B \in Seq(S) /\ Len(B) = Len(s) - i /\ \A j \in 1..(Len(s) - i) : B[j] = s[i + j]
  BY <1>1, SubSeqProperties
<1>4. RemoveAt(s, i) = A \o B
  BY Zenon DEF RemoveAt
<1> HIDE DEF A, B
<1>5. /\ A \o B \in Seq(S) /\ Len(A \o B) = Len(s) - 1
      /\ \A j \in 1..(Len(s) - 1) : (A \o B)[j] = IF j <= i - 1 THEN A[j] ELSE B[j - (i - 1)]
  <2>1. /\ A \o B \in Seq(S) /\ Len(A \o B) = Len(A) + Len(B)
        /\ \A j \in 1..(Len(A) + Len(B)) : (A \o B)[j] = IF j <= Len(A) THEN A[j] ELSE B[j - Len(A)]
    BY ONLY <1>2, <1>3, ConcatProperties
  <2>2. Len(A) + Len(B) = Len(s) - 1 /\ Len(A) = i - 1
    BY ONLY <1>1, <1>2, <1>3
  <2> QED
    BY ONLY <2>1, <2>2
<1>6. \A j \in 1..(Len(s) - 1) :
        /\ j <= i - 1 => j \in 1..Len(s) /\ (A \o B)[j] = s[j]
        /\ ~(j <= i - 1) => j + 1 \in 1..Len(s) /\ (A \o B)[j] = s[j + 1]
  <2> TAKE j \in 1..(Len(s) - 1)
  <2>0. Len(s) \in Nat /\ j \in Nat /\ j >= 1 /\ j <= Len(s) - 1 /\ i \in 1..Len(s)
    BY ONLY <1>1
  <2>1. CASE j <= i - 1
    BY <2>0, <1>1, <1>2, <1>5, <2>1
  <2>2. CASE ~(j <= i - 1)
    <3>1. j - (i - 1) \in 1..(Len(s) - i) /\ i + (j - (i - 1)) = j + 1
      BY <2>0, <2>2
    <3>2. (A \o B)[j] = B[j - (i - 1)]
      BY <1>5, <2>2
    <3>3. B[j - (i - 1)] = s[i + (j - (i - 1))]
      BY <1>3, <3>1
    <3>4. (A \o B)[j] = s[j + 1]
      BY ONLY <3>1, <3>2, <3>3
    <3>5. j + 1 \in 1..Len(s)
      BY ONLY <2>0
    <3> QED
      BY ONLY <2>2, <3>4, <3>5, Zenon
  <2> QED
    BY <2>1, <2>2
<1>7. DOMAIN (A \o B) = 1..(Len(s) - 1)
  BY <1>5
<1>8. \A j \in 1..(Len(s) - 1) : \E k \in 1..Len(s) : (A \o B)[j] = s[k]
  BY ONLY <1>6, Zenon
<1>9. i = 1 => \A j \in 1..(Len(s) - 1) : (A \o B)[j] = s[j + 1]
  <2> SUFFICES ASSUME i = 1, NEW j \in 1..(Len(s) - 1)
               PROVE  (A \o B)[j] = s[j + 1]
    OBVIOUS
  <2>1. ~(j <= i - 1)
    BY <1>1
  <2> QED
    BY ONLY <1>6, <2>1, Zenon
<1> QED
  BY ONLY <1>1, <1>4, <1>5, <1>7, <1>8, <1>9

-----------------------------------------------------------------------------
(* Types, places and order                                                 *)
Sound == Types /\ Places /\ InOrder

LEMMA GivenGrows ==
  ASSUME JournalGrows
  PROVE  /\ journal.last \in Nat /\ journal'.last \in Nat /\ journal.last <= journal'.last
         /\ Given \subseteq Given' /\ 0..journal.last \subseteq 0..journal'.last /\ Given \subseteq Nat
         /\ Given' = 1..journal'.last /\ Given' \subseteq Nat
<1>1. journal.last \in Nat /\ journal'.last \in Nat /\ journal.last <= journal'.last
  BY DEF JournalGrows, JournalType
<1> QED
  BY <1>1 DEF Given

LEMMA GrowthKeeps ==
  ASSUME JournalGrows
  PROVE  /\ SubGiven /\ UNCHANGED sub => SubGiven'
         /\ ReplayGiven /\ UNCHANGED incoming => ReplayGiven'
         /\ QueueGiven /\ UNCHANGED wire => QueueGiven'
         /\ ClientGiven /\ UNCHANGED client => ClientGiven'
         /\ SentGiven /\ UNCHANGED sent => SentGiven'
<1>1. Given \subseteq Given' /\ 0..journal.last \subseteq 0..journal'.last
  BY GivenGrows
<1>2. SubGiven /\ UNCHANGED sub => SubGiven'
  BY ONLY <1>1, Zenon DEF SubGiven
<1>3. ReplayGiven /\ UNCHANGED incoming => ReplayGiven'
  BY ONLY <1>1, Zenon DEF ReplayGiven
<1>4. QueueGiven /\ UNCHANGED wire => QueueGiven'
  BY ONLY <1>1, Zenon DEF QueueGiven
<1>5. ClientGiven /\ UNCHANGED client => ClientGiven'
  BY ONLY <1>1, Zenon DEF ClientGiven
<1>6. SentGiven /\ UNCHANGED sent => SentGiven'
  BY ONLY <1>1, Zenon DEF SentGiven
<1> QED
  BY ONLY <1>2, <1>3, <1>4, <1>5, <1>6, Zenon

LEMMA TypesKept ==
  /\ SubType /\ UNCHANGED sub => SubType'
  /\ ReplayType /\ UNCHANGED incoming => ReplayType'
  /\ WireType /\ UNCHANGED wire => WireType'
  /\ ClientType /\ UNCHANGED client => ClientType'
  /\ SentType /\ UNCHANGED <<base, sent>> => SentType'
<1>1. SubType /\ UNCHANGED sub => SubType'
  BY Zenon DEF SubType
<1>2. ReplayType /\ UNCHANGED incoming => ReplayType'
  BY Zenon DEF ReplayType
<1>3. WireType /\ UNCHANGED wire => WireType'
  BY Zenon DEF WireType
<1>4. ClientType /\ UNCHANGED client => ClientType'
  BY Zenon DEF ClientType
<1>5. SentType /\ UNCHANGED <<base, sent>> => SentType'
  BY DEF SentType
<1> QED
  BY <1>1, <1>2, <1>3, <1>4, <1>5, Zenon

LEMMA SoundKept ==
  ASSUME Sound, JournalGrows, UNCHANGED <<sub, incoming, wire, link, client, base, sent>>
  PROVE  Sound'
<1>1. UNCHANGED sub /\ UNCHANGED incoming /\ UNCHANGED wire /\ UNCHANGED link /\ UNCHANGED client
      /\ UNCHANGED base /\ UNCHANGED sent /\ UNCHANGED <<base, sent>>
  OBVIOUS
<1>2. Types'
  BY ONLY <1>1, Sound, JournalGrows, GrowthKeeps, TypesKept, Zenon DEF Sound, Types
<1>3. Places'
  BY ONLY <1>1, Sound, Zenon DEF Sound, Places, NoSub
<1>4. InOrder'
  BY ONLY <1>1, Sound, Zenon DEF Sound, InOrder
<1> QED
  BY <1>2, <1>3, <1>4 DEF Sound

(* An event above the cursor is sent, or the connection is cut.            *)
LEMMA SentIs ==
  ASSUME Sound, JournalGrows, NEW n \in Given', sub.cursor # Off, n > sub.cursor,
         sent' = IF Full THEN sent ELSE Append(sent, n), UNCHANGED base
  PROVE  /\ SentType' /\ SentGiven' /\ \A i \in DOMAIN sent' : sent'[i] <= n
         /\ InOrder' /\ base' <= n
         /\ ~Full => Sent(n)'
         /\ \A m : Sent(m) => Sent(m)'
<1>1. /\ journal.last \in Nat /\ n \in Nat /\ Given \subseteq Given' /\ Given \subseteq Nat
      /\ Given' = 1..journal'.last /\ journal'.last \in Nat
  BY GivenGrows
<1>2. /\ base \in Nat /\ sent \in Seq(Nat) /\ Len(sent) \in Nat
      /\ \A i \in DOMAIN sent : sent[i] \in Nat /\ sent[i] \in Given
  BY <1>1 DEF Sound, Types, SentType, SentGiven
<1>3. /\ sub.cursor \in Nat /\ base <= sub.cursor /\ \A i \in DOMAIN sent : sent[i] <= sub.cursor
  BY <1>1 DEF Sound, Types, SubGiven, Places
<1>4. InOrder
  BY DEF Sound
<1>5. CASE Full
  <2>1. sent' = sent /\ base' = base
    BY <1>5
  <2>2. SentType' /\ SentGiven'
    BY ONLY <1>1, <1>2, <2>1 DEF SentType, SentGiven
  <2>3. InOrder' /\ base' <= n /\ \A i \in DOMAIN sent' : sent'[i] <= n
    BY ONLY <1>1, <1>2, <1>3, <1>4, <2>1, n > sub.cursor DEF InOrder
  <2>4. \A m : Sent(m) => Sent(m)'
    BY ONLY <2>1, Zenon DEF Sent
  <2> QED
    BY ONLY <1>5, <2>2, <2>3, <2>4, Zenon
<1>6. CASE ~Full
  <2>1. sent' = Append(sent, n) /\ base' = base
    BY <1>6
  <2>2. /\ sent' \in Seq(Nat) /\ DOMAIN sent' = 1..(Len(sent) + 1) /\ DOMAIN sent = 1..Len(sent)
        /\ \A i \in 1..Len(sent) : sent'[i] = sent[i]
        /\ sent'[Len(sent) + 1] = n
    BY ONLY <1>1, <1>2, <2>1, AppendProperties
  <2>3. \A i \in DOMAIN sent' : (i \in DOMAIN sent /\ sent'[i] = sent[i]) \/ (i = Len(sent) + 1 /\ sent'[i] = n)
    BY ONLY <1>2, <2>2
  <2>4. \A i \in DOMAIN sent' : sent'[i] \in Given' /\ sent'[i] <= n /\ sent'[i] > base
    BY ONLY <1>1, <1>2, <1>3, <1>4, <2>3, n > sub.cursor, n \in Given' DEF InOrder
  <2>5. \A i, j \in DOMAIN sent' : i < j => sent'[i] < sent'[j]
    <3> SUFFICES ASSUME NEW i \in DOMAIN sent', NEW j \in DOMAIN sent', i < j
                 PROVE  sent'[i] < sent'[j]
      OBVIOUS
    <3>1. i \in DOMAIN sent /\ sent'[i] = sent[i]
      BY <1>2, <2>2
    <3>2. CASE j \in DOMAIN sent /\ sent'[j] = sent[j]
      BY <1>4, <3>1, <3>2 DEF InOrder
    <3>3. CASE sent'[j] = n
      BY <1>1, <1>2, <1>3, <3>1, <3>3
    <3> QED
      BY <2>3, <3>2, <3>3
  <2>6. InOrder'
    BY ONLY <2>1, <2>4, <2>5 DEF InOrder
  <2>7. Sent(n)' /\ \A m : Sent(m) => Sent(m)'
    <3>1. /\ Len(sent) + 1 \in DOMAIN sent'
          /\ \A i \in DOMAIN sent : i \in DOMAIN sent' /\ sent'[i] = sent[i]
      BY ONLY <1>2, <2>2
    <3> QED
      BY ONLY <2>2, <3>1, Zenon DEF Sent
  <2>8. SentType' /\ SentGiven'
    BY ONLY <1>2, <2>1, <2>2, <2>4 DEF SentType, SentGiven
  <2>9. base' <= n
    BY ONLY <1>1, <1>2, <1>3, <2>1, n > sub.cursor
  <2> QED
    BY ONLY <2>4, <2>6, <2>7, <2>8, <2>9, Zenon
<1> QED
  BY <1>5, <1>6

LEMMA QueuedIs ==
  ASSUME Setting, Sound, JournalGrows, NEW n \in 0..journal'.last, NEW kind \in {"event", "other", "subscribed"},
         kind = "event" => n \in Given', enqueue(n, kind)
  PROVE  WireType' /\ QueueGiven' /\ link' \in {link, "slow"}
<1>1. /\ Given \subseteq Given' /\ 0..journal.last \subseteq 0..journal'.last /\ n \in Nat
  BY GivenGrows
<1>2. WireType /\ QueueGiven
  BY DEF Sound, Types
<1>3. Len(wire.queue) \in Nat /\ DOMAIN wire.queue = 1..Len(wire.queue)
  BY <1>2 DEF WireType
<1>4. /\ WireType'
      /\ Full => link' = "slow" /\ wire'.queue = wire.queue
      /\ ~Full => /\ link' = link /\ Len(wire'.queue) = Len(wire.queue) + 1
                  /\ \A i \in 1..Len(wire.queue) : wire'.queue[i] = wire.queue[i]
                  /\ wire'.queue[Len(wire.queue) + 1].n = n
                  /\ wire'.queue[Len(wire.queue) + 1].kind = kind
  BY <1>1, <1>2, EnqueueIs
<1>5. DOMAIN wire'.queue = 1..Len(wire'.queue)
  BY <1>4 DEF WireType
<1>6. \A i \in DOMAIN wire'.queue :
        \/ i \in DOMAIN wire.queue /\ wire'.queue[i] = wire.queue[i]
        \/ wire'.queue[i].n = n /\ wire'.queue[i].kind = kind
  BY ONLY <1>3, <1>4, <1>5
<1>7. QueueGiven'
  BY ONLY <1>1, <1>2, <1>6, n \in 0..journal'.last, kind = "event" => n \in Given', Zenon DEF QueueGiven
<1> QED
  BY <1>4, <1>7

LEMMA PendingIs ==
  ASSUME JournalGrows, SubType, SubGiven, NEW n \in Given', ~(Len(sub.pending) >= QueueSize), Setting,
         sub' = [sub EXCEPT !.pending = Append(@, n)]
  PROVE  /\ SubType' /\ SubGiven' /\ sub'.cursor = sub.cursor /\ sub'.replaying = sub.replaying
         /\ Len(sub'.pending) = Len(sub.pending) + 1
         /\ \A i \in DOMAIN sub.pending : i \in DOMAIN sub'.pending /\ sub'.pending[i] = sub.pending[i]
         /\ Len(sub.pending) + 1 \in DOMAIN sub'.pending /\ sub'.pending[Len(sub.pending) + 1] = n
         /\ \A i \in DOMAIN sub'.pending : i \in DOMAIN sub.pending \/ i = Len(sub.pending) + 1
<1>1. sub.pending \in Seq(Nat) /\ Len(sub.pending) \in Nat /\ DOMAIN sub.pending = 1..Len(sub.pending)
      /\ QueueSize \in Nat /\ n \in Nat /\ sub.cursor \in Int /\ sub.replaying \in BOOLEAN
  BY GivenGrows DEF SubType, Setting, StreamAssumption
<1>2. /\ sub' = [cursor |-> sub.cursor, replaying |-> sub.replaying, pending |-> Append(sub.pending, n)]
  BY DEF SubType
<1>3. /\ sub'.pending \in Seq(Nat) /\ Len(sub'.pending) = Len(sub.pending) + 1
      /\ \A i \in 1..Len(sub.pending) : sub'.pending[i] = sub.pending[i]
      /\ sub'.pending[Len(sub.pending) + 1] = n
      /\ sub'.cursor = sub.cursor /\ sub'.replaying = sub.replaying
      /\ DOMAIN sub'.pending = 1..(Len(sub.pending) + 1)
  BY ONLY <1>1, <1>2, AppendProperties
<1>4. SubType'
  <2>1. Append(sub.pending, n) \in Seq(Nat)
    BY ONLY <1>1, AppendProperties
  <2>2. sub' \in [cursor: Int, replaying: BOOLEAN, pending: Seq(Nat)]
    BY ONLY <1>1, <1>2, <2>1
  <2>3. Len(sub'.pending) <= QueueSize
    BY ONLY <1>1, <1>3, ~(Len(sub.pending) >= QueueSize)
  <2> QED
    BY <2>2, <2>3 DEF SubType
<1>5. /\ \A i \in DOMAIN sub.pending : i \in DOMAIN sub'.pending /\ sub'.pending[i] = sub.pending[i]
      /\ \A i \in DOMAIN sub'.pending : i \in DOMAIN sub.pending \/ i = Len(sub.pending) + 1
      /\ Len(sub.pending) + 1 \in DOMAIN sub'.pending
  <2>1. /\ Len(sub.pending) \in Nat /\ DOMAIN sub.pending = 1..Len(sub.pending)
        /\ DOMAIN sub'.pending = 1..(Len(sub.pending) + 1)
        /\ \A i \in 1..Len(sub.pending) : sub'.pending[i] = sub.pending[i]
    BY ONLY <1>1, <1>3, Zenon
  <2> QED
    BY ONLY <2>1
<1>6. SubGiven'
  <2>1. Given \subseteq Given' /\ 0..journal.last \subseteq 0..journal'.last
    BY GivenGrows
  <2> QED
    BY ONLY <1>3, <1>5, <2>1, SubGiven, n \in Given', Zenon DEF SubGiven
<1> QED
  BY ONLY <1>3, <1>4, <1>5, <1>6, Zenon

LEMMA PublishSound ==
  ASSUME Setting, Sound, JournalGrows, NEW seq \in Given', publish(seq), UNCHANGED <<incoming, client, base>>
  PROVE  Sound'
<1>1. /\ UNCHANGED incoming /\ UNCHANGED client /\ UNCHANGED base
      /\ ReplayType' /\ ReplayGiven' /\ ClientType' /\ ClientGiven'
  BY ONLY Sound, JournalGrows, UNCHANGED <<incoming, client, base>>, GrowthKeeps, TypesKept DEF Sound, Types
<1>2. CASE Skips(seq)
  <2>1. UNCHANGED <<sub, wire, link, sent>>
    BY <1>2, Zenon DEF publish
  <2> QED
    BY <2>1, SoundKept
<1>3. CASE ~Skips(seq) /\ sub.replaying
  <2>1. /\ UNCHANGED wire /\ UNCHANGED sent
        /\ \/ link' = "slow" /\ UNCHANGED sub
           \/ /\ sub' = [sub EXCEPT !.pending = Append(@, seq)] /\ UNCHANGED link
              /\ ~(Len(sub.pending) >= QueueSize)
    BY <1>3 DEF publish
  <2>2. WireType' /\ QueueGiven' /\ SentType' /\ SentGiven' /\ InOrder'
    BY ONLY <1>1, <2>1, Sound, JournalGrows, GrowthKeeps, TypesKept, Zenon DEF Sound, Types, InOrder, SentType
  <2>3. CASE link' = "slow" /\ UNCHANGED sub
    <3>1. Types'
      BY ONLY <1>1, <2>2, <2>3, Sound, JournalGrows, GrowthKeeps, TypesKept DEF Sound, Types
    <3>2. Places'
      BY ONLY <1>1, <2>1, <2>3, Sound DEF Sound, Places
    <3> QED
      BY <2>2, <3>1, <3>2 DEF Sound
  <2>4. CASE /\ sub' = [sub EXCEPT !.pending = Append(@, seq)] /\ UNCHANGED link
             /\ ~(Len(sub.pending) >= QueueSize)
    <3>1. SubType' /\ SubGiven' /\ sub'.cursor = sub.cursor /\ sub'.replaying = sub.replaying
      BY <2>4, PendingIs DEF Sound, Types
    <3>2. Types'
      BY ONLY <1>1, <2>2, <2>4, <3>1, Sound DEF Sound, Types
    <3>3. link' = "open"
      BY <1>3, <2>4 DEF Skips, Registered
    <3>4. Places'
      BY ONLY <1>1, <2>1, <3>1, <3>3, Sound DEF Sound, Places
    <3> QED
      BY <2>2, <3>2, <3>4 DEF Sound
  <2> QED
    BY <2>1, <2>3, <2>4
<1>4. CASE ~Skips(seq) /\ ~sub.replaying
  <2>1. /\ sub' = [sub EXCEPT !.cursor = seq] /\ enqueue(seq, "event")
        /\ sent' = IF Full THEN sent ELSE Append(sent, seq)
    BY <1>4, Zenon DEF publish
  <2>2. link = "open" /\ sub.cursor # Off /\ seq > sub.cursor /\ seq \in 0..journal'.last /\ seq \in Nat
    <3>1. seq \in Nat /\ sub.cursor \in Int /\ seq \in 0..journal'.last
      BY GivenGrows DEF Sound, Types, SubType
    <3>2. link = "open" /\ sub.cursor # Off /\ ~(seq <= sub.cursor)
      BY <1>4 DEF Skips, Registered
    <3> QED
      BY ONLY <3>1, <3>2
  <2>3. /\ SentType' /\ SentGiven' /\ \A i \in DOMAIN sent' : sent'[i] <= seq
        /\ InOrder' /\ base' <= seq
    BY <1>1, <2>1, <2>2, SentIs
  <2>4. WireType' /\ QueueGiven' /\ link' \in {link, "slow"}
    BY <2>1, <2>2, QueuedIs
  <2>5. sub' = [cursor |-> seq, replaying |-> sub.replaying, pending |-> sub.pending] /\ SubType /\ SubGiven
    BY <2>1 DEF Sound, Types, SubType
  <2>6. SubType'
    BY ONLY <2>2, <2>5 DEF SubType
  <2>7. SubGiven'
    BY ONLY <2>2, <2>5, JournalGrows, GivenGrows DEF SubGiven
  <2>8. Types'
    BY ONLY <1>1, <2>2, <2>3, <2>4, <2>6, <2>7, Sound DEF Sound, Types
  <2>9. incoming.at = "idle" /\ sub'.cursor = seq /\ ~sub'.replaying /\ link' # "down" /\ incoming.page = {}
    BY ONLY <1>4, <2>2, <2>4, <2>5, Sound DEF Sound, Places
  <2>10. Places'
    BY ONLY <1>1, <2>3, <2>9 DEF Places
  <2> QED
    BY <2>3, <2>8, <2>10 DEF Sound
<1> QED
  BY <1>2, <1>3, <1>4

-----------------------------------------------------------------------------
(* The actions: their types, places and order                              *)
LEMMA GrowsNot ==
  ASSUME JournalType, UNCHANGED journal
  PROVE  JournalGrows /\ Given' = Given
<1>1. JournalType' /\ journal.last <= journal'.last /\ Given' = Given
  BY DEF JournalType, Given
<1> QED
  BY <1>1 DEF JournalGrows

LEMMA SubscribeSound ==
  ASSUME Setting, JournalType, Sound, Subscribe
  PROVE  Sound'
<1>1. /\ UNCHANGED journal /\ UNCHANGED wire /\ UNCHANGED link /\ link = "open" /\ incoming.at = "idle"
      /\ sub' = [cursor |-> client.seen, replaying |-> TRUE, pending |-> <<>>]
      /\ incoming' = [NoReplay EXCEPT !.at = "get", !.after = client.seen]
      /\ client' = [client EXCEPT !.marked = FALSE]
      /\ base' = client.seen /\ sent' = <<>>
  BY DEF Subscribe, Registered, Waits
<1>2. JournalGrows /\ Given' = Given
  BY <1>1, GrowsNot
<1>3. client.seen \in 0..journal.last /\ client.got \subseteq Given /\ client.seen \in Nat
      /\ journal'.last = journal.last /\ journal.last \in Nat
  BY <1>1 DEF Sound, Types, ClientGiven, ClientType, JournalType
<1>4. WireType' /\ QueueGiven'
  BY ONLY <1>1, <1>2, Sound, GrowthKeeps, TypesKept DEF Sound, Types
<1>5. SubType' /\ SubGiven'
  BY ONLY <1>1, <1>3, Setting DEF SubType, SubGiven, Setting, StreamAssumption
<1>6. incoming' = [at |-> "get", after |-> client.seen, mark |-> 0, page |-> {}]
  BY ONLY <1>1 DEF NoReplay
<1>7. ReplayType' /\ ReplayGiven'
  BY ONLY <1>3, <1>6 DEF ReplayType, ReplayGiven
<1>8. ClientType' /\ ClientGiven'
  BY ONLY <1>1, <1>2, <1>3, Sound DEF Sound, Types, ClientType, ClientGiven
<1>9. SentType' /\ SentGiven'
  BY ONLY <1>1, <1>3 DEF SentType, SentGiven
<1>10. Types'
  BY ONLY <1>1, <1>4, <1>5, <1>7, <1>8, <1>9 DEF Types
<1>11. Places'
  <2>1. /\ incoming'.at = "get" /\ incoming'.after = client.seen /\ incoming'.page = {}
        /\ sub'.cursor = client.seen /\ sub'.replaying = TRUE /\ sub'.cursor # Off
        /\ base' <= sub'.cursor /\ sent' = <<>> /\ link' # "down"
    <3>1. incoming'.at = "get" /\ incoming'.after = client.seen /\ incoming'.page = {}
      BY ONLY <1>6
    <3>2. sub'.cursor = client.seen /\ sub'.replaying = TRUE /\ sent' = <<>> /\ link' # "down" /\ base' = client.seen
      BY ONLY <1>1
    <3>3. client.seen # Off /\ client.seen <= client.seen
      BY ONLY <1>3 DEF Off
    <3> QED
      BY ONLY <3>1, <3>2, <3>3
  <2> QED
    BY ONLY <2>1 DEF Places
<1>12. InOrder'
  BY ONLY <1>1 DEF InOrder
<1> QED
  BY <1>10, <1>11, <1>12 DEF Sound

LEMMA GoneIs ==
  ASSUME Setting, Sound, JournalGrows, sub' = NoSub
  PROVE  SubType' /\ SubGiven' /\ sub'.cursor = Off /\ ~sub'.replaying /\ sub'.pending = <<>>
<1>1. QueueSize \in Nat
  BY DEF Setting, StreamAssumption
<1> QED
  BY <1>1 DEF NoSub, SubType, SubGiven, Off

LEMMA UnsubscribeSound ==
  ASSUME Setting, JournalType, Sound, Unsubscribe
  PROVE  Sound'
<1>1. /\ UNCHANGED journal /\ UNCHANGED incoming /\ UNCHANGED wire /\ UNCHANGED link /\ UNCHANGED client
      /\ UNCHANGED base /\ UNCHANGED sent /\ UNCHANGED <<base, sent>>
      /\ sub' = NoSub /\ link = "open" /\ incoming.at = "idle"
  BY DEF Unsubscribe, Registered, Waits
<1>2. JournalGrows
  BY <1>1, GrowsNot
<1>3. SubType' /\ SubGiven' /\ sub'.cursor = Off /\ ~sub'.replaying
  BY <1>1, <1>2, GoneIs
<1>4. Types'
  BY ONLY <1>1, <1>2, <1>3, Sound, GrowthKeeps, TypesKept DEF Sound, Types
<1>5. Places' /\ InOrder'
  BY ONLY <1>1, <1>3, Sound DEF Sound, Places, InOrder
<1> QED
  BY <1>4, <1>5 DEF Sound

LEMMA CloseSound ==
  ASSUME Setting, JournalType, Sound, Close
  PROVE  Sound'
<1>1. /\ UNCHANGED journal /\ UNCHANGED client /\ UNCHANGED base /\ UNCHANGED sent /\ UNCHANGED <<base, sent>>
      /\ sub' = NoSub /\ incoming' = NoReplay /\ link' = "down" /\ wire' = [wire EXCEPT !.queue = <<>>]
  BY DEF Close
<1>2. JournalGrows /\ Given' = Given /\ journal.last \in Nat
  BY <1>1, GrowsNot DEF JournalType
<1>3. SubType' /\ SubGiven' /\ sub'.cursor = Off /\ ~sub'.replaying
  BY <1>1, <1>2, GoneIs
<1>4. incoming' = [at |-> "idle", after |-> 0, mark |-> 0, page |-> {}]
  BY <1>1 DEF NoReplay
<1>5. ReplayType' /\ ReplayGiven'
  BY ONLY <1>1, <1>2, <1>4 DEF ReplayType, ReplayGiven
<1>6. WireType' /\ QueueGiven' /\ wire'.queue = <<>>
  <2>1. wire \in [seq: Nat, queue: Seq(Entry)] /\ QueueSize \in Nat
    BY DEF Sound, Types, WireType, Setting, StreamAssumption
  <2>2. wire' = [seq |-> wire.seq, queue |-> <<>>]
    BY ONLY <1>1, <2>1
  <2> QED
    BY ONLY <2>1, <2>2 DEF WireType, QueueGiven
<1>7. Types'
  BY ONLY <1>1, <1>2, <1>3, <1>5, <1>6, Sound, GrowthKeeps, TypesKept DEF Sound, Types
<1>8. Places' /\ InOrder'
  BY ONLY <1>1, <1>3, <1>4, <1>6, Sound DEF Sound, Places, InOrder
<1> QED
  BY <1>7, <1>8 DEF Sound

LEMMA ConnectSound ==
  ASSUME Setting, JournalType, Sound, Connect
  PROVE  Sound'
<1>1. /\ UNCHANGED journal /\ UNCHANGED incoming /\ UNCHANGED wire /\ UNCHANGED sub /\ UNCHANGED client
      /\ UNCHANGED base /\ UNCHANGED sent /\ UNCHANGED <<base, sent>> /\ link' = "open"
  BY DEF Connect
<1>2. JournalGrows
  BY <1>1, GrowsNot
<1>3. Types'
  BY ONLY <1>1, <1>2, Sound, GrowthKeeps, TypesKept DEF Sound, Types
<1>4. Places' /\ InOrder'
  BY ONLY <1>1, Sound DEF Sound, Places, InOrder
<1> QED
  BY <1>3, <1>4 DEF Sound

LEMMA BroadcastSound ==
  ASSUME Setting, JournalType, Sound, Broadcast
  PROVE  Sound'
<1>1. /\ UNCHANGED journal /\ UNCHANGED incoming /\ UNCHANGED sub /\ UNCHANGED client
      /\ UNCHANGED base /\ UNCHANGED sent /\ UNCHANGED <<base, sent>> /\ link = "open"
      /\ enqueue(0, "other")
  BY DEF Broadcast, Registered
<1>2. JournalGrows /\ 0 \in 0..journal'.last
  BY <1>1, GrowsNot DEF JournalType
<1>3. WireType' /\ QueueGiven' /\ link' \in {link, "slow"}
  BY <1>1, <1>2, QueuedIs
<1>4. Types'
  BY ONLY <1>1, <1>2, <1>3, Sound, GrowthKeeps, TypesKept DEF Sound, Types
<1>5. Places' /\ InOrder'
  BY ONLY <1>1, <1>3, Sound DEF Sound, Places, InOrder
<1> QED
  BY <1>4, <1>5 DEF Sound

(* An item is received: what the client has is what the journal gave out.  *)
LEMMA ReceivedIs ==
  ASSUME Setting, Sound, NEW e \in Entry, e.kind = "event" => e.n \in Given, e.n \in 0..journal.last,
         client' = Received(e)
  PROVE  /\ ClientType' /\ client'.seen \in 0..journal.last /\ client'.got \subseteq Given
         /\ client'.seen >= client.seen /\ client.got \subseteq client'.got
         /\ client'.seen = client.seen \/ (e.kind # "other" /\ client'.seen = e.n)
         /\ e.kind = "event" => e.n <= client.seen \/ e.n \in client'.got
<1>1. Number(e) = e.n /\ e.n \in Nat
  BY DEF Number, Setting, Entry
<1>2. /\ client \in [seen: Nat, got: SUBSET Nat, marked: BOOLEAN]
      /\ client.seen \in 0..journal.last /\ client.got \subseteq Given
  BY DEF Sound, Types, ClientType, ClientGiven
<1>3. CASE e.kind = "event" /\ e.n > client.seen
  <2>1. client' = [client EXCEPT !.seen = e.n, !.got = @ \cup {e.n}]
    BY <1>1, <1>3 DEF Received
  <2>2. client' = [seen |-> e.n, got |-> client.got \cup {e.n}, marked |-> client.marked]
    BY <1>2, <2>1
  <2> QED
    BY ONLY <1>1, <1>2, <1>3, <2>2, e.n \in 0..journal.last, e.kind = "event" => e.n \in Given DEF ClientType
<1>4. CASE e.kind = "subscribed"
  <2>1. client' = [client EXCEPT !.seen = IF @ < e.n THEN e.n ELSE @, !.marked = TRUE]
    BY <1>1, <1>4 DEF Received
  <2>2. client' = [seen |-> IF client.seen < e.n THEN e.n ELSE client.seen, got |-> client.got, marked |-> TRUE]
    BY <1>2, <2>1
  <2> QED
    BY ONLY <1>1, <1>2, <1>4, <2>2, e.n \in 0..journal.last DEF ClientType
<1>5. CASE ~(e.kind = "event" /\ e.n > client.seen) /\ e.kind # "subscribed"
  <2>1. client' = client
    BY <1>1, <1>5 DEF Received
  <2>2. e.n <= client.seen \/ e.kind # "event"
    BY ONLY <1>1, <1>2, <1>5
  <2> QED
    BY ONLY <1>2, <2>1, <2>2 DEF ClientType
<1> QED
  BY <1>3, <1>4, <1>5

LEMMA PumpIs ==
  ASSUME Setting, JournalType, Sound, Pump
  PROVE  /\ Sound'
         /\ Len(wire'.queue) = Len(wire.queue) - 1 /\ Len(wire.queue) > 0
         /\ Len(wire.queue) \in Nat /\ DOMAIN wire.queue = 1..Len(wire.queue)
         /\ DOMAIN wire'.queue = 1..Len(wire'.queue)
         /\ \A i \in DOMAIN wire'.queue : i + 1 \in DOMAIN wire.queue /\ wire'.queue[i] = wire.queue[i + 1]
         /\ client'.seen >= client.seen /\ client.got \subseteq client'.got
         /\ client'.seen = client.seen \/ (wire.queue[1].kind # "other" /\ client'.seen = wire.queue[1].n)
         /\ wire.queue[1].kind = "event" => wire.queue[1].n <= client.seen \/ wire.queue[1].n \in client'.got
<1>1. /\ UNCHANGED journal /\ UNCHANGED incoming /\ UNCHANGED sub /\ UNCHANGED link
      /\ UNCHANGED base /\ UNCHANGED sent /\ UNCHANGED <<base, sent>> /\ link = "open" /\ wire.queue # <<>>
      /\ client' = Received(Head(wire.queue)) /\ wire' = [wire EXCEPT !.queue = Tail(@)]
  BY DEF Pump
<1>2. JournalGrows /\ Given' = Given /\ journal'.last = journal.last
  BY <1>1, GrowsNot
<1>3. wire.queue \in Seq(Entry) /\ wire \in [seq: Nat, queue: Seq(Entry)] /\ Len(wire.queue) \in Nat
      /\ Len(wire.queue) <= QueueSize /\ QueueSize \in Nat /\ DOMAIN wire.queue = 1..Len(wire.queue)
  BY DEF Sound, Types, WireType, Setting, StreamAssumption
<1>4. /\ Tail(wire.queue) \in Seq(Entry) /\ Len(Tail(wire.queue)) = Len(wire.queue) - 1
      /\ \A i \in 1..Len(Tail(wire.queue)) : Tail(wire.queue)[i] = wire.queue[i + 1]
      /\ Len(wire.queue) > 0 /\ Head(wire.queue) = wire.queue[1] /\ 1 \in DOMAIN wire.queue
      /\ wire.queue[1] \in Entry
  BY ONLY <1>1, <1>3, HeadTailProperties
<1>5. wire' = [seq |-> wire.seq, queue |-> Tail(wire.queue)]
  BY ONLY <1>1, <1>3
<1>6. wire'.queue = Tail(wire.queue)
  BY <1>5
<1>7. /\ DOMAIN wire'.queue = 1..Len(wire'.queue)
      /\ \A i \in DOMAIN wire'.queue : i + 1 \in DOMAIN wire.queue /\ wire'.queue[i] = wire.queue[i + 1]
  BY ONLY <1>3, <1>4, <1>6
<1>8. WireType'
  BY ONLY <1>3, <1>4, <1>5 DEF WireType
<1>9. QueueGiven
  BY DEF Sound, Types
<1>10. QueueGiven'
  BY ONLY <1>2, <1>7, <1>9, Zenon DEF QueueGiven
<1>11. /\ wire.queue[1].kind = "event" => wire.queue[1].n \in Given
       /\ wire.queue[1].n \in 0..journal.last
  BY <1>4, <1>9 DEF QueueGiven
<1>12. /\ ClientType' /\ client'.seen \in 0..journal.last /\ client'.got \subseteq Given
       /\ client'.seen >= client.seen /\ client.got \subseteq client'.got
       /\ client'.seen = client.seen \/ (wire.queue[1].kind # "other" /\ client'.seen = wire.queue[1].n)
       /\ wire.queue[1].kind = "event" => wire.queue[1].n <= client.seen \/ wire.queue[1].n \in client'.got
  BY <1>1, <1>4, <1>11, ReceivedIs
<1>13. ClientGiven'
  BY ONLY <1>2, <1>12, Zenon DEF ClientGiven
<1>14. Types'
  BY ONLY <1>1, <1>2, <1>8, <1>10, <1>12, <1>13, Sound, GrowthKeeps, TypesKept DEF Sound, Types
<1>15. Places' /\ InOrder'
  BY ONLY <1>1, Sound DEF Sound, Places, InOrder
<1>16. Sound'
  BY <1>14, <1>15 DEF Sound
<1> QED
  BY ONLY <1>4, <1>3, <1>6, <1>7, <1>12, <1>16, Zenon

(* The replay.                                                             *)
LEMMA RoomIs ==
  ASSUME Setting, Sound, JournalGrows, Room, NEW n \in 0..journal'.last, NEW kind \in {"event", "subscribed"},
         kind = "event" => n \in Given', enqueue(n, kind)
  PROVE  WireType' /\ QueueGiven' /\ UNCHANGED link /\ link = "open" /\ ~Full
<1>1. WireType' /\ QueueGiven' /\ WireType
  BY QueuedIs DEF Sound, Types
<1>2. UNCHANGED link /\ link = "open" /\ ~Full
  BY DEF Room, Registered, enqueue
<1> QED
  BY <1>1, <1>2

LEMMA WatermarkedSound ==
  ASSUME Setting, JournalType, Sound, Watermarked
  PROVE  /\ Sound' /\ sub' = sub /\ link' = link /\ link = "open" /\ incoming.at = "get"
         /\ incoming'.mark = journal.last /\ incoming'.after = incoming.after
         /\ incoming'.at \in {"read", "send"} /\ (incoming'.at = "send" <=> Topic = "bus")
         /\ incoming'.page = IF Topic = "bus" THEN {n \in journal.stored : n > incoming.after} ELSE {}
<1>1. /\ UNCHANGED journal /\ UNCHANGED wire /\ UNCHANGED client
      /\ UNCHANGED base /\ UNCHANGED sent /\ UNCHANGED <<base, sent>> /\ link = "open" /\ incoming.at = "get"
  BY DEF Watermarked, Registered
<1>2. JournalGrows /\ Given' = Given /\ journal'.last = journal.last /\ journal.last \in Nat
      /\ journal.stored \subseteq Given /\ Given \subseteq Nat
  BY <1>1, GrowsNot, GivenGrows DEF JournalType
<1>3. ReplayType /\ ReplayGiven /\ incoming.after \in 0..journal.last /\ incoming.after \in Nat
  BY DEF Sound, Types, ReplayGiven, ReplayType
<1>4. ~FutureCursor
  BY ONLY <1>2, <1>3 DEF FutureCursor
<1> DEFINE P == IF Topic # "bus" THEN {} ELSE {n \in journal.stored : Unseen(n)}
           a == IF Topic # "bus" THEN "read" ELSE "send"
<1>5. /\ incoming' = [incoming EXCEPT !.mark = journal.last, !.at = a, !.page = P]
      /\ UNCHANGED sub /\ UNCHANGED link
  BY <1>4 DEF Watermarked
<1>6. P = IF Topic = "bus" THEN {n \in journal.stored : n > incoming.after} ELSE {}
  BY DEF Unseen
<1>7. P \subseteq Given /\ P \in SUBSET Nat /\ (\A n \in P : n > incoming.after) /\ a \in {"read", "send"}
      /\ (a = "send" <=> Topic = "bus") /\ (a # "send" => P = {})
  BY <1>2, <1>6
<1> HIDE DEF P, a
<1>8. incoming' = [at |-> a, after |-> incoming.after, mark |-> journal.last, page |-> P]
  BY ONLY <1>3, <1>5 DEF ReplayType
<1>9. ReplayType' /\ ReplayGiven'
  BY ONLY <1>2, <1>3, <1>7, <1>8 DEF ReplayType, ReplayGiven
<1>10. Types'
  BY ONLY <1>1, <1>2, <1>5, <1>9, Sound, GrowthKeeps, TypesKept DEF Sound, Types
<1>11. Places'
  BY ONLY <1>1, <1>5, <1>7, <1>8, Sound DEF Sound, Places
<1>12. InOrder'
  BY ONLY <1>1, Sound DEF Sound, InOrder
<1> QED
  BY <1>1, <1>5, <1>6, <1>7, <1>8, <1>10, <1>11, <1>12 DEF Sound

LEMMA ReadPageSound ==
  ASSUME Setting, JournalType, Sound, ReadPage
  PROVE  /\ Sound' /\ UNCHANGED sub /\ incoming.at = "read" /\ UNCHANGED link
         /\ incoming'.after = incoming.after /\ incoming'.mark = incoming.mark
         /\ \/ /\ incoming'.at = "mark" /\ (incoming.after >= incoming.mark \/ Paged = {})
            \/ incoming'.at = "send" /\ incoming'.page = {n \in Paged : n <= incoming.mark}
<1>1. /\ UNCHANGED journal /\ UNCHANGED wire /\ UNCHANGED client /\ UNCHANGED sub /\ UNCHANGED link
      /\ UNCHANGED base /\ UNCHANGED sent /\ UNCHANGED <<base, sent>> /\ link = "open" /\ incoming.at = "read"
      /\ incoming' = IF incoming.after >= incoming.mark \/ Paged = {}
                     THEN [incoming EXCEPT !.at = "mark"]
                     ELSE [incoming EXCEPT !.at = "send", !.page = {n \in Paged : n <= incoming.mark}]
  BY DEF ReadPage, Registered
<1>2. JournalGrows /\ Given' = Given /\ journal'.last = journal.last /\ journal.last \in Nat
      /\ journal.stored \subseteq Given /\ Given \subseteq Nat
  BY <1>1, GrowsNot, GivenGrows DEF JournalType
<1>3. ReplayType /\ ReplayGiven /\ incoming.page = {}
  BY <1>1 DEF Sound, Types, Places
<1> DEFINE P == {n \in Paged : n <= incoming.mark}
<1>4. P \subseteq Given /\ P \in SUBSET Nat /\ \A n \in P : n > incoming.after
  BY <1>2 DEF Paged
<1> HIDE DEF P
<1>5. \/ /\ incoming' = [at |-> "mark", after |-> incoming.after, mark |-> incoming.mark, page |-> {}]
         /\ (incoming.after >= incoming.mark \/ Paged = {})
      \/ incoming' = [at |-> "send", after |-> incoming.after, mark |-> incoming.mark, page |-> P]
  <2>1. CASE (incoming.after >= incoming.mark \/ Paged = {})
    BY <1>1, <1>3, <2>1 DEF ReplayType
  <2>2. CASE ~(incoming.after >= incoming.mark \/ Paged = {})
    <3>1. incoming' = [incoming EXCEPT !.at = "send", !.page = P]
      BY <1>1, <2>2 DEF P
    <3> QED
      BY ONLY <1>3, <3>1 DEF ReplayType
  <2> QED
    BY <2>1, <2>2
<1>6. ReplayType' /\ ReplayGiven'
  <2>1. CASE incoming' = [at |-> "mark", after |-> incoming.after, mark |-> incoming.mark, page |-> {}]
    BY ONLY <1>2, <1>3, <2>1 DEF ReplayType, ReplayGiven
  <2>2. CASE incoming' = [at |-> "send", after |-> incoming.after, mark |-> incoming.mark, page |-> P]
    BY ONLY <1>2, <1>3, <1>4, <2>2 DEF ReplayType, ReplayGiven
  <2> QED
    BY <1>5, <2>1, <2>2
<1>7. Types'
  BY ONLY <1>1, <1>2, <1>6, Sound, GrowthKeeps, TypesKept DEF Sound, Types
<1>8. Places'
  BY ONLY <1>1, <1>4, <1>5, Sound DEF Sound, Places
<1>9. InOrder'
  BY ONLY <1>1, Sound DEF Sound, InOrder
<1> QED
  BY <1>1, <1>5, <1>7, <1>8, <1>9 DEF Sound, P

LEMMA SendEndSound ==
  ASSUME Setting, JournalType, Sound, SendReplayed, incoming.page = {}
  PROVE  /\ Sound' /\ UNCHANGED <<journal, due, sub, wire, link, client, base, sent>> /\ incoming.at = "send"
         /\ incoming'.at = IF Topic = "bus" THEN "mark" ELSE "read"
         /\ incoming'.page = {} /\ incoming'.after = incoming.after /\ incoming'.mark = incoming.mark
<1>1. /\ UNCHANGED journal /\ UNCHANGED due /\ UNCHANGED wire /\ UNCHANGED client /\ UNCHANGED sub /\ UNCHANGED link
      /\ UNCHANGED base /\ UNCHANGED sent /\ UNCHANGED <<base, sent>> /\ incoming.at = "send"
      /\ incoming' = [incoming EXCEPT !.at = IF Topic = "bus" THEN "mark" ELSE "read"]
  BY DEF SendReplayed
<1>2. JournalGrows /\ journal'.last = journal.last /\ Given' = Given
  BY <1>1, GrowsNot
<1>3. ReplayType /\ ReplayGiven /\ incoming.page = {}
  BY DEF Sound, Types
<1>4. incoming' = [at |-> IF Topic = "bus" THEN "mark" ELSE "read", after |-> incoming.after,
                   mark |-> incoming.mark, page |-> {}]
  BY ONLY <1>1, <1>3 DEF ReplayType
<1>5. ReplayType' /\ ReplayGiven'
  BY ONLY <1>2, <1>3, <1>4 DEF ReplayType, ReplayGiven
<1>6. Types'
  BY ONLY <1>1, <1>2, <1>5, Sound, GrowthKeeps, TypesKept DEF Sound, Types
<1>7. Places'
  BY ONLY <1>1, <1>4, Sound DEF Sound, Places
<1>8. InOrder'
  BY ONLY <1>1, Sound DEF Sound, InOrder
<1> QED
  BY <1>1, <1>4, <1>6, <1>7, <1>8 DEF Sound

LEMMA SendOneSound ==
  ASSUME Setting, JournalType, Sound, SendReplayed, incoming.page # {}
  PROVE  /\ Sound' /\ UNCHANGED journal /\ UNCHANGED due /\ UNCHANGED client /\ UNCHANGED base
         /\ UNCHANGED link /\ link = "open" /\ ~Full
         /\ incoming.at = "send" /\ incoming'.at = "send" /\ incoming'.mark = incoming.mark
         /\ \E n \in incoming.page :
              /\ \A m \in incoming.page : n <= m
              /\ enqueue(n, "event") /\ sent' = Append(sent, n) /\ n \in Given /\ n > sub.cursor
              /\ sub'.cursor = n /\ sub'.replaying = sub.replaying /\ sub'.pending = sub.pending
              /\ incoming'.after = n /\ incoming'.page = incoming.page \ {n}
<1>1. /\ UNCHANGED journal /\ UNCHANGED due /\ UNCHANGED client /\ UNCHANGED base /\ incoming.at = "send" /\ Room
      /\ \E n \in incoming.page :
           /\ \A m \in incoming.page : n <= m
           /\ enqueue(n, "event")
           /\ sent' = Append(sent, n)
           /\ sub' = [sub EXCEPT !.cursor = n]
           /\ incoming' = [incoming EXCEPT !.after = n, !.page = @ \ {n}]
  BY DEF SendReplayed
<1>2. PICK n \in incoming.page :
           /\ \A m \in incoming.page : n <= m
           /\ enqueue(n, "event")
           /\ sent' = Append(sent, n)
           /\ sub' = [sub EXCEPT !.cursor = n]
           /\ incoming' = [incoming EXCEPT !.after = n, !.page = @ \ {n}]
  BY <1>1
<1>3. JournalGrows /\ Given' = Given /\ journal'.last = journal.last /\ journal.last \in Nat
      /\ Given = 1..journal.last
  BY <1>1, GrowsNot, GivenGrows
<1>4. /\ ReplayType /\ ReplayGiven /\ SubType /\ SubGiven /\ sub.cursor = incoming.after /\ n > incoming.after
      /\ sub.cursor # Off /\ sub.replaying
  BY <1>1 DEF Sound, Types, Places
<1>5. n \in Given /\ n \in Given' /\ n \in 0..journal'.last /\ n > sub.cursor /\ n \in Nat
      /\ incoming.page \subseteq Given
  BY ONLY <1>3, <1>4 DEF ReplayGiven
<1>6. WireType' /\ QueueGiven' /\ UNCHANGED link /\ link = "open" /\ ~Full
  BY <1>1, <1>2, <1>3, <1>5, RoomIs
<1>7. /\ SentType' /\ SentGiven' /\ \A i \in DOMAIN sent' : sent'[i] <= n
      /\ InOrder' /\ base' <= n
  BY <1>1, <1>2, <1>3, <1>4, <1>5, <1>6, SentIs
<1>8. incoming' = [at |-> "send", after |-> n, mark |-> incoming.mark, page |-> incoming.page \ {n}]
  BY ONLY <1>1, <1>2, <1>4 DEF ReplayType
<1>9. sub' = [cursor |-> n, replaying |-> sub.replaying, pending |-> sub.pending]
  BY ONLY <1>2, <1>4 DEF SubType
<1>10. ReplayType' /\ ReplayGiven'
  BY ONLY <1>3, <1>4, <1>5, <1>8 DEF ReplayType, ReplayGiven
<1>11. SubType' /\ SubGiven'
  BY ONLY <1>3, <1>4, <1>5, <1>9 DEF SubType, SubGiven
<1>12. Types'
  BY ONLY <1>1, <1>3, <1>6, <1>7, <1>10, <1>11, Sound, GrowthKeeps, TypesKept DEF Sound, Types
<1>13. \A m \in incoming'.page : m > incoming'.after
  <2> SUFFICES ASSUME NEW m \in incoming.page, m # n
               PROVE  m > n
    BY <1>8
  <2>1. n <= m /\ m \in Nat
    BY <1>2, <1>3, <1>5
  <2> QED
    BY <1>5, <2>1
<1>14. Places'
  <2>1. /\ incoming'.at = "send" /\ incoming'.after = n /\ sub'.cursor = n /\ sub'.replaying /\ n # Off
        /\ link' # "down"
    BY <1>4, <1>5, <1>6, <1>8, <1>9 DEF Off
  <2> QED
    BY ONLY <1>7, <1>13, <2>1 DEF Places
<1>15. Sound'
  BY <1>7, <1>12, <1>14 DEF Sound
<1> QED
  BY <1>1, <1>2, <1>5, <1>6, <1>8, <1>9, <1>15

LEMMA SendMarkSound ==
  ASSUME Setting, JournalType, Sound, SendMark
  PROVE  /\ Sound' /\ incoming.at = "mark" /\ incoming'.at = "drain" /\ incoming'.mark = incoming.mark
         /\ incoming'.page = {} /\ enqueue(incoming.mark, "subscribed") /\ UNCHANGED link /\ link = "open" /\ ~Full
         /\ UNCHANGED <<journal, due, sub, client, base, sent>>
<1>1. /\ UNCHANGED journal /\ UNCHANGED due /\ UNCHANGED client /\ UNCHANGED sub
      /\ UNCHANGED base /\ UNCHANGED sent /\ UNCHANGED <<base, sent>> /\ incoming.at = "mark"
      /\ incoming' = [incoming EXCEPT !.at = "drain"] /\ Room /\ enqueue(incoming.mark, "subscribed")
  BY DEF SendMark
<1>2. JournalGrows /\ journal'.last = journal.last /\ Given' = Given
  BY <1>1, GrowsNot
<1>3. ReplayType /\ ReplayGiven /\ incoming.page = {} /\ incoming.mark \in 0..journal'.last
  BY <1>1, <1>2 DEF Sound, Types, Places, ReplayGiven
<1>4. WireType' /\ QueueGiven' /\ UNCHANGED link /\ link = "open" /\ ~Full
  BY <1>1, <1>2, <1>3, RoomIs
<1>5. incoming' = [at |-> "drain", after |-> incoming.after, mark |-> incoming.mark, page |-> {}]
  BY ONLY <1>1, <1>3 DEF ReplayType
<1>6. ReplayType' /\ ReplayGiven'
  BY ONLY <1>2, <1>3, <1>5 DEF ReplayType, ReplayGiven
<1>7. Types'
  BY ONLY <1>1, <1>2, <1>4, <1>6, Sound, GrowthKeeps, TypesKept DEF Sound, Types
<1>8. Places'
  BY ONLY <1>1, <1>4, <1>5, Sound DEF Sound, Places
<1>9. InOrder'
  BY ONLY <1>1, Sound DEF Sound, InOrder
<1> QED
  BY <1>1, <1>4, <1>5, <1>7, <1>8, <1>9 DEF Sound

(* The head of what waits: sent when it is above the cursor, or dropped.   *)
LEMMA DrainSound ==
  ASSUME Setting, JournalType, Sound, Drain
  PROVE  /\ Sound' /\ UNCHANGED journal /\ UNCHANGED due /\ UNCHANGED client /\ UNCHANGED base
         /\ UNCHANGED link /\ link = "open" /\ incoming.at = "drain"
         /\ \/ /\ sub.pending = <<>> /\ incoming'.at = "idle" /\ UNCHANGED wire /\ UNCHANGED sent
               /\ sub'.cursor = sub.cursor /\ ~sub'.replaying /\ sub'.pending = <<>>
            \/ /\ UNCHANGED incoming /\ sub.pending # <<>> /\ sub'.pending = Tail(sub.pending)
               /\ sub'.replaying = sub.replaying
               /\ \/ /\ sub.pending[1] <= sub.cursor /\ UNCHANGED wire /\ UNCHANGED sent
                     /\ sub'.cursor = sub.cursor
                  \/ /\ sub.pending[1] > sub.cursor /\ ~Full /\ enqueue(sub.pending[1], "event")
                     /\ sub'.cursor = sub.pending[1] /\ sent' = Append(sent, sub.pending[1])
<1>1. /\ UNCHANGED journal /\ UNCHANGED due /\ UNCHANGED client /\ UNCHANGED base
      /\ incoming.at = "drain" /\ link = "open"
  BY DEF Drain, Registered
<1>2. JournalGrows /\ journal'.last = journal.last /\ Given' = Given /\ journal.last \in Nat /\ Given = 1..journal.last
  BY <1>1, GrowsNot, GivenGrows
<1>3. /\ SubType /\ SubGiven /\ ReplayType /\ sub.cursor \in Nat /\ sub.cursor # Off /\ sub.replaying
      /\ incoming.page = {} /\ sub.pending \in Seq(Nat) /\ QueueSize \in Nat
  BY <1>1, <1>2 DEF Sound, Types, Places, SubGiven, SubType, Setting, StreamAssumption
<1>4. CASE sub.pending = <<>>
  <2>1. /\ sub' = [sub EXCEPT !.replaying = FALSE] /\ incoming' = NoReplay
        /\ UNCHANGED wire /\ UNCHANGED link /\ UNCHANGED sent /\ UNCHANGED <<base, sent>>
    BY <1>1, <1>4 DEF Drain
  <2>2. sub' = [cursor |-> sub.cursor, replaying |-> FALSE, pending |-> <<>>]
    BY ONLY <1>3, <1>4, <2>1 DEF SubType
  <2>3. incoming' = [at |-> "idle", after |-> 0, mark |-> 0, page |-> {}]
    BY ONLY <2>1 DEF NoReplay
  <2>4. SubType' /\ SubGiven'
    BY ONLY <1>2, <1>3, <2>2 DEF SubType, SubGiven
  <2>5. ReplayType' /\ ReplayGiven'
    BY ONLY <1>2, <2>3 DEF ReplayType, ReplayGiven
  <2>6. Types'
    BY ONLY <1>1, <1>2, <2>1, <2>4, <2>5, Sound, GrowthKeeps, TypesKept DEF Sound, Types
  <2>7. Places' /\ InOrder'
    BY ONLY <1>1, <2>1, <2>2, <2>3, Sound DEF Sound, Places, InOrder
  <2> QED
    BY <1>1, <1>4, <2>1, <2>2, <2>3, <2>6, <2>7 DEF Sound
<1>5. CASE sub.pending # <<>>
  <2> DEFINE h == sub.pending[1]
             t == Tail(sub.pending)
  <2>1. /\ t \in Seq(Nat) /\ Len(t) <= QueueSize /\ h \in Given /\ h = Head(sub.pending) /\ h \in Nat
        /\ \A i \in DOMAIN t : t[i] \in Given
    <3>1. /\ t \in Seq(Nat) /\ Len(t) = Len(sub.pending) - 1 /\ Len(sub.pending) \in Nat
          /\ \A i \in 1..Len(t) : t[i] = sub.pending[i + 1]
          /\ DOMAIN t = 1..Len(t) /\ DOMAIN sub.pending = 1..Len(sub.pending) /\ Len(sub.pending) > 0
      BY ONLY <1>3, <1>5, HeadTailProperties
    <3>2. \A i \in DOMAIN sub.pending : sub.pending[i] \in Given
      BY <1>3 DEF SubGiven
    <3>3. \A i \in 1..Len(t) : i + 1 \in DOMAIN sub.pending
      BY ONLY <3>1
    <3>4. Len(t) <= QueueSize
      BY <1>3, <3>1 DEF SubType
    <3>5. h \in Given /\ h \in Nat /\ h = Head(sub.pending)
      BY <1>2, <1>3, <3>1, <3>2
    <3>6. \A i \in DOMAIN t : t[i] \in Given
      BY ONLY <3>1, <3>2, <3>3, Zenon
    <3> QED
      BY ONLY <3>1, <3>4, <3>5, <3>6, Zenon
  <2> HIDE DEF t
  <2>2. CASE ~Undelivered
    <3>1. /\ sub' = [sub EXCEPT !.pending = Tail(@)] /\ UNCHANGED incoming
          /\ UNCHANGED wire /\ UNCHANGED link /\ UNCHANGED sent /\ UNCHANGED <<base, sent>>
      BY <1>1, <1>5, <2>2 DEF Drain
    <3>2. sub' = [cursor |-> sub.cursor, replaying |-> sub.replaying, pending |-> t]
      BY ONLY <1>3, <3>1 DEF SubType, t
    <3>3. SubType' /\ SubGiven'
      BY ONLY <1>2, <1>3, <2>1, <3>2 DEF SubType, SubGiven
    <3>4. Types'
      BY ONLY <1>1, <1>2, <3>1, <3>3, Sound, GrowthKeeps, TypesKept DEF Sound, Types
    <3>5. Places' /\ InOrder'
      BY ONLY <1>1, <3>1, <3>2, Sound DEF Sound, Places, InOrder
    <3>6. h <= sub.cursor
      BY <1>3, <2>1, <2>2 DEF Undelivered
    <3> QED
      BY <1>1, <1>5, <3>1, <3>2, <3>4, <3>5, <3>6 DEF Sound, t
  <2>3. CASE Undelivered
    <3>1. /\ Room /\ enqueue(h, "event") /\ sent' = Append(sent, h)
          /\ sub' = [sub EXCEPT !.cursor = h, !.pending = Tail(@)] /\ UNCHANGED incoming
      BY <1>1, <1>5, <2>1, <2>3 DEF Drain
    <3>2. sub' = [cursor |-> h, replaying |-> sub.replaying, pending |-> t]
      BY ONLY <1>3, <3>1 DEF SubType, t
    <3>3. SubType' /\ SubGiven'
      BY ONLY <1>2, <1>3, <2>1, <3>2 DEF SubType, SubGiven
    <3>4. h > sub.cursor /\ h \in 0..journal'.last /\ h # Off
      BY <1>2, <2>1, <2>3 DEF Undelivered, Off
    <3>5. WireType' /\ QueueGiven' /\ UNCHANGED link /\ ~Full
      BY <1>2, <2>1, <3>1, <3>4, RoomIs
    <3>6. /\ SentType' /\ SentGiven' /\ \A i \in DOMAIN sent' : sent'[i] <= h
          /\ InOrder' /\ base' <= h
      BY <1>1, <1>2, <1>3, <2>1, <3>1, <3>4, <3>5, SentIs
    <3>7. Types'
      BY ONLY <1>1, <1>2, <3>1, <3>3, <3>5, <3>6, Sound, GrowthKeeps, TypesKept DEF Sound, Types
    <3>8. Places'
      BY ONLY <1>1, <1>3, <3>1, <3>2, <3>4, <3>5, <3>6 DEF Places
    <3> QED
      BY <1>1, <1>5, <3>1, <3>2, <3>4, <3>5, <3>6, <3>7, <3>8 DEF Sound, t
  <2> QED
    BY <2>2, <2>3
<1> QED
  BY <1>4, <1>5

-----------------------------------------------------------------------------
(* The writers                                                             *)
LEMMA SpendIs ==
  ASSUME bound \in [commits: 0..Commits, others: Nat, frames: Nat, cancels: Nat], Setting
  PROVE  /\ Spend("commits") =>
              /\ bound' \in [commits: 0..Commits, others: Nat, frames: Nat, cancels: Nat]
              /\ bound'.commits = bound.commits - 1
         /\ Spend("others") \/ Spend("frames") \/ Spend("cancels") =>
              /\ bound' \in [commits: 0..Commits, others: Nat, frames: Nat, cancels: Nat]
              /\ bound'.commits = bound.commits
         /\ \A w \in {"commits", "others", "frames", "cancels"} : Spend(w) => bound' # bound
<1>1. Commits \in Nat
  BY DEF Setting, StreamAssumption
<1> QED
  BY <1>1 DEF Spend

LEMMA WritersKept ==
  ASSUME JournalType, WriterTypes, Setting, UNCHANGED <<journal, due>>,
         UNCHANGED bound \/ Spend("others") \/ Spend("frames") \/ Spend("cancels")
  PROVE  JournalType' /\ WriterTypes'
<1>1. /\ bound' \in [commits: 0..Commits, others: Nat, frames: Nat, cancels: Nat]
      /\ bound'.commits = bound.commits
  BY SpendIs DEF WriterTypes
<1>2. UNCHANGED journal /\ UNCHANGED due
  OBVIOUS
<1> QED
  BY ONLY <1>1, <1>2, JournalType, WriterTypes DEF JournalType, WriterTypes, Given

LEMMA CommitKeeps ==
  ASSUME Setting, JournalType, WriterTypes, Sound, Commit
  PROVE  /\ JournalType' /\ WriterTypes' /\ Sound' /\ JournalGrows
         /\ UNCHANGED <<sub, incoming, wire, link, client, base, sent>> /\ Topic # "bus"
         /\ Topic # "ai" => /\ journal'.last = journal.last + 1 /\ Len(due') = Len(due) + 1
                            /\ \A i \in DOMAIN due : due'[i] = due[i]
                            /\ due'[Len(due) + 1] = <<journal.last + 1>>
                            /\ DOMAIN due' = 1..(Len(due) + 1) /\ DOMAIN due = 1..Len(due) /\ Len(due) \in Nat
<1>1. /\ Record /\ Spend("commits") /\ due' = Append(due, Recorded.batch) /\ Topic # "bus"
      /\ UNCHANGED <<sub, incoming, wire, link, client, base, sent>>
  BY DEF Commit
<1> DEFINE B == Recorded.batch
<1>2. /\ JournalGrows /\ journal'.last <= journal.last + 2 /\ B \in Seq(Nat) /\ B # <<>>
      /\ \A k \in DOMAIN B : B[k] \in (journal.last + 1)..journal'.last
      /\ Topic # "ai" => journal'.last = journal.last + 1 /\ B = <<journal.last + 1>>
  BY <1>1, RecordedIs
<1> HIDE DEF B
<1>3. /\ bound' \in [commits: 0..Commits, others: Nat, frames: Nat, cancels: Nat]
      /\ bound'.commits = bound.commits - 1 /\ bound.commits \in Nat /\ Commits \in Nat
      /\ journal.last <= 2 * (Commits - bound.commits) /\ due \in Seq(Seq(Nat))
      /\ \A i \in DOMAIN due : due[i] # <<>> /\ \A k \in DOMAIN due[i] : due[i][k] \in Given
  BY <1>1, SpendIs DEF WriterTypes, Setting, StreamAssumption
<1>4. /\ journal.last \in Nat /\ journal'.last \in Nat /\ Given \subseteq Given' /\ Given' = 1..journal'.last
  BY <1>2, GivenGrows
<1>5. journal'.last <= 2 * (Commits - bound'.commits)
  <2>1. /\ journal'.last \in Nat /\ journal.last \in Nat /\ journal'.last <= journal.last + 2
        /\ bound'.commits = bound.commits - 1 /\ bound.commits \in Nat /\ Commits \in Nat
        /\ journal.last <= 2 * (Commits - bound.commits)
    BY ONLY <1>2, <1>3, <1>4
  <2> QED
    BY ONLY <2>1
<1>6. due' = Append(due, B)
  BY <1>1 DEF B
<1>7. /\ due' \in Seq(Seq(Nat)) /\ Len(due') = Len(due) + 1 /\ Len(due) \in Nat
      /\ \A i \in 1..Len(due) : due'[i] = due[i]
      /\ due'[Len(due) + 1] = B
      /\ DOMAIN due' = 1..(Len(due) + 1) /\ DOMAIN due = 1..Len(due)
  BY ONLY <1>2, <1>3, <1>6, AppendProperties
<1>8. \A i \in DOMAIN due' : (i \in DOMAIN due /\ due'[i] = due[i]) \/ due'[i] = B
  BY ONLY <1>7
<1>9. \A k \in DOMAIN B : B[k] \in Given'
  BY ONLY <1>2, <1>4
<1>10. \A i \in DOMAIN due' : due'[i] # <<>> /\ \A k \in DOMAIN due'[i] : due'[i][k] \in Given'
  BY ONLY <1>2, <1>3, <1>4, <1>8, <1>9, Zenon
<1>11. JournalType' /\ WriterTypes'
  BY ONLY <1>2, <1>3, <1>5, <1>7, <1>10 DEF JournalGrows, WriterTypes
<1>12. Sound'
  BY <1>1, <1>2, SoundKept
<1> QED
  BY ONLY <1>1, <1>2, <1>7, <1>11, <1>12, Zenon

LEMMA PublishBusKeeps ==
  ASSUME Setting, JournalType, WriterTypes, Sound, PublishBus
  PROVE  /\ JournalType' /\ WriterTypes' /\ Sound' /\ JournalGrows /\ Topic = "bus"
         /\ UNCHANGED due /\ UNCHANGED incoming /\ UNCHANGED client /\ UNCHANGED base /\ bound' # bound
         /\ journal'.last = journal.last + 1 /\ publish(journal'.last) /\ journal'.last \in Given'
<1>1. /\ Topic = "bus" /\ Spend("commits") /\ Record /\ publish(Last(Recorded.batch))
      /\ UNCHANGED due /\ UNCHANGED incoming /\ UNCHANGED client /\ UNCHANGED base
      /\ UNCHANGED <<incoming, client, base>> /\ Topic # "ai"
  BY DEF PublishBus
<1>2. /\ JournalGrows /\ journal'.last = journal.last + 1 /\ Recorded.batch = <<journal.last + 1>>
  BY <1>1, RecordedIs
<1>3. Last(Recorded.batch) = journal'.last
  BY <1>1 DEF Record
<1>4. journal.last \in Nat /\ journal'.last \in Given' /\ Given \subseteq Given'
  BY <1>2, GivenGrows
<1>5. /\ bound' \in [commits: 0..Commits, others: Nat, frames: Nat, cancels: Nat] /\ bound' # bound
      /\ bound'.commits = bound.commits - 1 /\ bound.commits \in Nat /\ Commits \in Nat
      /\ journal.last <= 2 * (Commits - bound.commits) /\ due \in Seq(Seq(Nat))
      /\ \A i \in DOMAIN due : due[i] # <<>> /\ \A k \in DOMAIN due[i] : due[i][k] \in Given
  BY <1>1, SpendIs DEF WriterTypes, Setting, StreamAssumption
<1>6. journal'.last <= 2 * (Commits - bound'.commits)
  <2>1. /\ journal.last \in Nat /\ journal'.last = journal.last + 1 /\ bound'.commits = bound.commits - 1
        /\ bound.commits \in Nat /\ Commits \in Nat /\ journal.last <= 2 * (Commits - bound.commits)
    BY ONLY <1>2, <1>4, <1>5, Zenon
  <2> QED
    BY ONLY <2>1
<1>7. \A i \in DOMAIN due' : due'[i] # <<>> /\ \A k \in DOMAIN due'[i] : due'[i][k] \in Given'
  BY ONLY <1>1, <1>4, <1>5, Zenon
<1>8. JournalType' /\ WriterTypes'
  BY ONLY <1>1, <1>2, <1>5, <1>6, <1>7 DEF JournalGrows, WriterTypes
<1>9. Sound'
  BY <1>1, <1>2, <1>3, <1>4, PublishSound
<1> QED
  BY <1>1, <1>2, <1>3, <1>4, <1>5, <1>8, <1>9

LEMMA PublishKeeps ==
  ASSUME Setting, JournalType, WriterTypes, Sound, Publish
  PROVE  /\ JournalType' /\ WriterTypes' /\ Sound' /\ JournalGrows
         /\ UNCHANGED journal /\ UNCHANGED incoming /\ UNCHANGED client /\ UNCHANGED base /\ due' # due
         /\ Topic # "ai" => /\ 1 \in DOMAIN due /\ publish(Head(due[1])) /\ Head(due[1]) \in Given
                            /\ due' = IF Len(due[1]) = 1 THEN RemoveAt(due, 1) ELSE [due EXCEPT ![1] = Tail(@)]
<1>1. /\ UNCHANGED journal /\ UNCHANGED incoming /\ UNCHANGED client /\ UNCHANGED base /\ UNCHANGED bound
      /\ UNCHANGED <<incoming, client, base>>
      /\ \E i \in Publishable :
           /\ publish(Head(due[i]))
           /\ due' = IF Len(due[i]) = 1 THEN RemoveAt(due, i) ELSE [due EXCEPT ![i] = Tail(@)]
  BY DEF Publish
<1>2. JournalGrows /\ Given' = Given /\ journal'.last = journal.last
  BY <1>1, GrowsNot
<1>3. PICK i \in Publishable :
           /\ publish(Head(due[i]))
           /\ due' = IF Len(due[i]) = 1 THEN RemoveAt(due, i) ELSE [due EXCEPT ![i] = Tail(@)]
  BY <1>1
<1>4. i \in DOMAIN due /\ (Topic # "ai" => i = 1)
  BY DEF Publishable
<1>5. /\ due \in Seq(Seq(Nat)) /\ Len(due) \in Nat /\ DOMAIN due = 1..Len(due)
      /\ \A j \in DOMAIN due : due[j] # <<>> /\ \A k \in DOMAIN due[j] : due[j][k] \in Given
  BY DEF WriterTypes
<1> DEFINE b == due[i]
<1>6. b \in Seq(Nat) /\ b # <<>> /\ \A k \in DOMAIN b : b[k] \in Given
  BY ONLY <1>4, <1>5
<1>7. /\ Len(b) \in Nat /\ Len(b) > 0 /\ Head(b) = b[1] /\ 1 \in DOMAIN b
      /\ Tail(b) \in Seq(Nat) /\ Len(Tail(b)) = Len(b) - 1 /\ DOMAIN Tail(b) = 1..(Len(b) - 1)
      /\ \A k \in 1..(Len(b) - 1) : Tail(b)[k] = b[k + 1] /\ k + 1 \in DOMAIN b
  <2> HIDE DEF b
  <2> QED
    BY ONLY <1>6, HeadTailProperties
<1>8. Head(b) \in Given /\ Head(b) \in Given'
  BY <1>2, <1>6, <1>7
<1>9. Sound'
  BY <1>1, <1>2, <1>3, <1>8, PublishSound
<1>10. /\ due' \in Seq(Seq(Nat)) /\ due' # due
       /\ \A j \in DOMAIN due' : due'[j] # <<>> /\ \A k \in DOMAIN due'[j] : due'[j][k] \in Given
  <2>1. CASE Len(b) = 1
    <3>1. /\ due' \in Seq(Seq(Nat)) /\ Len(due') = Len(due) - 1
          /\ \A j \in DOMAIN due' : \E k \in DOMAIN due : due'[j] = due[k]
      <4> DEFINE d == RemoveAt(due, i)
      <4>1. /\ d \in Seq(Seq(Nat)) /\ Len(d) = Len(due) - 1
            /\ \A j \in DOMAIN d : \E k \in DOMAIN due : d[j] = due[k]
        <5>1. due \in Seq(Seq(Nat)) /\ i \in DOMAIN due
          BY <1>4, <1>5
        <5> QED
          BY <5>1, RemoveIs
      <4>2. due' = d
        BY <1>3, <2>1
      <4> HIDE DEF d
      <4> QED
        BY ONLY <4>1, <4>2, Zenon
    <3>2. due' # due
      BY ONLY <1>5, <3>1
    <3> QED
      BY ONLY <1>5, <3>1, <3>2, Zenon
  <2>2. CASE Len(b) # 1
    <3>1. due' = [due EXCEPT ![i] = Tail(b)]
      BY <1>3, <2>2
    <3>2. Tail(b) # <<>> /\ \A k \in DOMAIN Tail(b) : Tail(b)[k] \in Given
      <4> HIDE DEF b
      <4>1. Len(Tail(b)) > 0 /\ Tail(b) \in Seq(Nat)
        BY ONLY <1>7, <2>2
      <4>2. \A k \in 1..(Len(b) - 1) : Tail(b)[k] \in Given
        BY ONLY <1>6, <1>7, Zenon
      <4>3. Tail(b) # <<>>
        <5>1. Len(<<>>) = 0
          OBVIOUS
        <5>2. Len(Tail(b)) # 0
          BY ONLY <1>7, <2>2
        <5> QED
          BY ONLY <5>1, <5>2, Zenon
      <4>4. DOMAIN Tail(b) = 1..(Len(b) - 1)
        BY ONLY <1>7
      <4> QED
        BY ONLY <4>2, <4>3, <4>4, Zenon
    <3>3. /\ due' \in Seq(Seq(Nat)) /\ DOMAIN due' = DOMAIN due
          /\ \A j \in DOMAIN due : due'[j] = IF j = i THEN Tail(b) ELSE due[j]
      <4> HIDE DEF b
      <4> QED
        BY ONLY <1>4, <1>5, <1>7, <3>1, ExceptSeq
    <3>4. due' # due
      <4>1. due'[i] = Tail(b)
        BY <1>4, <3>3
      <4>2. Len(due'[i]) # Len(due[i])
        BY <1>7, <4>1
      <4> QED
        BY <4>2
    <3>5. \A j \in DOMAIN due' : due'[j] # <<>> /\ \A k \in DOMAIN due'[j] : due'[j][k] \in Given
      <4> HIDE DEF b
      <4> QED
        BY ONLY <1>5, <3>2, <3>3, Zenon
    <3> QED
      BY <3>3, <3>4, <3>5
  <2> QED
    BY <2>1, <2>2
<1>11. JournalType' /\ WriterTypes'
  BY ONLY <1>1, <1>2, <1>10, WriterTypes DEF JournalGrows, WriterTypes
<1>12. Topic # "ai" => /\ 1 \in DOMAIN due /\ publish(Head(due[1])) /\ Head(due[1]) \in Given
                       /\ due' = IF Len(due[1]) = 1 THEN RemoveAt(due, 1) ELSE [due EXCEPT ![1] = Tail(@)]
  BY <1>3, <1>4, <1>8
<1> QED
  BY ONLY <1>1, <1>2, <1>9, <1>10, <1>11, <1>12, Zenon

LEMMA CancelKeeps ==
  ASSUME Setting, JournalType, WriterTypes, Sound, CancelWriter
  PROVE  /\ JournalType' /\ WriterTypes' /\ Sound' /\ Topic = "ai" /\ UNCHANGED link
<1>1. /\ Topic = "ai" /\ Spend("cancels") /\ \E i \in DOMAIN due : due' = RemoveAt(due, i)
      /\ UNCHANGED journal /\ UNCHANGED link
      /\ UNCHANGED <<sub, incoming, wire, link, client, base, sent>>
  BY DEF CancelWriter
<1>2. JournalGrows /\ Given' = Given /\ journal'.last = journal.last
  BY <1>1, GrowsNot
<1>3. /\ bound' \in [commits: 0..Commits, others: Nat, frames: Nat, cancels: Nat]
      /\ bound'.commits = bound.commits
  BY <1>1, SpendIs DEF WriterTypes
<1>4. /\ due \in Seq(Seq(Nat)) /\ journal.last <= 2 * (Commits - bound.commits)
      /\ \A j \in DOMAIN due : due[j] # <<>> /\ \A k \in DOMAIN due[j] : due[j][k] \in Given
  BY DEF WriterTypes
<1>5. due' \in Seq(Seq(Nat)) /\ \A j \in DOMAIN due' : \E k \in DOMAIN due : due'[j] = due[k]
  BY ONLY <1>1, <1>4, RemoveIs
<1>6. \A j \in DOMAIN due' : due'[j] # <<>> /\ \A k \in DOMAIN due'[j] : due'[j][k] \in Given
  BY ONLY <1>4, <1>5, Zenon
<1>7. JournalType' /\ WriterTypes'
  BY ONLY <1>2, <1>3, <1>4, <1>5, <1>6 DEF JournalGrows, WriterTypes
<1>8. Sound'
  BY <1>1, <1>2, SoundKept
<1> QED
  BY <1>1, <1>7, <1>8

-----------------------------------------------------------------------------
(* What is delivered has no hole                                           *)
LEMMA PagedIs ==
  ASSUME Setting, JournalType, ReplayType
  PROVE  /\ \A n \in Paged, m \in journal.stored : incoming.after < m /\ m <= n => m \in Paged
         /\ Paged = {} => \A n \in journal.stored : n <= incoming.after
<1> DEFINE S == journal.stored
           C(n) == {m \in S : incoming.after < m /\ m <= n}
<1>1. /\ S \subseteq 1..journal.last /\ journal.last \in Nat /\ incoming.after \in Nat /\ Page \in Nat /\ Page > 0
      /\ S \subseteq Nat
  BY DEF JournalType, ReplayType, Given, Setting, StreamAssumption
<1>2. IsFiniteSet(S)
  <2>1. IsFiniteSet(1..journal.last)
    <3>1. 1 \in Int /\ journal.last \in Int
      BY ONLY <1>1
    <3> QED
      BY ONLY <3>1, FS_Interval
  <2> QED
    BY ONLY <1>1, <2>1, FS_Subset
<1>3. \A n \in S, m \in S : m <= n => Cardinality(C(m)) <= Cardinality(C(n)) /\ Cardinality(C(n)) \in Nat /\ Cardinality(C(m)) \in Nat
  <2> SUFFICES ASSUME NEW n \in S, NEW m \in S, m <= n
               PROVE  /\ Cardinality(C(m)) <= Cardinality(C(n)) /\ Cardinality(C(n)) \in Nat
                      /\ Cardinality(C(m)) \in Nat
    OBVIOUS
  <2>1. C(m) \subseteq C(n)
    <3> SUFFICES ASSUME NEW k \in S, k <= m
                 PROVE  k <= n
      OBVIOUS
    <3> QED
      BY <1>1
  <2>2. IsFiniteSet(C(n)) /\ IsFiniteSet(C(m))
    BY <1>2, FS_Subset
  <2> HIDE DEF C
  <2> QED
    BY <2>1, <2>2, FS_Subset, FS_CardinalityType
<1>4. Paged = {n \in S : n > incoming.after /\ Cardinality(C(n)) <= Page}
  BY DEF Paged
<1>5. \A n \in Paged, m \in S : incoming.after < m /\ m <= n => m \in Paged
  <2> SUFFICES ASSUME NEW n \in Paged, NEW m \in S, incoming.after < m, m <= n
               PROVE  m \in Paged
    OBVIOUS
  <2>1. n \in S /\ Cardinality(C(n)) <= Page
    BY <1>4
  <2>2. Cardinality(C(m)) <= Cardinality(C(n)) /\ Cardinality(C(n)) \in Nat /\ Cardinality(C(m)) \in Nat
    BY <1>3, <2>1
  <2>3. Cardinality(C(m)) <= Page
    BY ONLY <1>1, <2>1, <2>2
  <2>4. m > incoming.after
    BY <1>1
  <2> QED
    BY ONLY <1>4, <2>3, <2>4, m \in S, Zenon
<1>6. ASSUME NEW n \in S, ~(n <= incoming.after)
      PROVE  Paged # {}
  <2> DEFINE T == {m \in S : incoming.after < m}
  <2>1. n \in T /\ T \subseteq Nat
    BY <1>1, <1>6
  <2>2. PICK x \in T : \A y \in T : ~ (<<y, x>> \in OpToRel(<, Nat))
    BY <2>1, NatLessThanWellFounded, WFMin
  <2>3. \A y \in T : ~(y < x)
    <3> SUFFICES ASSUME NEW y \in T, y < x
                 PROVE  FALSE
      OBVIOUS
    <3>1. <<y, x>> \in OpToRel(<, Nat)
      BY <2>1 DEF OpToRel
    <3> QED
      BY <2>2, <3>1
  <2>4. C(x) = {x}
    <3>1. x \in C(x)
      BY <1>1
    <3>2. ASSUME NEW k \in C(x)
          PROVE  k = x
      <4>1. k \in T /\ k \in Nat /\ x \in Nat /\ k <= x
        BY <1>1, <3>2
      <4> QED
        BY <2>3, <4>1
    <3> QED
      BY <3>1, <3>2
  <2>5. Cardinality(C(x)) = 1
    BY ONLY <2>4, FS_Singleton
  <2>6. x \in S /\ x > incoming.after
    BY <1>1
  <2>7. Cardinality(C(x)) <= Page
    BY ONLY <1>1, <2>5
  <2>8. x \in Paged
    BY ONLY <1>4, <2>6, <2>7, Zenon
  <2> QED
    BY <2>8
<1> QED
  BY <1>5, <1>6

LEMMA BoundsAre ==
  ASSUME Setting, JournalType, WriterTypes, Sound
  PROVE  /\ journal.last \in Nat /\ PublishedUpTo \in Int /\ PublishedUpTo <= journal.last
         /\ sub.cursor \in Int /\ sub.cursor <= journal.last
         /\ incoming.after \in Nat /\ incoming.after <= journal.last
         /\ incoming.mark \in Nat /\ incoming.mark <= journal.last
         /\ \A n \in incoming.page : n \in Nat /\ n <= journal.last
         /\ client.seen \in Nat /\ client.seen <= journal.last
         /\ \A i \in DOMAIN wire.queue : wire.queue[i].n \in Nat /\ wire.queue[i].n <= journal.last
         /\ \A n \in journal.stored : n \in Nat /\ n <= journal.last
         /\ Len(wire.queue) \in Nat /\ DOMAIN wire.queue = 1..Len(wire.queue)
         /\ Len(sub.pending) \in Nat /\ DOMAIN sub.pending = 1..Len(sub.pending)
         /\ \A i \in DOMAIN sub.pending : sub.pending[i] \in Nat
         /\ base \in Nat
<1>1. journal.last \in Nat /\ \A n \in journal.stored : n \in Nat /\ n <= journal.last
  BY DEF JournalType, Given
<1>2. PublishedUpTo \in Int /\ PublishedUpTo <= journal.last
  <2>1. Len(due) \in Nat
    BY DEF WriterTypes
  <2> QED
    BY <1>1, <2>1 DEF PublishedUpTo
<1>3. sub.cursor \in Int /\ sub.cursor <= journal.last
  BY <1>1 DEF Sound, Types, SubGiven, SubType, Off
<1>4. /\ incoming.after \in Nat /\ incoming.after <= journal.last
      /\ incoming.mark \in Nat /\ incoming.mark <= journal.last
      /\ \A n \in incoming.page : n \in Nat /\ n <= journal.last
  BY <1>1 DEF Sound, Types, ReplayGiven, Given
<1>5. client.seen \in Nat /\ client.seen <= journal.last
  BY <1>1 DEF Sound, Types, ClientGiven
<1>6. /\ \A i \in DOMAIN wire.queue : wire.queue[i].n \in Nat /\ wire.queue[i].n <= journal.last
      /\ Len(wire.queue) \in Nat /\ DOMAIN wire.queue = 1..Len(wire.queue)
  BY <1>1 DEF Sound, Types, QueueGiven, WireType
<1>7. /\ Len(sub.pending) \in Nat /\ DOMAIN sub.pending = 1..Len(sub.pending)
      /\ \A i \in DOMAIN sub.pending : sub.pending[i] \in Nat
  BY DEF Sound, Types, SubType
<1>8. base \in Nat
  BY DEF Sound, Types, SentType
<1> QED
  BY ONLY <1>1, <1>2, <1>3, <1>4, <1>5, <1>6, <1>7, <1>8, Zenon

(* What comes still comes when the queue has got longer.                   *)
LEMMA ComesKept ==
  ASSUME Len(wire.queue) \in Nat, Len(wire'.queue) \in Nat, Len(wire'.queue) >= Len(wire.queue),
         \A i \in 1..Len(wire.queue) : wire'.queue[i] = wire.queue[i], UNCHANGED client
  PROVE  /\ \A n : \A j \in 1..Len(wire.queue) : Comes(n, j) => Comes(n, j)'
         /\ \A n : Comes(n, Len(wire.queue)) => Comes(n, Len(wire.queue))'
<1>1. ASSUME NEW n, NEW j \in Nat, NEW k \in Nat, j <= k, j <= Len(wire.queue), Comes(n, j)
      PROVE  n \in client'.got \/ \E i \in 1..k : wire'.queue[i].kind = "event" /\ wire'.queue[i].n = n
  <2>1. CASE n \in client.got
    BY <2>1
  <2>2. CASE \E i \in 1..j : wire.queue[i].kind = "event" /\ wire.queue[i].n = n
    <3>1. PICK i \in 1..j : wire.queue[i].kind = "event" /\ wire.queue[i].n = n
      BY <2>2
    <3>2. i \in 1..k /\ i \in 1..Len(wire.queue)
      BY <1>1, <3>1
    <3> QED
      BY <3>1, <3>2
  <2> QED
    BY <1>1, <2>1, <2>2 DEF Comes
<1>2. \A n : \A j \in 1..Len(wire.queue) : Comes(n, j) => Comes(n, j)'
  BY <1>1 DEF Comes
<1>3. \A n : Comes(n, Len(wire.queue)) => Comes(n, Len(wire.queue))'
  <2> SUFFICES ASSUME NEW n, Comes(n, Len(wire.queue))
               PROVE  Comes(n, Len(wire.queue))'
    OBVIOUS
  <2>1. n \in client'.got \/ \E i \in 1..Len(wire'.queue) : wire'.queue[i].kind = "event" /\ wire'.queue[i].n = n
    <3>1. Len(wire.queue) <= Len(wire'.queue) /\ Len(wire.queue) <= Len(wire.queue)
      OBVIOUS
    <3> QED
      BY ONLY <1>1, <3>1, Len(wire.queue) \in Nat, Len(wire'.queue) \in Nat, Comes(n, Len(wire.queue)), Zenon
  <2> QED
    BY <2>1 DEF Comes
<1> QED
  BY <1>2, <1>3

LEMMA QueueKept ==
  ASSUME Setting, JournalType, WriterTypes, Sound, JournalGrows, QueueWhole, NoHole, CursorWhole,
         UNCHANGED <<wire, client, base, sent>>, sub'.cursor \in {sub.cursor, Off}, link' = "open" => link = "open" \/ sub'.cursor = Off
  PROVE  QueueWhole' /\ NoHole' /\ CursorWhole'
<1>1. UNCHANGED wire /\ UNCHANGED client /\ UNCHANGED base /\ UNCHANGED sent
  OBVIOUS
<1>2. \A n : (\A j : Comes(n, j) => Comes(n, j)') /\ (Sent(n) => Sent(n)')
  BY ONLY <1>1, Zenon DEF Comes, Sent
<1>3. \A n \in journal'.stored : n \in Nat /\ (n <= journal.last => n \in journal.stored)
  <2>1. \A n \in journal'.stored : n \in Nat
    BY DEF JournalGrows, JournalType
  <2>2. journal.last \in Nat /\ \A n \in journal'.stored : n \in journal.stored \/ n > journal.last
    BY DEF JournalGrows, JournalType
  <2> QED
    BY ONLY <2>1, <2>2
<1>4. QueueWhole'
  <2> SUFFICES ASSUME NEW j \in DOMAIN wire.queue, wire.queue[j].kind # "other",
                      NEW n \in journal'.stored, n <= wire.queue[j].n
               PROVE  Comes(n, j)'
    BY <1>1 DEF QueueWhole
  <2>1. n \in journal.stored
    BY <1>3, BoundsAre
  <2> QED
    BY <1>2, <2>1 DEF QueueWhole
<1>5. NoHole'
  <2> SUFFICES ASSUME NEW n \in journal'.stored, n <= client.seen
               PROVE  n \in client.got
    BY <1>1 DEF NoHole
  <2>1. n \in journal.stored
    BY <1>3, BoundsAre
  <2> QED
    BY <2>1 DEF NoHole
<1>6. CursorWhole'
  <2> SUFFICES ASSUME sub'.cursor # Off, link' = "open", NEW n \in journal'.stored, n <= sub'.cursor
               PROVE  Comes(n, Len(wire.queue))' /\ (n > base => Sent(n)')
    BY <1>1 DEF CursorWhole
  <2>1. sub'.cursor = sub.cursor /\ link = "open"
    OBVIOUS
  <2>2. n \in journal.stored
    BY <1>3, <2>1, BoundsAre
  <2>3. Comes(n, Len(wire.queue)) /\ (n > base => Sent(n))
    BY <2>1, <2>2 DEF CursorWhole
  <2> QED
    BY ONLY <1>1, <1>2, <2>3, Zenon
<1> QED
  BY <1>4, <1>5, <1>6

LEMMA DeliverKeeps ==
  ASSUME Setting, JournalType, WriterTypes, Sound, JournalGrows, QueueWhole, NoHole, CursorWhole,
         NEW n \in Given', link = "open", sub.cursor # Off, n > sub.cursor, enqueue(n, "event"),
         sent' = IF Full THEN sent ELSE Append(sent, n), UNCHANGED client, UNCHANGED base, sub'.cursor = n,
         \A m \in journal'.stored : m <= sub.cursor \/ m >= n
  PROVE  QueueWhole' /\ NoHole' /\ CursorWhole'
<1>1. /\ Full => link' = "slow" /\ wire'.queue = wire.queue
      /\ ~Full => /\ link' = link /\ Len(wire'.queue) = Len(wire.queue) + 1
                  /\ \A i \in 1..Len(wire.queue) : wire'.queue[i] = wire.queue[i]
                  /\ wire'.queue[Len(wire.queue) + 1].n = n
                  /\ wire'.queue[Len(wire.queue) + 1].kind = "event"
      /\ Len(wire'.queue) \in Nat /\ DOMAIN wire'.queue = 1..Len(wire'.queue)
      /\ n \in Nat
  <2>1. n \in Nat
    BY GivenGrows
  <2>2. WireType
    BY DEF Sound, Types
  <2>3. /\ WireType'
        /\ Full => link' = "slow" /\ wire'.queue = wire.queue
        /\ ~Full => /\ link' = link /\ Len(wire'.queue) = Len(wire.queue) + 1
                    /\ \A i \in 1..Len(wire.queue) : wire'.queue[i] = wire.queue[i]
                    /\ wire'.queue[Len(wire.queue) + 1].n = n
                    /\ wire'.queue[Len(wire.queue) + 1].kind = "event"
    BY <2>1, <2>2, EnqueueIs
  <2>4. Len(wire'.queue) \in Nat /\ DOMAIN wire'.queue = 1..Len(wire'.queue)
    BY <2>3 DEF WireType
  <2> QED
    BY ONLY <2>1, <2>3, <2>4, Zenon
<1>2. /\ \A m \in journal'.stored : m \in Nat /\ (m <= journal.last => m \in journal.stored)
      /\ journal.last \in Nat
  <2>1. \A m \in journal'.stored : m \in Nat
    BY DEF JournalGrows, JournalType
  <2>2. journal.last \in Nat /\ \A m \in journal'.stored : m \in journal.stored \/ m > journal.last
    BY DEF JournalGrows, JournalType
  <2> QED
    BY ONLY <2>1, <2>2
<1>3. /\ Len(wire.queue) \in Nat /\ DOMAIN wire.queue = 1..Len(wire.queue)
      /\ sub.cursor \in Int /\ sub.cursor <= journal.last
      /\ client.seen \in Nat /\ client.seen <= journal.last
      /\ \A i \in DOMAIN wire.queue : wire.queue[i].n \in Nat /\ wire.queue[i].n <= journal.last
  BY BoundsAre
<1>4. NoHole'
  <2> SUFFICES ASSUME NEW m \in journal'.stored, m <= client.seen
               PROVE  m \in client.got
    BY DEF NoHole
  <2>1. m \in journal.stored
    BY ONLY <1>2, <1>3, m \in journal'.stored, m <= client.seen
  <2> QED
    BY <2>1 DEF NoHole
<1>5. CASE Full
  <2>1. link' # "open" /\ wire'.queue = wire.queue
    BY <1>1, <1>5
  <2>2. QueueWhole'
    <3> SUFFICES ASSUME NEW j \in DOMAIN wire.queue, wire.queue[j].kind # "other",
                        NEW m \in journal'.stored, m <= wire.queue[j].n
                 PROVE  Comes(m, j)'
      BY <2>1 DEF QueueWhole
    <3>1. m \in journal.stored
      BY ONLY <1>2, <1>3, m \in journal'.stored, m <= wire.queue[j].n, j \in DOMAIN wire.queue
    <3>2. Comes(m, j)
      BY <3>1 DEF QueueWhole
    <3> QED
      BY ONLY <2>1, <3>2, UNCHANGED client, Zenon DEF Comes
  <2>3. CursorWhole'
    BY <2>1 DEF CursorWhole
  <2> QED
    BY <1>4, <2>2, <2>3
<1>6. CASE ~Full
  <2>1. /\ link' = link /\ Len(wire'.queue) = Len(wire.queue) + 1
        /\ \A i \in 1..Len(wire.queue) : wire'.queue[i] = wire.queue[i]
        /\ wire'.queue[Len(wire.queue) + 1].n = n
        /\ wire'.queue[Len(wire.queue) + 1].kind = "event"
    BY <1>1, <1>6
  <2>2. /\ \A m : \A j \in 1..Len(wire.queue) : Comes(m, j) => Comes(m, j)'
        /\ \A m : Comes(m, Len(wire.queue)) => Comes(m, Len(wire.queue))'
    BY <1>1, <1>3, <2>1, ComesKept
  <2>3. Comes(n, Len(wire.queue))'
    <3>1. Len(wire.queue) + 1 \in 1..Len(wire'.queue)
      BY ONLY <1>3, <2>1
    <3> QED
      BY ONLY <2>1, <3>1, Zenon DEF Comes
  <2>4. /\ Sent(n)' /\ \A m : Sent(m) => Sent(m)'
    BY <1>6, SentIs
  <2>5. ASSUME NEW m \in journal'.stored, m <= n
        PROVE  Comes(m, Len(wire.queue))' /\ (m > base => Sent(m)')
    <3>1. CASE m = n
      BY <2>3, <2>4, <3>1
    <3>2. CASE m <= sub.cursor
      <4>1. m \in journal.stored
        BY ONLY <1>2, <1>3, <3>2, m \in journal'.stored
      <4>2. Comes(m, Len(wire.queue)) /\ (m > base => Sent(m))
        BY <3>2, <4>1 DEF CursorWhole
      <4> QED
        BY ONLY <2>2, <2>4, <4>2, Zenon
    <3>3. m \in Nat /\ (m <= sub.cursor \/ m >= n)
      BY <1>2
    <3> QED
      BY <1>1, <2>5, <3>1, <3>2, <3>3
  <2>6. QueueWhole'
    <3> SUFFICES ASSUME NEW j \in DOMAIN wire'.queue, wire'.queue[j].kind # "other",
                        NEW m \in journal'.stored, m <= wire'.queue[j].n
                 PROVE  Comes(m, j)'
      BY DEF QueueWhole
    <3>1. CASE j \in 1..Len(wire.queue)
      <4>1. wire'.queue[j] = wire.queue[j] /\ j \in DOMAIN wire.queue
        BY <1>3, <2>1, <3>1
      <4>2. m \in journal.stored
        BY ONLY <1>2, <1>3, <4>1, m \in journal'.stored, m <= wire'.queue[j].n
      <4>3. Comes(m, j)
        BY <4>1, <4>2 DEF QueueWhole
      <4> QED
        BY ONLY <2>2, <3>1, <4>3, Zenon
    <3>2. CASE j = Len(wire'.queue)
      <4>1. m <= n
        BY <2>1, <3>2
      <4>2. Comes(m, Len(wire.queue))'
        BY <2>5, <4>1
      <4> QED
        BY <3>2, <4>2
    <3>3. j \in 1..Len(wire.queue) \/ j = Len(wire'.queue)
      BY ONLY <1>1, <1>3, <2>1, j \in DOMAIN wire'.queue
    <3> QED
      BY <3>1, <3>2, <3>3
  <2>7. CursorWhole'
    <3> SUFFICES ASSUME NEW m \in journal'.stored, m <= n
                 PROVE  Comes(m, Len(wire.queue))' /\ (m > base => Sent(m)')
      BY DEF CursorWhole
    <3> QED
      BY <2>5
  <2> QED
    BY <1>4, <2>6, <2>7
<1> QED
  BY <1>5, <1>6

LEMMA OldOnes ==
  ASSUME JournalGrows
  PROVE  /\ journal.last \in Nat
         /\ \A n \in journal'.stored : n \in Nat /\ (n \in journal.stored \/ n > journal.last)
         /\ \A n \in journal'.stored : n <= journal.last => n \in journal.stored
<1>1. \A n \in journal'.stored : n \in Nat
  BY DEF JournalGrows, JournalType
<1>2. journal.last \in Nat /\ \A n \in journal'.stored : n \in journal.stored \/ n > journal.last
  BY DEF JournalGrows, JournalType
<1> QED
  BY ONLY <1>1, <1>2

(* A commit changes only what is above everything.                         *)
LEMMA CommitWhole ==
  ASSUME Setting, JournalType, WriterTypes, Sound, Topic # "ai", Whole, Commit
  PROVE  Whole'
<1>1. /\ JournalGrows /\ UNCHANGED <<sub, incoming, wire, link, client, base, sent>> /\ Topic # "bus"
      /\ journal'.last = journal.last + 1 /\ Len(due') = Len(due) + 1
      /\ \A i \in DOMAIN due : due'[i] = due[i]
      /\ due'[Len(due) + 1] = <<journal.last + 1>>
      /\ DOMAIN due' = 1..(Len(due) + 1) /\ DOMAIN due = 1..Len(due) /\ Len(due) \in Nat
  BY CommitKeeps
<1>2. /\ UNCHANGED sub /\ UNCHANGED incoming /\ UNCHANGED wire /\ UNCHANGED link /\ UNCHANGED client
      /\ UNCHANGED base /\ UNCHANGED sent
  BY <1>1
<1>3. /\ journal.last \in Nat
      /\ \A n \in journal'.stored : n \in Nat /\ (n \in journal.stored \/ n > journal.last)
      /\ \A n \in journal'.stored : n <= journal.last => n \in journal.stored
  BY <1>1, OldOnes
<1>4. PublishedUpTo' = PublishedUpTo /\ PublishedUpTo \in Int /\ PublishedUpTo <= journal.last
  BY <1>1, <1>3 DEF PublishedUpTo
<1>5. DueInTurn'
  <2>1. \A i \in DOMAIN due' : due'[i] = <<PublishedUpTo + i>>
    <3> SUFFICES ASSUME NEW i \in DOMAIN due'
                 PROVE  due'[i] = <<PublishedUpTo + i>>
      OBVIOUS
    <3>1. CASE i \in DOMAIN due
      BY <1>1, <3>1 DEF Whole, DueInTurn
    <3>2. CASE i = Len(due) + 1
      <4>1. PublishedUpTo + i = journal.last + 1
        BY <1>1, <1>3, <3>2 DEF PublishedUpTo
      <4> QED
        BY <1>1, <3>2, <4>1
    <3> QED
      BY <1>1, <3>1, <3>2
  <2> QED
    BY <1>1, <1>4, <2>1 DEF DueInTurn
<1>6. QueueWhole' /\ NoHole' /\ CursorWhole'
  BY <1>1, <1>2, QueueKept DEF Whole
<1>7. /\ sub.cursor \in Int /\ sub.cursor <= journal.last /\ incoming.mark \in Nat /\ incoming.mark <= journal.last
      /\ \A n \in incoming.page : n \in Nat /\ n <= journal.last
  BY BoundsAre
<1>8. LiveWhole'
  <2>1. LiveWhole
    BY DEF Whole
  <2> QED
    BY ONLY <1>2, <1>3, <1>4, <2>1 DEF LiveWhole
<1>9. PageWhole'
  <2>1. PageWhole
    BY DEF Whole
  <2> QED
    BY ONLY <1>1, <1>2, <1>3, <1>7, <2>1 DEF PageWhole
<1>10. MarkReached'
  <2>1. MarkReached
    BY DEF Whole
  <2> QED
    BY ONLY <1>2, <1>3, <1>7, <2>1 DEF MarkReached
<1>11. PendingWhole'
  <2>1. PendingWhole
    BY DEF Whole
  <2> QED
    BY ONLY <1>2, <1>3, <1>4, <2>1 DEF PendingWhole
<1> QED
  BY <1>5, <1>6, <1>8, <1>9, <1>10, <1>11 DEF Whole

LEMMA PublishWhole ==
  ASSUME Setting, JournalType, WriterTypes, Sound, Topic # "ai", Whole, DueInTurn', JournalGrows,
         NEW seq \in Given', seq = PublishedUpTo + 1, PublishedUpTo' = seq, publish(seq),
         UNCHANGED incoming, UNCHANGED client, UNCHANGED base
  PROVE  Whole'
<1>1. /\ journal.last \in Nat
      /\ \A n \in journal'.stored : n \in Nat /\ (n \in journal.stored \/ n > journal.last)
      /\ \A n \in journal'.stored : n <= journal.last => n \in journal.stored
  BY OldOnes
<1>2. /\ PublishedUpTo \in Int /\ PublishedUpTo <= journal.last /\ sub.cursor \in Int /\ sub.cursor <= journal.last
      /\ incoming.mark \in Nat /\ incoming.mark <= journal.last
      /\ \A n \in incoming.page : n \in Nat /\ n <= journal.last
      /\ Len(sub.pending) \in Nat /\ DOMAIN sub.pending = 1..Len(sub.pending)
      /\ \A i \in DOMAIN sub.pending : sub.pending[i] \in Nat
      /\ seq \in Int
  BY BoundsAre
<1>3. QueueWhole /\ NoHole /\ CursorWhole /\ LiveWhole /\ PageWhole /\ MarkReached /\ PendingWhole
  BY DEF Whole
<1>4. PageWhole'
  BY ONLY <1>1, <1>2, <1>3, UNCHANGED incoming DEF PageWhole
<1>a. /\ \A i, j \in DOMAIN sub.pending : i < j => sub.pending[i] < sub.pending[j]
      /\ \A i \in DOMAIN sub.pending : sub.pending[i] <= seq
  <2>1. /\ \A i, j \in DOMAIN sub.pending : i < j => sub.pending[i] < sub.pending[j]
        /\ \A i \in DOMAIN sub.pending : sub.pending[i] <= PublishedUpTo
    BY <1>3 DEF PendingWhole
  <2>2. \A i \in DOMAIN sub.pending : sub.pending[i] <= seq
    BY ONLY <1>2, <2>1, seq = PublishedUpTo + 1
  <2> QED
    BY ONLY <2>1, <2>2, Zenon
<1>5. CASE Skips(seq)
  <2>1. UNCHANGED sub /\ UNCHANGED wire /\ UNCHANGED link /\ UNCHANGED sent
    BY <1>5 DEF publish
  <2>2. QueueWhole' /\ NoHole' /\ CursorWhole'
    BY <1>3, <2>1, QueueKept
  <2>3. link # "open" \/ sub.cursor = Off \/ seq <= sub.cursor
    BY <1>5 DEF Skips, Registered
  <2>4. LiveWhole'
    BY ONLY <1>1, <1>2, <2>1, <2>3, PublishedUpTo' = seq DEF LiveWhole
  <2>5. MarkReached'
    BY ONLY <1>1, <1>2, <1>3, <2>1, UNCHANGED incoming DEF MarkReached
  <2>6. sub.replaying => sub.cursor # Off
    BY DEF Sound, Places
  <2>7. PendingWhole'
    <3>1. sub.replaying /\ link = "open" => \A n \in journal'.stored : ~(n > sub.cursor /\ n <= seq)
      BY ONLY <1>1, <1>2, <2>3, <2>6
    <3> QED
      BY ONLY <1>a, <2>1, <3>1, PublishedUpTo' = seq DEF PendingWhole
  <2> QED
    BY <1>4, <2>2, <2>4, <2>5, <2>7 DEF Whole
<1>6. CASE ~Skips(seq) /\ sub.replaying
  <2>1. /\ UNCHANGED wire /\ UNCHANGED sent
        /\ \/ link' = "slow" /\ UNCHANGED sub
           \/ /\ sub' = [sub EXCEPT !.pending = Append(@, seq)] /\ UNCHANGED link
              /\ ~(Len(sub.pending) >= QueueSize)
    BY <1>6 DEF publish
  <2>2. CASE link' = "slow" /\ UNCHANGED sub
    <3>1. QueueWhole' /\ NoHole' /\ CursorWhole'
      BY <1>3, <2>1, <2>2, QueueKept
    <3>2. LiveWhole'
      BY <2>2 DEF LiveWhole
    <3>3. MarkReached'
      BY ONLY <1>1, <1>2, <1>3, <2>2, UNCHANGED incoming DEF MarkReached
    <3>4. PendingWhole'
      BY ONLY <1>a, <2>2, PublishedUpTo' = seq DEF PendingWhole
    <3> QED
      BY <1>4, <3>1, <3>2, <3>3, <3>4 DEF Whole
  <2>3. CASE /\ sub' = [sub EXCEPT !.pending = Append(@, seq)] /\ UNCHANGED link
             /\ ~(Len(sub.pending) >= QueueSize)
    <3>1. /\ sub'.cursor = sub.cursor /\ sub'.replaying = sub.replaying
          /\ \A i \in DOMAIN sub.pending : i \in DOMAIN sub'.pending /\ sub'.pending[i] = sub.pending[i]
          /\ Len(sub.pending) + 1 \in DOMAIN sub'.pending /\ sub'.pending[Len(sub.pending) + 1] = seq
          /\ \A i \in DOMAIN sub'.pending : i \in DOMAIN sub.pending \/ i = Len(sub.pending) + 1
      BY <2>3, PendingIs DEF Sound, Types
    <3>2. QueueWhole' /\ NoHole' /\ CursorWhole'
      BY <1>3, <2>1, <2>3, <3>1, QueueKept
    <3>3. LiveWhole'
      BY <1>6, <3>1 DEF LiveWhole
    <3>4. MarkReached'
      BY ONLY <1>1, <1>2, <1>3, <3>1, UNCHANGED incoming DEF MarkReached
    <3>5. \A i \in DOMAIN sub'.pending : sub'.pending[i] <= seq
      BY ONLY <1>2, <1>3, <3>1, seq = PublishedUpTo + 1 DEF PendingWhole
    <3>6. \A i, j \in DOMAIN sub'.pending : i < j => sub'.pending[i] < sub'.pending[j]
      <4> SUFFICES ASSUME NEW i \in DOMAIN sub'.pending, NEW j \in DOMAIN sub'.pending, i < j
                   PROVE  sub'.pending[i] < sub'.pending[j]
        OBVIOUS
      <4>1. i \in DOMAIN sub.pending
        BY <1>2, <3>1
      <4>2. CASE j \in DOMAIN sub.pending
        BY <1>3, <3>1, <4>1, <4>2 DEF PendingWhole
      <4>3. CASE j = Len(sub.pending) + 1
        <5>1. sub'.pending[i] = sub.pending[i] /\ sub.pending[i] <= PublishedUpTo /\ sub.pending[i] \in Nat
          BY <1>2, <1>3, <3>1, <4>1 DEF PendingWhole
        <5>2. sub'.pending[j] = seq
          BY <3>1, <4>3
        <5> QED
          BY ONLY <1>2, <5>1, <5>2, seq = PublishedUpTo + 1
      <4> QED
        BY <3>1, <4>2, <4>3
    <3>7. \A n \in journal'.stored : n > sub.cursor /\ n > incoming.mark /\ n <= seq /\ link = "open" /\ incoming.at # "get" =>
            \E i \in DOMAIN sub'.pending : sub'.pending[i] = n
      <4> SUFFICES ASSUME NEW n \in journal'.stored, n > sub.cursor, n > incoming.mark, n <= seq,
                          link = "open", incoming.at # "get"
                   PROVE  \E i \in DOMAIN sub'.pending : sub'.pending[i] = n
        OBVIOUS
      <4>1. CASE n = seq
        BY ONLY <3>1, <4>1, Zenon
      <4>2. CASE n <= PublishedUpTo
        <5>1. n \in journal.stored
          BY ONLY <1>1, <1>2, <4>2, n \in journal'.stored
        <5>2. PICK i \in DOMAIN sub.pending : sub.pending[i] = n
          BY <1>3, <1>6, <4>2, <5>1 DEF PendingWhole
        <5> QED
          BY ONLY <3>1, <5>2, Zenon
      <4> QED
        BY <1>1, <1>2, <4>1, <4>2
    <3>8. PendingWhole'
      BY ONLY <3>1, <3>5, <3>6, <3>7, <2>3, UNCHANGED incoming, PublishedUpTo' = seq DEF PendingWhole
    <3> QED
      BY <1>4, <3>2, <3>3, <3>4, <3>8 DEF Whole
  <2> QED
    BY <2>1, <2>2, <2>3
<1>7. CASE ~Skips(seq) /\ ~sub.replaying
  <2>1. /\ sub' = [sub EXCEPT !.cursor = seq] /\ enqueue(seq, "event")
        /\ sent' = IF Full THEN sent ELSE Append(sent, seq)
    BY <1>7, Zenon DEF publish
  <2>2. link = "open" /\ sub.cursor # Off /\ seq > sub.cursor
    <3>1. link = "open" /\ sub.cursor # Off /\ ~(seq <= sub.cursor)
      BY <1>7 DEF Skips, Registered
    <3> QED
      BY ONLY <1>2, <3>1
  <2>3. sub' = [cursor |-> seq, replaying |-> sub.replaying, pending |-> sub.pending]
    BY <2>1 DEF Sound, Types, SubType
  <2>4. sub'.cursor = seq /\ sub'.replaying = sub.replaying /\ sub'.pending = sub.pending
    BY ONLY <2>3
  <2>5. \A m \in journal'.stored : m <= sub.cursor \/ m >= seq
    BY ONLY <1>1, <1>2, <1>3, <1>7, <2>2, seq = PublishedUpTo + 1 DEF LiveWhole
  <2>6. QueueWhole' /\ NoHole' /\ CursorWhole'
    BY <1>3, <2>1, <2>2, <2>4, <2>5, DeliverKeeps
  <2>7. LiveWhole'
    BY ONLY <2>4, PublishedUpTo' = seq DEF LiveWhole
  <2>8. incoming.at = "idle"
    BY <1>7 DEF Sound, Places
  <2>9. MarkReached'
    BY ONLY <2>8, UNCHANGED incoming DEF MarkReached
  <2>10. PendingWhole'
    BY ONLY <1>2, <1>3, <1>7, <2>4, PublishedUpTo' = seq, seq = PublishedUpTo + 1 DEF PendingWhole
  <2> QED
    BY <1>4, <2>6, <2>7, <2>9, <2>10 DEF Whole
<1> QED
  BY <1>5, <1>6, <1>7

LEMMA WriterWhole ==
  ASSUME Setting, JournalType, WriterTypes, Sound, Topic # "ai", Whole, Publish \/ PublishBus
  PROVE  Whole'
<1>1. DueInTurn /\ journal.last \in Nat /\ Len(due) \in Nat /\ DOMAIN due = 1..Len(due) /\ due \in Seq(Seq(Nat))
  BY DEF Whole, WriterTypes, JournalType
<1>2. CASE Publish
  <2>1. /\ UNCHANGED journal /\ UNCHANGED incoming /\ UNCHANGED client /\ UNCHANGED base /\ JournalGrows
        /\ 1 \in DOMAIN due /\ publish(Head(due[1])) /\ Head(due[1]) \in Given
        /\ due' = IF Len(due[1]) = 1 THEN RemoveAt(due, 1) ELSE [due EXCEPT ![1] = Tail(@)]
    BY <1>2, PublishKeeps
  <2>2. due[1] = <<PublishedUpTo + 1>>
    BY <1>1, <2>1 DEF DueInTurn
  <2>3. Len(due[1]) = 1 /\ Head(due[1]) = PublishedUpTo + 1
    BY <2>2
  <2>4. due' = RemoveAt(due, 1)
    BY <2>1, <2>3
  <2>5. /\ due' \in Seq(Seq(Nat)) /\ Len(due') = Len(due) - 1
        /\ \A j \in DOMAIN due' : due'[j] = due[j + 1]
    <3> DEFINE d == RemoveAt(due, 1)
    <3>1. /\ d \in Seq(Seq(Nat)) /\ Len(d) = Len(due) - 1
          /\ \A j \in DOMAIN d : d[j] = due[j + 1]
      BY <1>1, <2>1, RemoveIs
    <3>2. due' = d
      BY <2>4
    <3> HIDE DEF d
    <3> QED
      BY ONLY <3>1, <3>2
  <2>6. PublishedUpTo' = PublishedUpTo + 1 /\ PublishedUpTo \in Int
    <3>1. journal'.last = journal.last /\ Len(due') = Len(due) - 1
      BY <2>1, <2>5
    <3> QED
      BY ONLY <1>1, <3>1 DEF PublishedUpTo
  <2>7. DueInTurn'
    <3>1. \A j \in DOMAIN due' : due'[j] = <<(PublishedUpTo + 1) + j>>
      <4> SUFFICES ASSUME NEW j \in DOMAIN due'
                   PROVE  due'[j] = <<(PublishedUpTo + 1) + j>>
        OBVIOUS
      <4>1. j \in Nat /\ j + 1 \in DOMAIN due
        BY ONLY <1>1, <2>5, j \in DOMAIN due'
      <4>2. due[j + 1] = <<PublishedUpTo + (j + 1)>>
        BY <1>1, <4>1 DEF DueInTurn
      <4>3. PublishedUpTo + (j + 1) = (PublishedUpTo + 1) + j
        BY ONLY <2>6, <4>1
      <4> QED
        BY <2>5, <4>2, <4>3
    <3>2. Topic # "bus"
      <4>1. due # <<>>
        BY <1>1, <2>1
      <4> QED
        BY <1>1, <4>1 DEF DueInTurn
    <3> QED
      BY <2>6, <3>1, <3>2 DEF DueInTurn
  <2>8. PublishedUpTo + 1 \in Given'
    BY <2>1, <2>3 DEF Given
  <2> QED
    BY <2>1, <2>3, <2>6, <2>7, <2>8, PublishWhole
<1>3. CASE PublishBus
  <2>1. /\ JournalGrows /\ Topic = "bus"
        /\ UNCHANGED due /\ UNCHANGED incoming /\ UNCHANGED client /\ UNCHANGED base
        /\ journal'.last = journal.last + 1 /\ publish(journal'.last) /\ journal'.last \in Given'
    BY <1>3, PublishBusKeeps
  <2>2. due = <<>> /\ due' = <<>>
    BY <1>1, <2>1 DEF DueInTurn
  <2>3. PublishedUpTo = journal.last /\ PublishedUpTo' = journal'.last
    BY <1>1, <2>1, <2>2 DEF PublishedUpTo
  <2>4. DueInTurn'
    BY <2>2 DEF DueInTurn
  <2>5. journal'.last = PublishedUpTo + 1
    BY <2>1, <2>3
  <2> QED
    BY <2>1, <2>3, <2>4, <2>5, PublishWhole
<1> QED
  BY <1>2, <1>3

-----------------------------------------------------------------------------
(* The socket, the replay and the client leave the journal as it is.       *)
LEMMA SameJournal ==
  ASSUME JournalType, UNCHANGED journal, UNCHANGED due
  PROVE  JournalGrows /\ PublishedUpTo' = PublishedUpTo /\ journal'.stored = journal.stored /\ (DueInTurn => DueInTurn')
<1>1. PublishedUpTo' = PublishedUpTo
  BY DEF PublishedUpTo
<1>2. DueInTurn => DueInTurn'
  BY ONLY <1>1, UNCHANGED due, Zenon DEF DueInTurn
<1> QED
  BY <1>1, <1>2, GrowsNot

(* What comes still comes when neither the queue nor the client changes.   *)
LEMMA SameQueue ==
  ASSUME QueueWhole, UNCHANGED journal, wire'.queue = wire.queue, client'.got = client.got
  PROVE  QueueWhole'
<1>1. \A n : \A j : Comes(n, j) => Comes(n, j)'
  BY ONLY wire'.queue = wire.queue, client'.got = client.got, Zenon DEF Comes
<1> SUFFICES ASSUME NEW j \in DOMAIN wire'.queue, wire'.queue[j].kind # "other",
                    NEW n \in journal'.stored, n <= wire'.queue[j].n
             PROVE  Comes(n, j)'
  BY DEF QueueWhole
<1>2. Comes(n, j)
  BY DEF QueueWhole
<1> QED
  BY ONLY <1>1, <1>2, Zenon

LEMMA SubscribeWhole ==
  ASSUME Setting, JournalType, WriterTypes, Sound, Whole, Subscribe
  PROVE  Whole'
<1>1. /\ UNCHANGED journal /\ UNCHANGED due /\ UNCHANGED wire /\ UNCHANGED link
      /\ sub' = [cursor |-> client.seen, replaying |-> TRUE, pending |-> <<>>]
      /\ incoming' = [NoReplay EXCEPT !.at = "get", !.after = client.seen]
      /\ client' = [client EXCEPT !.marked = FALSE] /\ base' = client.seen
  BY DEF Subscribe
<1>2. /\ incoming'.at = "get" /\ sub'.cursor = client.seen /\ sub'.replaying = TRUE /\ sub'.pending = <<>>
      /\ client'.got = client.got /\ client'.seen = client.seen
  BY <1>1 DEF NoReplay, Sound, Types, ClientType
<1>3. PublishedUpTo' = PublishedUpTo /\ journal'.stored = journal.stored /\ DueInTurn'
  BY <1>1, SameJournal DEF Whole
<1>4. QueueWhole' /\ NoHole'
  <2>1. QueueWhole /\ NoHole /\ wire'.queue = wire.queue
    BY <1>1 DEF Whole
  <2>2. QueueWhole'
    BY <1>1, <1>2, <2>1, SameQueue
  <2>3. NoHole'
    BY ONLY <1>2, <1>3, <2>1 DEF NoHole
  <2> QED
    BY <2>2, <2>3
<1>5. CursorWhole'
  <2> SUFFICES ASSUME NEW n \in journal.stored, n <= client.seen
               PROVE  Comes(n, Len(wire.queue))' /\ ~(n > base')
    BY <1>2, <1>3 DEF CursorWhole
  <2>1. n \in client'.got
    BY <1>2 DEF Whole, NoHole
  <2>2. ~(n > base')
    BY <1>1, BoundsAre
  <2> QED
    BY <2>1, <2>2 DEF Comes
<1>6. LiveWhole' /\ PageWhole' /\ MarkReached'
  BY ONLY <1>2 DEF LiveWhole, PageWhole, MarkReached
<1>7. PendingWhole'
  BY ONLY <1>2 DEF PendingWhole
<1> QED
  BY <1>3, <1>4, <1>5, <1>6, <1>7 DEF Whole

(* Without a subscription only the queue and the client matter.            *)
LEMMA GoneWhole ==
  ASSUME QueueWhole', NoHole', DueInTurn', sub'.cursor = Off, sub'.pending = <<>>, ~sub'.replaying,
         incoming'.at = "idle"
  PROVE  Whole'
<1>1. CursorWhole' /\ LiveWhole' /\ PageWhole' /\ MarkReached'
  BY DEF CursorWhole, LiveWhole, PageWhole, MarkReached
<1>2. PendingWhole'
  BY DEF PendingWhole
<1> QED
  BY <1>1, <1>2 DEF Whole

LEMMA EndsWhole ==
  ASSUME Setting, JournalType, WriterTypes, Sound, Whole, Unsubscribe \/ Close \/ Connect
  PROVE  Whole'
<1>1. UNCHANGED journal /\ UNCHANGED due /\ UNCHANGED client
  BY DEF Unsubscribe, Close, Connect
<1>2. DueInTurn' /\ JournalGrows /\ journal'.stored = journal.stored
  BY <1>1, SameJournal DEF Whole
<1>3. NoHole'
  BY ONLY <1>1, <1>2, Whole, Zenon DEF Whole, NoHole
<1>4. QueueWhole'
  <2>1. UNCHANGED wire \/ wire'.queue = <<>>
    BY DEF Unsubscribe, Close, Connect, Sound, Types, WireType
  <2>2. CASE UNCHANGED wire
    <3>1. QueueWhole /\ wire'.queue = wire.queue /\ client'.got = client.got
      BY <1>1, <2>2 DEF Whole
    <3> QED
      BY <1>1, <3>1, SameQueue
  <2>3. CASE wire'.queue = <<>>
    BY <2>3 DEF QueueWhole
  <2> QED
    BY <2>1, <2>2, <2>3
<1>5. sub' = NoSub
  BY DEF Unsubscribe, Close, Connect, Sound, Places
<1>6. sub'.cursor = Off /\ sub'.pending = <<>> /\ ~sub'.replaying
  BY <1>5 DEF NoSub
<1>7. incoming'.at = "idle"
  <2>1. CASE Unsubscribe
    BY <2>1 DEF Unsubscribe, Waits
  <2>2. CASE Close
    BY <2>2 DEF Close, NoReplay
  <2>3. CASE Connect
    BY <2>3, <1>6 DEF Connect, Sound, Places
  <2> QED
    BY <2>1, <2>2, <2>3
<1> QED
  BY <1>2, <1>3, <1>4, <1>6, <1>7, GoneWhole

(* An item that is not an event: whatever comes with it comes before it.   *)
LEMMA ItemKeeps ==
  ASSUME Setting, JournalType, WriterTypes, Sound, QueueWhole, CursorWhole, NEW n \in Nat,
         NEW kind \in {"other", "subscribed"}, enqueue(n, kind),
         UNCHANGED client, UNCHANGED base, UNCHANGED sent, UNCHANGED sub, UNCHANGED journal,
         kind = "subscribed" => \A m \in journal.stored : m <= n => Comes(m, Len(wire.queue))
  PROVE  QueueWhole' /\ CursorWhole'
<1>1. /\ Full => link' = "slow" /\ wire'.queue = wire.queue
      /\ ~Full => /\ link' = link /\ Len(wire'.queue) = Len(wire.queue) + 1
                  /\ \A i \in 1..Len(wire.queue) : wire'.queue[i] = wire.queue[i]
                  /\ wire'.queue[Len(wire.queue) + 1].n = n
                  /\ wire'.queue[Len(wire.queue) + 1].kind = kind
      /\ Len(wire'.queue) \in Nat /\ DOMAIN wire'.queue = 1..Len(wire'.queue)
      /\ Len(wire.queue) \in Nat /\ DOMAIN wire.queue = 1..Len(wire.queue)
  <2>1. WireType
    BY DEF Sound, Types
  <2>2. /\ WireType'
        /\ Full => link' = "slow" /\ wire'.queue = wire.queue
        /\ ~Full => /\ link' = link /\ Len(wire'.queue) = Len(wire.queue) + 1
                    /\ \A i \in 1..Len(wire.queue) : wire'.queue[i] = wire.queue[i]
                    /\ wire'.queue[Len(wire.queue) + 1].n = n
                    /\ wire'.queue[Len(wire.queue) + 1].kind = kind
    BY <2>1, EnqueueIs
  <2>3. Len(wire'.queue) \in Nat /\ DOMAIN wire'.queue = 1..Len(wire'.queue)
    BY <2>2 DEF WireType
  <2> QED
    BY <2>2, <2>3, BoundsAre
<1>2. CASE Full
  <2>1. wire'.queue = wire.queue /\ link' # "open"
    BY <1>1, <1>2
  <2>2. QueueWhole'
    BY <2>1, SameQueue
  <2>3. CursorWhole'
    BY <2>1 DEF CursorWhole
  <2> QED
    BY <2>2, <2>3
<1>3. CASE ~Full
  <2>1. /\ link' = link /\ Len(wire'.queue) = Len(wire.queue) + 1
        /\ \A i \in 1..Len(wire.queue) : wire'.queue[i] = wire.queue[i]
        /\ wire'.queue[Len(wire.queue) + 1].n = n
        /\ wire'.queue[Len(wire.queue) + 1].kind = kind
    BY <1>1, <1>3
  <2>2. /\ \A m : \A j \in 1..Len(wire.queue) : Comes(m, j) => Comes(m, j)'
        /\ \A m : Comes(m, Len(wire.queue)) => Comes(m, Len(wire.queue))'
    BY <1>1, <2>1, ComesKept
  <2>3. QueueWhole'
    <3> SUFFICES ASSUME NEW j \in DOMAIN wire'.queue, wire'.queue[j].kind # "other",
                        NEW m \in journal.stored, m <= wire'.queue[j].n
                 PROVE  Comes(m, j)'
      BY DEF QueueWhole
    <3>1. CASE j \in 1..Len(wire.queue)
      <4>1. wire'.queue[j] = wire.queue[j] /\ j \in DOMAIN wire.queue
        BY <1>1, <2>1, <3>1
      <4>2. Comes(m, j)
        BY <4>1 DEF QueueWhole
      <4> QED
        BY ONLY <2>2, <3>1, <4>2, Zenon
    <3>2. CASE j = Len(wire'.queue)
      <4>1. Comes(m, Len(wire.queue))
        BY <2>1, <3>2
      <4>2. Comes(m, Len(wire.queue))'
        BY ONLY <2>2, <4>1, Zenon
      <4> QED
        BY <3>2, <4>2
    <3>3. j \in 1..Len(wire.queue) \/ j = Len(wire'.queue)
      BY ONLY <1>1, <2>1, j \in DOMAIN wire'.queue
    <3> QED
      BY <3>1, <3>2, <3>3
  <2>4. CursorWhole'
    BY ONLY <2>1, <2>2, CursorWhole, UNCHANGED base, UNCHANGED sent, UNCHANGED sub, UNCHANGED journal, Zenon
       DEF CursorWhole, Sent
  <2> QED
    BY <2>3, <2>4
<1> QED
  BY <1>2, <1>3

LEMMA BroadcastWhole ==
  ASSUME Setting, JournalType, WriterTypes, Sound, Whole, Broadcast
  PROVE  Whole'
<1>1. /\ UNCHANGED journal /\ UNCHANGED due /\ UNCHANGED client /\ UNCHANGED base /\ UNCHANGED sent
      /\ UNCHANGED sub /\ UNCHANGED incoming /\ enqueue(0, "other") /\ link = "open"
  BY DEF Broadcast, Registered
<1>2. DueInTurn' /\ PublishedUpTo' = PublishedUpTo /\ journal'.stored = journal.stored
  BY <1>1, SameJournal DEF Whole
<1>3. QueueWhole' /\ CursorWhole'
  BY <1>1, ItemKeeps DEF Whole
<1>4. NoHole' /\ LiveWhole' /\ PageWhole' /\ MarkReached' /\ PendingWhole'
  BY ONLY <1>1, <1>2, Whole, Zenon DEF Whole, NoHole, LiveWhole, PageWhole, MarkReached, PendingWhole
<1> QED
  BY <1>2, <1>3, <1>4 DEF Whole

LEMMA PumpWhole ==
  ASSUME Setting, JournalType, WriterTypes, Sound, Whole, Pump
  PROVE  Whole'
<1>1. /\ UNCHANGED journal /\ UNCHANGED due /\ UNCHANGED link /\ UNCHANGED base /\ UNCHANGED sent
      /\ UNCHANGED sub /\ UNCHANGED incoming
  BY DEF Pump
<1>2. DueInTurn' /\ PublishedUpTo' = PublishedUpTo /\ journal'.stored = journal.stored
  BY <1>1, SameJournal DEF Whole
<1>3. /\ Len(wire'.queue) = Len(wire.queue) - 1 /\ Len(wire.queue) > 0
      /\ Len(wire.queue) \in Nat /\ DOMAIN wire.queue = 1..Len(wire.queue)
      /\ DOMAIN wire'.queue = 1..Len(wire'.queue)
      /\ \A i \in DOMAIN wire'.queue : i + 1 \in DOMAIN wire.queue /\ wire'.queue[i] = wire.queue[i + 1]
      /\ client'.seen >= client.seen /\ client.got \subseteq client'.got
      /\ client'.seen = client.seen \/ (wire.queue[1].kind # "other" /\ client'.seen = wire.queue[1].n)
      /\ wire.queue[1].kind = "event" => wire.queue[1].n <= client.seen \/ wire.queue[1].n \in client'.got
  BY PumpIs
<1>4. QueueWhole /\ NoHole /\ CursorWhole
  BY DEF Whole
<1>5. ASSUME NEW n \in journal.stored, wire.queue[1].kind = "event", wire.queue[1].n = n
      PROVE  n \in client'.got
  BY <1>3, <1>4, <1>5 DEF NoHole
<1>6. ASSUME NEW n \in journal.stored, NEW j \in DOMAIN wire.queue, Comes(n, j)
      PROVE  n \in client'.got
             \/ \E i \in 1..(j - 1) : i \in DOMAIN wire'.queue /\ wire'.queue[i].kind = "event" /\ wire'.queue[i].n = n
  <2>1. CASE n \in client.got
    BY <1>3, <2>1
  <2>2. ASSUME NEW i \in 1..j, wire.queue[i].kind = "event", wire.queue[i].n = n
        PROVE  n \in client'.got
               \/ \E k \in 1..(j - 1) : k \in DOMAIN wire'.queue /\ wire'.queue[k].kind = "event" /\ wire'.queue[k].n = n
    <3>1. CASE i = 1
      BY <1>5, <2>2, <3>1
    <3>2. CASE i # 1
      <4>1. i - 1 \in 1..(j - 1) /\ i - 1 \in DOMAIN wire'.queue /\ (i - 1) + 1 = i
        BY ONLY <1>3, <3>2, i \in 1..j, j \in DOMAIN wire.queue
      <4>2. wire'.queue[i - 1] = wire.queue[i]
        BY <1>3, <4>1
      <4> QED
        BY <2>2, <4>1, <4>2
    <3> QED
      BY <3>1, <3>2
  <2> QED
    BY <1>6, <2>1, <2>2 DEF Comes
<1>7. QueueWhole'
  <2> SUFFICES ASSUME NEW j \in DOMAIN wire'.queue, wire'.queue[j].kind # "other",
                      NEW n \in journal.stored, n <= wire'.queue[j].n
               PROVE  Comes(n, j)'
    BY <1>2 DEF QueueWhole
  <2>1. j + 1 \in DOMAIN wire.queue /\ wire'.queue[j] = wire.queue[j + 1] /\ (j + 1) - 1 = j
    BY <1>3
  <2>2. Comes(n, j + 1)
    BY <1>4, <2>1 DEF QueueWhole
  <2>3. n \in client'.got
        \/ \E i \in 1..((j + 1) - 1) : i \in DOMAIN wire'.queue /\ wire'.queue[i].kind = "event" /\ wire'.queue[i].n = n
    BY <1>6, <2>1, <2>2
  <2> QED
    BY <2>1, <2>3 DEF Comes
<1>8. NoHole'
  <2> SUFFICES ASSUME NEW n \in journal.stored, n <= client'.seen
               PROVE  n \in client'.got
    BY <1>2 DEF NoHole
  <2>1. CASE client'.seen = client.seen
    BY <1>3, <1>4, <2>1 DEF NoHole
  <2>2. CASE wire.queue[1].kind # "other" /\ client'.seen = wire.queue[1].n
    <3>1. 1 \in DOMAIN wire.queue
      BY <1>3
    <3>2. Comes(n, 1)
      BY <1>4, <2>2, <3>1 DEF QueueWhole
    <3>3. n \in client'.got \/ \E i \in 1..(1 - 1) : TRUE
      BY <1>6, <3>1, <3>2
    <3> QED
      BY <3>3
  <2> QED
    BY <1>3, <2>1, <2>2
<1>9. CursorWhole'
  <2> SUFFICES ASSUME sub.cursor # Off, link = "open", NEW n \in journal.stored, n <= sub.cursor
               PROVE  Comes(n, Len(wire.queue))' /\ (n > base => Sent(n)')
    BY <1>1, <1>2 DEF CursorWhole
  <2>1. Comes(n, Len(wire.queue)) /\ (n > base => Sent(n))
    BY <1>4 DEF CursorWhole
  <2>2. Len(wire.queue) \in DOMAIN wire.queue /\ Len(wire.queue) - 1 = Len(wire'.queue)
    BY <1>3
  <2>3. n \in client'.got
        \/ \E i \in 1..(Len(wire.queue) - 1) : i \in DOMAIN wire'.queue /\ wire'.queue[i].kind = "event" /\ wire'.queue[i].n = n
    BY <1>6, <2>1, <2>2
  <2>4. Comes(n, Len(wire.queue))'
    BY ONLY <2>2, <2>3 DEF Comes
  <2>5. Sent(n) => Sent(n)'
    BY ONLY <1>1, Zenon DEF Sent
  <2> QED
    BY <2>1, <2>4, <2>5
<1>10. LiveWhole' /\ PageWhole' /\ MarkReached' /\ PendingWhole'
  BY ONLY <1>1, <1>2, Whole, Zenon DEF Whole, LiveWhole, PageWhole, MarkReached, PendingWhole
<1> QED
  BY <1>2, <1>7, <1>8, <1>9, <1>10 DEF Whole

-----------------------------------------------------------------------------
(* The replay reads what is stored above the cursor, up to its watermark.  *)
LEMMA ReplayBounds ==
  ASSUME Setting, JournalType, WriterTypes, Sound
  PROVE  /\ sub.cursor \in Int /\ incoming.after \in Nat /\ incoming.mark \in Nat /\ PublishedUpTo \in Int
         /\ journal.last \in Nat /\ PublishedUpTo <= journal.last
         /\ \A n \in incoming.page : n \in Nat
         /\ \A n \in journal.stored : n \in Nat /\ n <= journal.last
BY BoundsAre

LEMMA WatermarkedWhole ==
  ASSUME Setting, JournalType, WriterTypes, Sound, Topic # "ai", Whole, Watermarked
  PROVE  Whole'
<1>1. /\ UNCHANGED journal /\ UNCHANGED due /\ UNCHANGED wire /\ UNCHANGED client
      /\ UNCHANGED base /\ UNCHANGED sent /\ UNCHANGED <<wire, client, base, sent>>
  BY DEF Watermarked
<1>2. /\ sub' = sub /\ link' = link /\ link = "open" /\ incoming.at = "get"
      /\ incoming'.mark = journal.last /\ incoming'.after = incoming.after
      /\ incoming'.at \in {"read", "send"} /\ (incoming'.at = "send" <=> Topic = "bus")
      /\ incoming'.page = IF Topic = "bus" THEN {n \in journal.stored : n > incoming.after} ELSE {}
  BY WatermarkedSound
<1>3. JournalGrows /\ PublishedUpTo' = PublishedUpTo /\ journal'.stored = journal.stored /\ DueInTurn'
  BY <1>1, SameJournal DEF Whole
<1>4. QueueWhole /\ NoHole /\ CursorWhole /\ LiveWhole /\ PendingWhole
  BY DEF Whole
<1>5. QueueWhole' /\ NoHole' /\ CursorWhole'
  BY <1>1, <1>2, <1>3, <1>4, QueueKept
<1>6. /\ incoming.after \in Nat /\ journal.last \in Nat /\ \A n \in journal.stored : n \in Nat /\ n <= journal.last
  BY ReplayBounds
<1>7. LiveWhole'
  BY ONLY <1>2, <1>3, <1>4 DEF LiveWhole
<1>8. PageWhole'
  BY ONLY <1>2, <1>3, <1>6 DEF PageWhole
<1>9. MarkReached'
  BY ONLY <1>2 DEF MarkReached
<1>10. PendingWhole'
  BY ONLY <1>2, <1>3, <1>4, <1>6 DEF PendingWhole
<1> QED
  BY <1>3, <1>5, <1>7, <1>8, <1>9, <1>10 DEF Whole

LEMMA ReadPageWhole ==
  ASSUME Setting, JournalType, WriterTypes, Sound, Topic \notin {"ai", "bus"}, Whole, ReadPage
  PROVE  Whole'
<1>1. /\ UNCHANGED journal /\ UNCHANGED due /\ UNCHANGED wire /\ UNCHANGED client
      /\ UNCHANGED base /\ UNCHANGED sent /\ UNCHANGED <<wire, client, base, sent>>
  BY DEF ReadPage
<1>2. /\ sub' = sub /\ link' = link /\ incoming.at = "read"
      /\ incoming'.after = incoming.after /\ incoming'.mark = incoming.mark
      /\ \/ /\ incoming'.at = "mark" /\ (incoming.after >= incoming.mark \/ Paged = {})
         \/ incoming'.at = "send" /\ incoming'.page = {n \in Paged : n <= incoming.mark}
  BY ReadPageSound
<1>3. JournalGrows /\ PublishedUpTo' = PublishedUpTo /\ journal'.stored = journal.stored /\ DueInTurn'
  BY <1>1, SameJournal DEF Whole
<1>4. QueueWhole /\ NoHole /\ CursorWhole /\ LiveWhole /\ PendingWhole
  BY DEF Whole
<1>5. QueueWhole' /\ NoHole' /\ CursorWhole'
  BY <1>1, <1>2, <1>3, <1>4, QueueKept
<1>6. /\ incoming.after \in Nat /\ incoming.mark \in Nat /\ \A n \in journal.stored : n \in Nat
      /\ Paged \subseteq journal.stored /\ sub.cursor = incoming.after
  BY <1>2, ReplayBounds DEF Paged, Sound, Places
<1>7. /\ \A n \in Paged, m \in journal.stored : incoming.after < m /\ m <= n => m \in Paged
      /\ Paged = {} => \A n \in journal.stored : n <= incoming.after
  BY PagedIs DEF Sound, Types
<1>8. LiveWhole'
  BY ONLY <1>2, <1>3, <1>4 DEF LiveWhole
<1>9. PageWhole'
  <2> SUFFICES ASSUME incoming'.at = "send", NEW n \in journal.stored, NEW p \in incoming'.page,
                      incoming.after < n, n <= p
               PROVE  n \in incoming'.page
    BY <1>2, <1>3 DEF PageWhole
  <2>1. incoming'.page = {k \in Paged : k <= incoming.mark}
    BY <1>2
  <2>2. p \in Paged /\ p <= incoming.mark /\ p \in Nat /\ n \in Nat
    BY <1>6, <2>1
  <2>3. n \in Paged /\ n <= incoming.mark
    BY <1>6, <1>7, <2>2
  <2> QED
    BY ONLY <2>1, <2>3, Zenon
<1>10. MarkReached'
  <2> SUFFICES ASSUME incoming'.at \in {"mark", "drain"}, NEW n \in journal.stored, n <= incoming.mark
               PROVE  n <= sub.cursor
    BY <1>2, <1>3 DEF MarkReached
  <2>1. incoming.after >= incoming.mark \/ Paged = {}
    BY <1>2
  <2> QED
    BY ONLY <1>6, <1>7, <2>1, n <= incoming.mark, n \in journal.stored
<1>11. PendingWhole'
  BY ONLY <1>2, <1>3, <1>4 DEF PendingWhole
<1> QED
  BY <1>3, <1>5, <1>8, <1>9, <1>10, <1>11 DEF Whole

LEMMA SendEndWhole ==
  ASSUME Setting, JournalType, WriterTypes, Sound, Topic # "ai", Whole, SendReplayed, incoming.page = {}
  PROVE  Whole'
<1>1. /\ UNCHANGED <<journal, due, sub, wire, link, client, base, sent>> /\ incoming.at = "send"
      /\ incoming'.at = IF Topic = "bus" THEN "mark" ELSE "read"
      /\ incoming'.page = {} /\ incoming'.after = incoming.after /\ incoming'.mark = incoming.mark
  BY SendEndSound
<1>2. /\ UNCHANGED journal /\ UNCHANGED due /\ sub' = sub /\ link' = link /\ UNCHANGED <<wire, client, base, sent>>
  BY <1>1
<1>3. JournalGrows /\ PublishedUpTo' = PublishedUpTo /\ journal'.stored = journal.stored /\ DueInTurn'
  BY <1>2, SameJournal DEF Whole
<1>4. QueueWhole /\ NoHole /\ CursorWhole /\ LiveWhole /\ PageWhole /\ PendingWhole
  BY DEF Whole
<1>5. QueueWhole' /\ NoHole' /\ CursorWhole'
  BY <1>2, <1>3, <1>4, QueueKept
<1>6. /\ incoming.after \in Nat /\ \A n \in journal.stored : n \in Nat
      /\ sub.cursor = incoming.after
  BY <1>1, ReplayBounds DEF Sound, Places
<1>7. LiveWhole'
  BY ONLY <1>2, <1>3, <1>4 DEF LiveWhole
<1>8. PageWhole'
  BY ONLY <1>1 DEF PageWhole
<1>9. MarkReached'
  BY ONLY <1>1, <1>2, <1>3, <1>4, <1>6, incoming.page = {} DEF MarkReached, PageWhole
<1>10. PendingWhole'
  BY ONLY <1>1, <1>2, <1>3, <1>4 DEF PendingWhole
<1> QED
  BY <1>3, <1>5, <1>7, <1>8, <1>9, <1>10 DEF Whole

LEMMA SendOneWhole ==
  ASSUME Setting, JournalType, WriterTypes, Sound, Topic # "ai", Whole, SendReplayed, incoming.page # {}
  PROVE  Whole'
<1>1. /\ UNCHANGED journal /\ UNCHANGED due /\ UNCHANGED client /\ UNCHANGED base
      /\ UNCHANGED link /\ link = "open" /\ ~Full
      /\ incoming.at = "send" /\ incoming'.at = "send" /\ incoming'.mark = incoming.mark
      /\ \E n \in incoming.page :
           /\ \A m \in incoming.page : n <= m
           /\ enqueue(n, "event") /\ sent' = Append(sent, n) /\ n \in Given /\ n > sub.cursor
           /\ sub'.cursor = n /\ sub'.replaying = sub.replaying /\ sub'.pending = sub.pending
           /\ incoming'.after = n /\ incoming'.page = incoming.page \ {n}
  BY SendOneSound
<1>2. PICK n \in incoming.page :
           /\ \A m \in incoming.page : n <= m
           /\ enqueue(n, "event") /\ sent' = Append(sent, n) /\ n \in Given /\ n > sub.cursor
           /\ sub'.cursor = n /\ sub'.replaying = sub.replaying /\ sub'.pending = sub.pending
           /\ incoming'.after = n /\ incoming'.page = incoming.page \ {n}
  BY <1>1
<1>3. JournalGrows /\ Given' = Given /\ PublishedUpTo' = PublishedUpTo /\ journal'.stored = journal.stored /\ DueInTurn'
  BY <1>1, SameJournal, GrowsNot DEF Whole
<1>4. QueueWhole /\ NoHole /\ CursorWhole /\ PageWhole /\ PendingWhole
  BY DEF Whole
<1>5. /\ sub.cursor \in Int /\ incoming.after \in Nat /\ incoming.mark \in Nat /\ n \in Nat
      /\ \A k \in incoming.page : k \in Nat
      /\ \A k \in journal.stored : k \in Nat
  BY ReplayBounds
<1>6. sub.cursor = incoming.after /\ sub.cursor # Off /\ sub.replaying
  BY <1>1 DEF Sound, Places
<1>7. \A m \in journal'.stored : m <= sub.cursor \/ m >= n
  BY ONLY <1>1, <1>2, <1>3, <1>4, <1>5, <1>6 DEF PageWhole
<1>8. QueueWhole' /\ NoHole' /\ CursorWhole'
  BY <1>1, <1>2, <1>3, <1>4, <1>6, <1>7, DeliverKeeps
<1>9. LiveWhole'
  BY ONLY <1>2, <1>6 DEF LiveWhole
<1>10. PageWhole'
  BY ONLY <1>1, <1>2, <1>3, <1>4, <1>5, <1>6 DEF PageWhole
<1>11. MarkReached'
  BY ONLY <1>1 DEF MarkReached
<1>12. PendingWhole'
  BY ONLY <1>1, <1>2, <1>3, <1>4, <1>5 DEF PendingWhole
<1> QED
  BY <1>3, <1>8, <1>9, <1>10, <1>11, <1>12 DEF Whole

LEMMA SendMarkWhole ==
  ASSUME Setting, JournalType, WriterTypes, Sound, Topic # "ai", Whole, SendMark
  PROVE  Whole'
<1>1. /\ incoming.at = "mark" /\ incoming'.at = "drain" /\ incoming'.mark = incoming.mark
      /\ incoming'.page = {} /\ enqueue(incoming.mark, "subscribed") /\ UNCHANGED link /\ link = "open"
      /\ UNCHANGED <<journal, due, sub, client, base, sent>>
  BY SendMarkSound
<1>2. /\ UNCHANGED journal /\ UNCHANGED due /\ UNCHANGED sub /\ UNCHANGED client /\ UNCHANGED base /\ UNCHANGED sent
  BY <1>1
<1>3. PublishedUpTo' = PublishedUpTo /\ journal'.stored = journal.stored /\ DueInTurn'
  BY <1>2, SameJournal DEF Whole
<1>4. QueueWhole /\ NoHole /\ CursorWhole /\ LiveWhole /\ MarkReached /\ PendingWhole
  BY DEF Whole
<1>5. incoming.mark \in Nat /\ sub.cursor # Off
  BY <1>1, ReplayBounds DEF Sound, Places
<1>6. \A m \in journal.stored : m <= incoming.mark => Comes(m, Len(wire.queue))
  BY <1>1, <1>4, <1>5 DEF MarkReached, CursorWhole
<1>7. QueueWhole' /\ CursorWhole'
  BY <1>1, <1>2, <1>4, <1>5, <1>6, ItemKeeps
<1>8. NoHole'
  BY ONLY <1>2, <1>3, <1>4, Zenon DEF NoHole
<1>9. LiveWhole' /\ MarkReached'
  BY ONLY <1>1, <1>2, <1>3, <1>4 DEF LiveWhole, MarkReached
<1>10. PageWhole'
  BY ONLY <1>1 DEF PageWhole
<1>11. PendingWhole'
  BY ONLY <1>1, <1>2, <1>3, <1>4 DEF PendingWhole
<1> QED
  BY <1>3, <1>7, <1>8, <1>9, <1>10, <1>11 DEF Whole

(* What waits goes up: without its head it holds what is above the head.   *)
LEMMA TailIs ==
  ASSUME SubType, PendingWhole, sub.pending # <<>>, sub'.pending = Tail(sub.pending)
  PROVE  /\ 1 \in DOMAIN sub.pending
         /\ \A i \in DOMAIN sub'.pending : i + 1 \in DOMAIN sub.pending /\ sub'.pending[i] = sub.pending[i + 1]
         /\ \A i, j \in DOMAIN sub'.pending : i < j => sub'.pending[i] < sub'.pending[j]
         /\ \A i \in DOMAIN sub'.pending : sub'.pending[i] <= PublishedUpTo
         /\ \A i \in DOMAIN sub.pending :
              i = 1 \/ (sub.pending[1] < sub.pending[i] /\ \E k \in DOMAIN sub'.pending : sub'.pending[k] = sub.pending[i])
<1> DEFINE p == sub.pending
           t == Tail(p)
<1>1. /\ p \in Seq(Nat) /\ p # <<>> /\ sub'.pending = t
  BY DEF SubType
<1>2. /\ \A i, j \in DOMAIN p : i < j => p[i] < p[j]
      /\ \A i \in DOMAIN p : p[i] <= PublishedUpTo
  BY DEF PendingWhole
<1> HIDE DEF p
<1>3. /\ t \in Seq(Nat) /\ Len(t) = Len(p) - 1 /\ Len(p) \in Nat /\ Len(p) > 0
      /\ \A i \in 1..Len(t) : t[i] = p[i + 1]
      /\ DOMAIN t = 1..Len(t) /\ DOMAIN p = 1..Len(p)
  BY ONLY <1>1, HeadTailProperties
<1> HIDE DEF t
<1>4. 1 \in DOMAIN p /\ \A i \in DOMAIN t : i + 1 \in DOMAIN p /\ t[i] = p[i + 1] /\ i \in Nat
  BY ONLY <1>3
<1>5. \A i, j \in DOMAIN t : i < j => t[i] < t[j]
  <2> SUFFICES ASSUME NEW i \in DOMAIN t, NEW j \in DOMAIN t, i < j
               PROVE  t[i] < t[j]
    OBVIOUS
  <2>1. i + 1 \in DOMAIN p /\ j + 1 \in DOMAIN p /\ i + 1 < j + 1 /\ t[i] = p[i + 1] /\ t[j] = p[j + 1]
    BY <1>4
  <2> QED
    BY ONLY <1>2, <2>1
<1>6. \A i \in DOMAIN t : t[i] <= PublishedUpTo
  BY ONLY <1>2, <1>4
<1>7. \A i \in DOMAIN p : i = 1 \/ (p[1] < p[i] /\ \E k \in DOMAIN t : t[k] = p[i])
  <2> SUFFICES ASSUME NEW i \in DOMAIN p, i # 1
               PROVE  p[1] < p[i] /\ \E k \in DOMAIN t : t[k] = p[i]
    OBVIOUS
  <2>1. i - 1 \in DOMAIN t /\ (i - 1) + 1 = i /\ 1 < i
    BY ONLY <1>3, i \in DOMAIN p, i # 1
  <2>2. t[i - 1] = p[i]
    BY ONLY <1>4, <2>1
  <2>3. p[1] < p[i]
    BY ONLY <1>2, <1>4, <2>1, i \in DOMAIN p
  <2> QED
    BY ONLY <2>1, <2>2, <2>3, Zenon
<1> QED
  BY <1>1, <1>4, <1>5, <1>6, <1>7 DEF p

LEMMA DrainWhole ==
  ASSUME Setting, JournalType, WriterTypes, Sound, Topic # "ai", Whole, Drain
  PROVE  Whole'
<1>1. /\ UNCHANGED journal /\ UNCHANGED due /\ UNCHANGED client /\ UNCHANGED base
      /\ UNCHANGED link /\ link = "open" /\ incoming.at = "drain"
      /\ \/ /\ sub.pending = <<>> /\ incoming'.at = "idle" /\ UNCHANGED wire /\ UNCHANGED sent
            /\ sub'.cursor = sub.cursor /\ ~sub'.replaying /\ sub'.pending = <<>>
         \/ /\ UNCHANGED incoming /\ sub.pending # <<>> /\ sub'.pending = Tail(sub.pending)
            /\ sub'.replaying = sub.replaying
            /\ \/ /\ sub.pending[1] <= sub.cursor /\ UNCHANGED wire /\ UNCHANGED sent
                  /\ sub'.cursor = sub.cursor
               \/ /\ sub.pending[1] > sub.cursor /\ ~Full /\ enqueue(sub.pending[1], "event")
                  /\ sub'.cursor = sub.pending[1] /\ sent' = Append(sent, sub.pending[1])
  BY DrainSound
<1>2. JournalGrows /\ Given' = Given /\ PublishedUpTo' = PublishedUpTo /\ journal'.stored = journal.stored /\ DueInTurn'
  BY <1>1, SameJournal, GrowsNot DEF Whole
<1>3. QueueWhole /\ NoHole /\ CursorWhole /\ MarkReached /\ PendingWhole
  BY DEF Whole
<1>4. /\ sub.cursor \in Int /\ incoming.mark \in Nat /\ \A k \in journal.stored : k \in Nat
      /\ PublishedUpTo \in Int /\ \A i \in DOMAIN sub.pending : sub.pending[i] \in Nat
  BY BoundsAre
<1>5. sub.replaying /\ sub.cursor # Off
  BY <1>1 DEF Sound, Places
<1>6. \A m \in journal.stored : m <= incoming.mark => m <= sub.cursor
  BY <1>1, <1>3 DEF MarkReached
<1>7. \A m \in journal.stored : m > sub.cursor /\ m <= PublishedUpTo => \E i \in DOMAIN sub.pending : sub.pending[i] = m
  BY ONLY <1>1, <1>3, <1>4, <1>5, <1>6 DEF PendingWhole
<1>8. CASE sub.pending = <<>>
  <2>1. /\ incoming'.at = "idle" /\ UNCHANGED <<wire, client, base, sent>>
        /\ sub'.cursor = sub.cursor /\ ~sub'.replaying /\ sub'.pending = <<>>
    BY <1>1, <1>8
  <2>2. QueueWhole' /\ NoHole' /\ CursorWhole'
    BY <1>1, <1>2, <1>3, <2>1, QueueKept
  <2>3. \A m \in journal.stored : m > sub.cursor => m > PublishedUpTo
    BY ONLY <1>4, <1>7, <1>8
  <2>4. LiveWhole'
    BY ONLY <1>2, <2>1, <2>3 DEF LiveWhole
  <2>5. PageWhole' /\ MarkReached' /\ PendingWhole'
    BY ONLY <2>1 DEF PageWhole, MarkReached, PendingWhole
  <2> QED
    BY <1>2, <2>2, <2>4, <2>5 DEF Whole
<1>9. CASE sub.pending # <<>>
  <2>1. /\ UNCHANGED incoming /\ sub'.pending = Tail(sub.pending) /\ sub'.replaying = sub.replaying
    BY <1>1, <1>9
  <2>2. /\ 1 \in DOMAIN sub.pending
        /\ \A i, j \in DOMAIN sub'.pending : i < j => sub'.pending[i] < sub'.pending[j]
        /\ \A i \in DOMAIN sub'.pending : sub'.pending[i] <= PublishedUpTo
        /\ \A i \in DOMAIN sub.pending :
             i = 1 \/ (sub.pending[1] < sub.pending[i] /\ \E k \in DOMAIN sub'.pending : sub'.pending[k] = sub.pending[i])
    BY <1>3, <1>9, <2>1, TailIs DEF Sound, Types
  <2>3. LiveWhole'
    BY ONLY <1>5, <2>1 DEF LiveWhole
  <2>4. PageWhole'
    BY ONLY <1>1, <2>1 DEF PageWhole
  <2>5. CASE /\ sub.pending[1] <= sub.cursor /\ UNCHANGED wire /\ UNCHANGED sent
             /\ sub'.cursor = sub.cursor
    <3>1. UNCHANGED <<wire, client, base, sent>>
      BY <1>1, <2>5
    <3>2. QueueWhole' /\ NoHole' /\ CursorWhole'
      BY <1>1, <1>2, <1>3, <2>5, <3>1, QueueKept
    <3>3. MarkReached'
      BY ONLY <1>2, <1>6, <2>1, <2>5 DEF MarkReached
    <3>4. \A m \in journal.stored : m > sub.cursor /\ m <= PublishedUpTo => \E k \in DOMAIN sub'.pending : sub'.pending[k] = m
      <4> SUFFICES ASSUME NEW m \in journal.stored, m > sub.cursor, m <= PublishedUpTo
                   PROVE  \E k \in DOMAIN sub'.pending : sub'.pending[k] = m
        OBVIOUS
      <4>1. PICK i \in DOMAIN sub.pending : sub.pending[i] = m
        BY <1>7
      <4>2. i # 1
        BY ONLY <1>4, <2>5, <4>1, m > sub.cursor, m \in journal.stored
      <4> QED
        BY ONLY <2>2, <4>1, <4>2, Zenon
    <3>5. PendingWhole'
      BY ONLY <1>2, <2>2, <2>5, <3>4 DEF PendingWhole
    <3> QED
      BY <1>2, <2>3, <2>4, <3>2, <3>3, <3>5 DEF Whole
  <2>6. CASE /\ sub.pending[1] > sub.cursor /\ ~Full /\ enqueue(sub.pending[1], "event")
             /\ sub'.cursor = sub.pending[1] /\ sent' = Append(sent, sub.pending[1])
    <3>1. sub.pending[1] \in Given' /\ sub.pending[1] \in Nat /\ sub.pending[1] <= PublishedUpTo
      <4>1. sub.pending[1] \in Given
        BY <2>2 DEF Sound, Types, SubGiven
      <4> QED
        BY <1>2, <1>3, <1>4, <2>2, <4>1 DEF PendingWhole
    <3>2. \A m \in journal.stored : m <= sub.cursor \/ m >= sub.pending[1]
      <4> SUFFICES ASSUME NEW m \in journal.stored, m > sub.cursor, m < sub.pending[1]
                   PROVE  FALSE
        BY <1>4, <3>1
      <4>1. PICK i \in DOMAIN sub.pending : sub.pending[i] = m
        BY ONLY <1>4, <1>7, <3>1, m \in journal.stored, m > sub.cursor, m < sub.pending[1]
      <4>2. i = 1 \/ sub.pending[1] < sub.pending[i]
        BY <2>2
      <4> QED
        BY ONLY <1>4, <3>1, <4>1, <4>2, m \in journal.stored, m < sub.pending[1]
    <3>3. QueueWhole' /\ NoHole' /\ CursorWhole'
      BY <1>1, <1>2, <1>3, <1>5, <2>6, <3>1, <3>2, DeliverKeeps
    <3>4. MarkReached'
      BY ONLY <1>2, <1>4, <1>6, <2>1, <2>6, <3>1 DEF MarkReached
    <3>5. \A m \in journal.stored : m > sub.pending[1] /\ m <= PublishedUpTo => \E k \in DOMAIN sub'.pending : sub'.pending[k] = m
      <4> SUFFICES ASSUME NEW m \in journal.stored, m > sub.pending[1], m <= PublishedUpTo
                   PROVE  \E k \in DOMAIN sub'.pending : sub'.pending[k] = m
        OBVIOUS
      <4>1. m > sub.cursor
        BY ONLY <1>4, <2>6, <3>1, m \in journal.stored, m > sub.pending[1]
      <4>2. PICK i \in DOMAIN sub.pending : sub.pending[i] = m
        BY <1>7, <4>1
      <4>3. i # 1
        BY ONLY <3>1, <4>2, m > sub.pending[1]
      <4> QED
        BY ONLY <2>2, <4>2, <4>3, Zenon
    <3>6. PendingWhole'
      BY ONLY <1>2, <2>2, <2>6, <3>5 DEF PendingWhole
    <3> QED
      BY <1>2, <2>3, <2>4, <3>3, <3>4, <3>6 DEF Whole
  <2> QED
    BY <1>1, <1>9, <2>5, <2>6
<1> QED
  BY <1>8, <1>9

-----------------------------------------------------------------------------
(* The invariant holds at first and every step keeps it.                   *)
LEMMA StreamInvInit ==
  ASSUME Setting, StreamInit
  PROVE  StreamInv
<1>1. /\ {QueueSize, Commits, Others, Frames, Cancels} \subseteq Nat
  BY DEF Setting, StreamAssumption
<1>2. /\ journal = [last |-> 0, stored |-> {}] /\ due = <<>>
      /\ sub = [cursor |-> -1, replaying |-> FALSE, pending |-> <<>>]
      /\ incoming = [at |-> "idle", after |-> 0, mark |-> 0, page |-> {}]
      /\ wire = [seq |-> 0, queue |-> <<>>] /\ link = "open"
      /\ client = [seen |-> 0, got |-> {}, marked |-> FALSE] /\ base = 0 /\ sent = <<>>
      /\ bound = [commits |-> Commits, others |-> Others, frames |-> Frames, cancels |-> Cancels]
  BY DEF StreamInit, NoSub, NoReplay, Off
<1>3. JournalType
  BY <1>2 DEF JournalType, Given
<1>4. WriterTypes
  BY <1>1, <1>2 DEF WriterTypes
<1>5. SubType /\ ReplayType
  BY <1>1, <1>2 DEF SubType, ReplayType
<1>6. WireType /\ ClientType /\ SentType
  BY <1>1, <1>2 DEF WireType, ClientType, SentType
<1>7. SubGiven /\ ReplayGiven /\ QueueGiven /\ ClientGiven /\ SentGiven
  BY <1>2 DEF SubGiven, ReplayGiven, QueueGiven, ClientGiven, SentGiven, Given, Off
<1>8. Places
  BY <1>2 DEF Places, Off
<1>9. InOrder
  BY <1>2 DEF InOrder
<1>10. DueInTurn /\ QueueWhole /\ NoHole /\ CursorWhole /\ LiveWhole /\ PageWhole /\ MarkReached
  BY <1>2 DEF DueInTurn, QueueWhole, NoHole, CursorWhole, LiveWhole, PageWhole, MarkReached
<1>11. PendingWhole
  BY <1>2 DEF PendingWhole
<1> QED
  BY <1>2, <1>3, <1>4, <1>5, <1>6, <1>7, <1>8, <1>9, <1>10, <1>11 DEF StreamInv, Types, Whole

LEMMA WritersStep ==
  ASSUME Setting, JournalType, WriterTypes, Sound, Topic # "ai" => Whole,
         Commit \/ PublishBus \/ Publish \/ CancelWriter
  PROVE  JournalType' /\ WriterTypes' /\ Sound' /\ (Topic # "ai" => Whole')
<1>1. CASE Commit
  BY <1>1, CommitKeeps, CommitWhole
<1>2. CASE PublishBus
  BY <1>2, PublishBusKeeps, WriterWhole
<1>3. CASE Publish
  BY <1>3, PublishKeeps, WriterWhole
<1>4. CASE CancelWriter
  BY <1>4, CancelKeeps
<1> QED
  BY <1>1, <1>2, <1>3, <1>4

LEMMA ReplayStep ==
  ASSUME Setting, JournalType, WriterTypes, Sound, Topic # "ai" => Whole, Replay
  PROVE  JournalType' /\ WriterTypes' /\ Sound' /\ (Topic # "ai" => Whole')
<1>1. Watermarked \/ SendReplayed \/ SendMark \/ Drain \/ (ReadPage /\ Topic # "bus")
  BY DEF Replay, ReplayRun, ReplayAi, ReplayBus, Steps
<1>2. UNCHANGED <<journal, due>> /\ UNCHANGED bound
  BY <1>1 DEF Watermarked, SendReplayed, SendMark, Drain, ReadPage
<1>3. JournalType' /\ WriterTypes'
  BY <1>2, WritersKept
<1>4. CASE Watermarked
  BY <1>3, <1>4, WatermarkedSound, WatermarkedWhole
<1>5. CASE SendReplayed
  <2>1. CASE incoming.page = {}
    BY <1>3, <1>5, <2>1, SendEndSound, SendEndWhole
  <2>2. CASE incoming.page # {}
    BY <1>3, <1>5, <2>2, SendOneSound, SendOneWhole
  <2> QED
    BY <2>1, <2>2
<1>6. CASE SendMark
  BY <1>3, <1>6, SendMarkSound, SendMarkWhole
<1>7. CASE Drain
  BY <1>3, <1>7, DrainSound, DrainWhole
<1>8. CASE ReadPage /\ Topic # "bus"
  BY <1>3, <1>8, ReadPageSound, ReadPageWhole
<1> QED
  BY <1>1, <1>4, <1>5, <1>6, <1>7, <1>8

LEMMA ClientStep ==
  ASSUME Setting, JournalType, WriterTypes, Sound, Topic # "ai" => Whole,
         Broadcast \/ Subscribe \/ Unsubscribe \/ Pump \/ Close \/ Connect
  PROVE  JournalType' /\ WriterTypes' /\ Sound' /\ (Topic # "ai" => Whole')
<1>1. /\ UNCHANGED <<journal, due>>
      /\ UNCHANGED bound \/ Spend("others") \/ Spend("frames")
  BY DEF Broadcast, Subscribe, Unsubscribe, Pump, Close, Connect
<1>2. JournalType' /\ WriterTypes'
  BY <1>1, WritersKept
<1>3. CASE Broadcast
  BY <1>2, <1>3, BroadcastSound, BroadcastWhole
<1>4. CASE Subscribe
  BY <1>2, <1>4, SubscribeSound, SubscribeWhole
<1>5. CASE Unsubscribe \/ Close \/ Connect
  <2>1. Sound'
    BY <1>5, UnsubscribeSound, CloseSound, ConnectSound
  <2>2. Topic # "ai" => Whole'
    BY <1>5, EndsWhole
  <2> QED
    BY <1>2, <2>1, <2>2
<1>6. CASE Pump
  <2>1. Sound'
    BY <1>6, PumpIs
  <2>2. Topic # "ai" => Whole'
    BY <1>6, PumpWhole
  <2> QED
    BY <1>2, <2>1, <2>2
<1> QED
  BY <1>3, <1>4, <1>5, <1>6

LEMMA StreamStutter ==
  ASSUME StreamInv, UNCHANGED evars
  PROVE  StreamInv'
<1>1. /\ UNCHANGED journal /\ UNCHANGED due /\ UNCHANGED bound /\ UNCHANGED <<base, sent>>
      /\ UNCHANGED sub /\ UNCHANGED incoming /\ UNCHANGED wire /\ UNCHANGED link /\ UNCHANGED client
      /\ UNCHANGED base /\ UNCHANGED sent /\ UNCHANGED <<sub, incoming, wire, link, client, base, sent>>
      /\ UNCHANGED <<wire, client, base, sent>>
  BY DEF evars
<1>2. JournalType' /\ JournalGrows
  BY <1>1, GrowsNot DEF StreamInv, JournalGrows
<1>3. Given' = Given
  BY <1>1, GrowsNot DEF StreamInv
<1>4. WriterTypes'
  BY ONLY <1>1, <1>3, StreamInv, Zenon DEF StreamInv, WriterTypes
<1>5. Sound'
  BY <1>1, <1>2, SoundKept DEF StreamInv, Sound
<1>6. ASSUME Topic # "ai"
      PROVE  Whole'
  <2>1. Whole
    BY <1>6 DEF StreamInv
  <2>2. DueInTurn' /\ PublishedUpTo' = PublishedUpTo /\ journal'.stored = journal.stored
    BY <1>1, <2>1, SameJournal DEF StreamInv, Whole
  <2>3. QueueWhole'
    BY <1>1, <2>1, SameQueue DEF Whole
  <2>4. NoHole'
    BY ONLY <1>1, <2>1, Zenon DEF Whole, NoHole
  <2>5. \A n : (Comes(n, Len(wire.queue)) => Comes(n, Len(wire.queue))') /\ (Sent(n) => Sent(n)')
    BY ONLY <1>1, Zenon DEF Comes, Sent
  <2>6. CursorWhole'
    <3> SUFFICES ASSUME sub'.cursor # Off, link' = "open", NEW n \in journal'.stored, n <= sub'.cursor
                 PROVE  Comes(n, Len(wire.queue))' /\ (n > base' => Sent(n)')
      BY DEF CursorWhole
    <3>1. Comes(n, Len(wire.queue)) /\ (n > base => Sent(n))
      BY <1>1, <2>1 DEF Whole, CursorWhole
    <3> QED
      BY ONLY <1>1, <2>5, <3>1, Zenon
  <2>7. LiveWhole' /\ PageWhole' /\ MarkReached' /\ PendingWhole'
    BY ONLY <1>1, <2>1, <2>2, Zenon DEF Whole, LiveWhole, PageWhole, MarkReached, PendingWhole
  <2> QED
    BY <2>2, <2>3, <2>4, <2>6, <2>7 DEF Whole
<1> QED
  BY <1>2, <1>4, <1>5, <1>6 DEF StreamInv, Sound

LEMMA StreamInvNext ==
  ASSUME Setting, StreamInv, [StreamNext]_evars
  PROVE  StreamInv'
<1>1. JournalType /\ WriterTypes /\ Sound /\ (Topic # "ai" => Whole)
  BY DEF StreamInv, Sound
<1>2. CASE Commit \/ PublishBus \/ Publish \/ CancelWriter
  BY <1>1, <1>2, WritersStep DEF StreamInv, Sound
<1>3. CASE Replay
  BY <1>1, <1>3, ReplayStep DEF StreamInv, Sound
<1>4. CASE Broadcast \/ Subscribe \/ Unsubscribe \/ Pump \/ Close \/ Connect
  BY <1>1, <1>4, ClientStep DEF StreamInv, Sound
<1>5. CASE UNCHANGED evars
  BY <1>5, StreamStutter
<1> QED
  BY <1>2, <1>3, <1>4, <1>5 DEF StreamNext

(* What the invariant says of what is checked.                             *)
LEMMA StreamTyped ==
  ASSUME Setting, StreamInv
  PROVE  StreamTypeOK
<1> DEFINE N == 1..(2 * Commits)
<1>1. /\ QueueSize \in Nat /\ Commits \in Nat /\ bound.commits \in 0..Commits
      /\ journal.last \in Nat /\ journal.last <= 2 * (Commits - bound.commits)
  BY DEF Setting, StreamAssumption, StreamInv, WriterTypes, JournalType
<1>2. journal.last \in 0..(2 * Commits) /\ 0..journal.last \subseteq 0..(2 * Commits) /\ 1..journal.last \subseteq N
  BY ONLY <1>1
<1>3. Given \subseteq N
  BY <1>2 DEF Given
<1> HIDE DEF N
<1>4. journal \in [last: 0..(2 * Commits), stored: SUBSET N]
  BY <1>2, <1>3 DEF StreamInv, JournalType
<1>5. due \in Seq(Seq(N))
  <2>1. due \in Seq(Seq(Nat)) /\ \A i \in DOMAIN due : \A k \in DOMAIN due[i] : due[i][k] \in N
    BY <1>3 DEF StreamInv, WriterTypes
  <2>2. \A i \in DOMAIN due : due[i] \in Seq(N)
    <3> SUFFICES ASSUME NEW i \in DOMAIN due
                 PROVE  due[i] \in Seq(N)
      OBVIOUS
    <3>1. due[i] \in Seq(Nat) /\ \A k \in DOMAIN due[i] : due[i][k] \in N
      BY <2>1
    <3> QED
      BY ONLY <3>1
  <2> QED
    BY ONLY <2>1, <2>2
<1>6. /\ sub \in [cursor: Off..(2 * Commits), replaying: BOOLEAN, pending: Seq(N)]
      /\ Len(sub.pending) <= QueueSize
  <2>1. SubType /\ SubGiven
    BY DEF StreamInv, Types
  <2>2. sub.cursor \in Off..(2 * Commits)
    BY <1>1, <1>2, <2>1 DEF SubGiven, Off
  <2>3. sub.pending \in Seq(Nat) /\ \A i \in DOMAIN sub.pending : sub.pending[i] \in N
    BY <1>3, <2>1 DEF SubType, SubGiven
  <2>4. sub.pending \in Seq(N)
    BY ONLY <2>3
  <2> QED
    BY ONLY <2>1, <2>2, <2>4 DEF SubType
<1>7. Len(wire.queue) <= QueueSize
  BY DEF StreamInv, Types, WireType
<1>8. /\ incoming.at \in {"idle", "get", "read", "send", "mark", "drain"}
      /\ link \in {"open", "slow", "refused", "down"}
  BY DEF StreamInv, Types, ReplayType
<1>9. client.got \subseteq N
  BY <1>3 DEF StreamInv, Types, ClientGiven
<1>10. sub.replaying <=> incoming.at # "idle"
  BY DEF StreamInv, Places
<1> QED
  BY <1>4, <1>5, <1>6, <1>7, <1>8, <1>9, <1>10 DEF StreamTypeOK, N

LEMMA StreamInvSafe ==
  ASSUME Setting, StreamInv
  PROVE  StreamSafe
<1>1. StreamTypeOK /\ InOrder
  BY StreamTyped DEF StreamInv
<1>2. ASSUME Topic # "ai"
      PROVE  NoHole
  BY <1>2 DEF StreamInv, Whole
<1>3. ASSUME Topic # "ai"
      PROVE  LiveComplete
  <2> SUFFICES ASSUME sub.cursor # Off, ~sub.replaying, link = "open", NEW n \in journal.stored, n > base,
                      \A i \in DOMAIN due : ~Contains(due[i], n)
               PROVE  Contains(sent, n)
    BY DEF LiveComplete
  <2>1. Whole /\ JournalType /\ WriterTypes /\ Sound
    BY <1>3 DEF StreamInv, Sound
  <2>2. n \in Nat /\ n <= journal.last /\ sub.cursor \in Int /\ journal.last \in Nat /\ PublishedUpTo \in Int
    BY <2>1, ReplayBounds
  <2>3. CASE n <= sub.cursor
    <3>1. Sent(n)
      BY <2>1, <2>3 DEF Whole, CursorWhole
    <3>2. sent \in Seq(Nat)
      BY <2>1 DEF Sound, Types, SentType
    <3> QED
      BY <3>1, <3>2 DEF Sent, Contains
  <2>4. CASE n > sub.cursor
    <3>1. n > PublishedUpTo
      BY <2>1, <2>4 DEF Whole, LiveWhole
    <3>2. Len(due) \in Nat /\ DOMAIN due = 1..Len(due) /\ PublishedUpTo = journal.last - Len(due)
      BY <2>1 DEF WriterTypes, PublishedUpTo
    <3>3. n - PublishedUpTo \in DOMAIN due /\ PublishedUpTo + (n - PublishedUpTo) = n
      BY ONLY <2>2, <3>1, <3>2
    <3>4. due[n - PublishedUpTo] = <<n>>
      BY <2>1, <3>3 DEF Whole, DueInTurn
    <3>5. Contains(due[n - PublishedUpTo], n)
      BY <3>4 DEF Contains
    <3> QED
      BY <3>3, <3>5
  <2> QED
    BY <2>2, <2>3, <2>4
<1>4. ResumeAccepted
  BY DEF StreamInv, Types, ResumeAccepted
<1> QED
  BY <1>1, <1>2, <1>3, <1>4 DEF StreamSafe

(* A subscription delivers what is stored in order, once and without a hole*)
(* while the journal grows, the client is cut and comes back: the queue and*)
(* the buffer hold no more than they may, a live topic loses no published  *)
(* event, and no cursor that the client has is refused (EventHub, ws.py).  *)
THEOREM StreamIsSafe == Setting => (StreamSpec => []StreamSafe)
<1> SUFFICES ASSUME Setting PROVE StreamSpec => []StreamSafe
  OBVIOUS
<1>1. StreamInit => StreamInv
  BY StreamInvInit
<1>2. StreamInv /\ [StreamNext]_evars => StreamInv'
  BY StreamInvNext
<1>3. StreamInv => StreamSafe
  BY StreamInvSafe
<1> QED
  BY <1>1, <1>2, <1>3, PTL DEF StreamSpec

LEMMA QuietStep ==
  ASSUME Setting, StreamInv, [StreamNext]_evars
  PROVE  ReplayNeverOverflows
<1>1. JournalType /\ WriterTypes /\ Sound
  BY DEF StreamInv, Sound
<1> SUFFICES ASSUME link = "open", link' = "slow"
             PROVE  bound' # bound \/ due' # due
  BY DEF ReplayNeverOverflows
<1>2. CASE Commit \/ CancelWriter \/ Subscribe \/ Unsubscribe \/ Pump \/ Close \/ Connect
  BY <1>2 DEF Commit, CancelWriter, Subscribe, Unsubscribe, Pump, Close, Connect
<1>3. CASE PublishBus
  BY <1>1, <1>3, PublishBusKeeps
<1>4. CASE Publish
  BY <1>1, <1>4, PublishKeeps
<1>5. CASE Broadcast
  <2>1. Spend("others")
    BY <1>5 DEF Broadcast
  <2> QED
    BY <1>1, <2>1, SpendIs DEF WriterTypes
<1>6. CASE Replay
  <2>1. Watermarked \/ SendReplayed \/ SendMark \/ Drain \/ ReadPage
    BY <1>6 DEF Replay, ReplayRun, ReplayAi, ReplayBus, Steps
  <2>2. UNCHANGED link
    <3>1. CASE Watermarked
      BY <1>1, <3>1, WatermarkedSound
    <3>2. CASE SendReplayed
      <4>1. CASE incoming.page = {}
        BY <1>1, <3>2, <4>1, SendEndSound
      <4>2. CASE incoming.page # {}
        BY <1>1, <3>2, <4>2, SendOneSound
      <4> QED
        BY <4>1, <4>2
    <3>3. CASE SendMark
      BY <1>1, <3>3, SendMarkSound
    <3>4. CASE Drain
      BY <1>1, <3>4, DrainSound
    <3>5. CASE ReadPage
      BY <3>5 DEF ReadPage
    <3> QED
      BY <2>1, <3>1, <3>2, <3>3, <3>4, <3>5
  <2> QED
    BY <2>2
<1>7. CASE UNCHANGED evars
  BY <1>7 DEF evars
<1> QED
  BY <1>2, <1>3, <1>4, <1>5, <1>6, <1>7 DEF StreamNext

(* Only a live event cuts a client off: no step of a replay does, which    *)
(* waits for room in the queue (_run_enqueue).                             *)
THEOREM ReplaysWaitForRoom == Setting => (StreamSpec => [][ReplayNeverOverflows]_evars)
<1> SUFFICES ASSUME Setting PROVE StreamSpec => [][ReplayNeverOverflows]_evars
  OBVIOUS
<1>1. StreamInit => StreamInv
  BY StreamInvInit
<1>2. StreamInv /\ [StreamNext]_evars => StreamInv' /\ [ReplayNeverOverflows]_evars
  BY StreamInvNext, QuietStep
<1> QED
  BY <1>1, <1>2, PTL DEF StreamSpec
=============================================================================

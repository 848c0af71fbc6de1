--------------------------- MODULE ConfigRegister ---------------------------
(***************************************************************************)
(* What ConfigStore promises its callers, in any process: one register     *)
(* with a revision.  A caller commits only on top of the revision it       *)
(* expects and of its own commits, and what it is told is what happened.   *)
(***************************************************************************)
EXTENDS Naturals

CONSTANTS
  Callers,   \* callers of update and run
  Wanted,    \* caller -> commits of a complete operation
  NoBase     \* no expected revision

VARIABLES
  rev,       \* the revision of the register
  base,      \* caller -> revision that its operation begins from
  made,      \* caller -> commits so far
  reply      \* caller -> "none", or what the caller is told

rvars == <<rev, base, made, reply>>

RegisterInit ==
  /\ rev \in Nat
  /\ base = [c \in Callers |-> NoBase]
  /\ made = [c \in Callers |-> 0]
  /\ reply = [c \in Callers |-> "none"]

(* A caller says which revision it expects, or takes the current one.      *)
Expect(c) ==
  /\ made[c] = 0 /\ reply[c] = "none"
  /\ base' = [base EXCEPT ![c] = rev]
  /\ UNCHANGED <<rev, made, reply>>

Commit(c) ==
  /\ reply[c] = "none" /\ made[c] < Wanted[c]
  /\ rev = base[c] + made[c]
  /\ rev' = rev + 1
  /\ made' = [made EXCEPT ![c] = @ + 1]
  /\ UNCHANGED <<base, reply>>

Answer(c, told) ==
  /\ reply[c] = "none"
  /\ told = "ok" => made[c] = Wanted[c]
  /\ told \in {"refused", "nothing"} => made[c] = 0
  /\ told = "partial" => made[c] \in 1..Wanted[c] - 1
  /\ reply' = [reply EXCEPT ![c] = told]
  /\ UNCHANGED <<rev, base, made>>

RegisterNext ==
  \E c \in Callers :
    Expect(c) \/ Commit(c) \/ \E told \in {"ok", "nothing", "refused", "partial", "unsure"} : Answer(c, told)

RegisterSpec == RegisterInit /\ [][RegisterNext]_rvars
=============================================================================

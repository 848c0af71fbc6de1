------------------------------ MODULE RunLease ------------------------------
(***************************************************************************)
(* What the run journal promises to the rest of the program, without the   *)
(* database: a run takes all the locks it needs in one step, keeps every   *)
(* one of them while any of its remote operations may still be going on,   *)
(* and gives all of them back in one step, which is its last.              *)
(***************************************************************************)
CONSTANTS
  Runs,     \* the runs
  Locks,    \* what a run may hold: its task, and the resources it reserves
  Ops       \* the remote operations a run may begin

VARIABLES
  phase,    \* run -> "idle", "open" or "closed"
  held,     \* run -> the locks it holds
  pending,  \* run -> operations begun whose outcome is not known
  settled   \* run -> operations whose outcome is known

lvars == <<phase, held, pending, settled>>

LeaseInit ==
  /\ phase = [r \in Runs |-> "idle"]
  /\ held = [r \in Runs |-> {}]
  /\ pending = [r \in Runs |-> {}]
  /\ settled = [r \in Runs |-> {}]

Open(r, L) ==
  /\ phase[r] = "idle"
  /\ \A x \in Runs : held[x] \cap L = {}
  /\ phase' = [phase EXCEPT ![r] = "open"]
  /\ held' = [held EXCEPT ![r] = L]
  /\ UNCHANGED <<pending, settled>>

Begin(r, o) ==
  /\ phase[r] = "open"
  /\ o \notin pending[r] \cup settled[r]
  /\ pending' = [pending EXCEPT ![r] = @ \cup {o}]
  /\ UNCHANGED <<phase, held, settled>>

Settle(r, o) ==
  /\ phase[r] = "open"
  /\ o \in pending[r]
  /\ pending' = [pending EXCEPT ![r] = @ \ {o}]
  /\ settled' = [settled EXCEPT ![r] = @ \cup {o}]
  /\ UNCHANGED <<phase, held>>

Close(r) ==
  /\ phase[r] = "open"
  /\ pending[r] = {}
  /\ phase' = [phase EXCEPT ![r] = "closed"]
  /\ held' = [held EXCEPT ![r] = {}]
  /\ UNCHANGED <<pending, settled>>

LeaseNext ==
  \E r \in Runs :
    \/ \E L \in SUBSET Locks : Open(r, L)
    \/ \E o \in Ops : Begin(r, o) \/ Settle(r, o)
    \/ Close(r)

LeaseSpec == LeaseInit /\ [][LeaseNext]_lvars

(* No lock is ever held by two runs.                                       *)
Exclusive == \A r, x \in Runs : r # x => held[r] \cap held[x] = {}
=============================================================================

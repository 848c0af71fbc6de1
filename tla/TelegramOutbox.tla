--------------------------- MODULE TelegramOutbox ---------------------------
(***************************************************************************)
(* adapters/telegram_store.py and services/telegram.py: the outbox of the  *)
(* main slot.  Answers and the output of AI sessions are enqueued as they  *)
(* come; the notification of a run's change goes through a bounded queue,  *)
(* is admitted under _control, and is recovered from the journal of runs   *)
(* when the queue was full or a session begins.                            *)
(***************************************************************************)
EXTENDS Naturals, Sequences, FiniteSets, Functions

CONSTANTS
  Messages,      \* messages, named by their dedup key
  KindOf,        \* message -> "reply", "ai_approval", "notify", "ai_text" or "ai_tool"
  PendingLimit,  \* 500 messages may be pending
  QueueLimit,    \* _notifications holds 256 events
  MaxAttempts,   \* a message is requested five times at most
  Switches,      \* bound: disable and enable
  Outages        \* bound: deaths of the process and ends of a session

OutboxAssumption ==
  /\ IsFiniteSet(Messages) /\ DOMAIN KindOf = Messages
  /\ PendingLimit \in Nat \ {0} /\ QueueLimit \in Nat \ {0} /\ MaxAttempts \in Nat \ {0}
  /\ Switches \in Nat /\ Outages \in Nat

MessageKinds == {"reply", "ai_approval", "notify", "ai_text", "ai_tool"}
Notices == {m \in Messages : KindOf[m] = "notify"}

VARIABLES
  mailing, since,        \* control.enabled, and the events older than enabled_at
  events,           \* run_events of the journal of runs
  queue, rescan,    \* _notifications and _rescan
  loop,             \* the notification loop: [at, todo]
  sender,           \* the session: [at, todo]
  outbox,           \* tg_outbox: message -> [state, attempts]
  older,            \* the pairs of its rows to send that ORDER BY id puts in this order
  quota

ovars == <<mailing, since, events, queue, rescan, loop, sender, outbox, older, quota>>

(* "done" stands for sent, failed and unknown, told apart in TelegramSlots *)
States == {"none", "pending", "sending", "done", "dropped"}

OutboxTypeOK ==
  /\ mailing \in BOOLEAN
  /\ events \in Seq(Notices) /\ since \in 0..Len(events)
  /\ queue \in Seq(Notices) /\ Len(queue) <= QueueLimit /\ rescan \in BOOLEAN
  /\ loop \in [at: {"idle", "got", "check", "recover"}, todo: Seq(Notices)]
  /\ sender \in [at: {"off", "recover", "on"}, todo: Seq(Notices)]
  /\ outbox \in [Messages -> [state: States, attempts: 0..MaxAttempts]]
  /\ older \subseteq Messages \X Messages
  /\ quota \in [switches: 0..Switches, faults: 0..Outages]

OutboxInit ==
  /\ mailing = TRUE /\ since = 0 /\ events = <<>>
  /\ queue = <<>> /\ rescan = FALSE
  /\ loop = [at |-> "idle", todo |-> <<>>] /\ sender = [at |-> "recover", todo |-> <<>>]
  /\ outbox = [m \in Messages |-> [state |-> "none", attempts |-> 0]] /\ older = {}
  /\ quota = [switches |-> Switches, faults |-> Outages]

-----------------------------------------------------------------------------
(* store.enqueue: what a full outbox gives up for a new message            *)
Pending == {m \in Messages : outbox[m].state = "pending"}
PendingOf(kind) == {m \in Pending : KindOf[m] = kind}
Unsent == {m \in Messages : outbox[m].state \in {"pending", "sending"}}
Oldest(set) == CHOOSE m \in set : \A x \in set : <<x, m>> \notin older
Without(set) == {pair \in older : pair[1] \notin set /\ pair[2] \notin set}

VictimKinds == {k \in {"ai_tool", "notify", "ai_text"} : PendingOf(k) # {}}
VictimKind ==
  IF "ai_tool" \in VictimKinds THEN "ai_tool" ELSE IF "notify" \in VictimKinds THEN "notify" ELSE "ai_text"

MayEvict(m) == VictimKinds # {} /\ (KindOf[m] = "ai_tool" => VictimKind = "ai_tool")

Stored(m) == outbox[m].state # "none"
FullLate == Cardinality(Pending) > PendingLimit
Full == Cardinality(Pending) >= PendingLimit
Busy(m) == ~Stored(m) /\ Full /\ ~MayEvict(m) /\ KindOf[m] \notin {"ai_approval", "ai_text", "ai_tool"}
Lost(m) == ~Stored(m) /\ Full /\ ~MayEvict(m) /\ ~Busy(m)

Ended(state) == [state |-> state, attempts |-> 0]
Added(r, m) == [r EXCEPT ![m].state = "pending"]

Enqueue(m) ==
  IF Stored(m) \/ Lost(m) THEN UNCHANGED <<outbox, older>>
  ELSE /\ ~Busy(m)
       /\ IF Full THEN LET v == Oldest(PendingOf(VictimKind)) IN
                       /\ outbox' = Added([outbox EXCEPT ![v] = Ended("dropped")], m)
                       /\ older' = Without({v}) \cup ((Unsent \ {v}) \X {m})
                  ELSE outbox' = Added(outbox, m) /\ older' = older \cup (Unsent \X {m})

-----------------------------------------------------------------------------
OffersOrDrops(m) ==
  IF Len(queue) < QueueLimit THEN queue' = Append(queue, m) /\ rescan' = rescan
                             ELSE UNCHANGED <<queue, rescan>>

(* A state event is committed, then offered to the loop (on_run_event)     *)
Offers(m) ==
  IF Len(queue) < QueueLimit THEN queue' = Append(queue, m) /\ rescan' = rescan
                             ELSE queue' = queue /\ rescan' = TRUE

Commits(m) ==
  /\ m \in Notices /\ m \notin Range(events)
  /\ events' = Append(events, m)
  /\ Offers(m)
  /\ UNCHANGED <<mailing, since, loop, sender, outbox, older, quota>>

(* notify_event: nothing without a configuration that is enabled and an    *)
(* open database                                                           *)
LoopTakes ==
  /\ loop.at = "idle" /\ queue # <<>>
  /\ queue' = Tail(queue)
  /\ loop' = IF mailing /\ sender.at # "off" THEN [at |-> "got", todo |-> <<Head(queue)>>]
                                              ELSE [at |-> "check", todo |-> <<>>]
  /\ UNCHANGED <<mailing, since, events, rescan, sender, outbox, older, quota>>

(* notify_run: the configuration is read again under _control, so that     *)
(* nothing is admitted once disable has begun                              *)
Admit(m) == IF mailing THEN Enqueue(m) ELSE UNCHANGED <<outbox, older>>
Refused(m) == mailing /\ Busy(m)

LoopAdmits ==
  /\ loop.at \in {"got", "recover"} /\ loop.todo # <<>>
  /\ Admit(Head(loop.todo))
  /\ loop' = [at |-> IF loop.at = "got" THEN "check" ELSE "recover", todo |-> Tail(loop.todo)]
  /\ UNCHANGED <<mailing, since, events, queue, rescan, sender, quota>>

(* SettingsError: the events stay in the journal for a later session       *)
LoopRefused ==
  /\ loop.at \in {"got", "recover"} /\ loop.todo # <<>> /\ Refused(Head(loop.todo))
  /\ loop' = [at |-> "idle", todo |-> <<>>]
  /\ UNCHANGED <<mailing, since, events, queue, rescan, sender, outbox, older, quota>>

(* recover_notifications: every event since enabled_at                     *)
Since == SubSeq(events, since + 1, Len(events))

LoopChecks ==
  /\ loop.at = "check"
  /\ rescan' = FALSE
  /\ loop' = IF rescan /\ mailing THEN [at |-> "recover", todo |-> Since] ELSE [at |-> "idle", todo |-> <<>>]
  /\ UNCHANGED <<mailing, since, events, queue, sender, outbox, older, quota>>

LoopEnds ==
  /\ loop.at = "recover" /\ loop.todo = <<>>
  /\ loop' = [loop EXCEPT !.at = "idle"]
  /\ UNCHANGED <<mailing, since, events, queue, rescan, sender, outbox, older, quota>>

-----------------------------------------------------------------------------
(* disable and enable, under _control; a session recovers before it sends  *)
TurnsOff ==
  /\ mailing /\ quota.switches > 0
  /\ mailing' = FALSE
  /\ sender' = [at |-> "off", todo |-> <<>>]
  /\ quota' = [quota EXCEPT !.switches = @ - 1]
  /\ UNCHANGED <<since, events, queue, rescan, loop, outbox, older>>

Reopens ==  \* initialize: what was being sent has an unknown fate
  /\ outbox' = [m \in Messages |-> IF outbox[m].state = "sending" THEN Ended("done") ELSE outbox[m]]
  /\ older' = Without({m \in Messages : outbox[m].state = "sending"})

TurnsOn ==
  /\ ~mailing /\ Reopens
  /\ mailing' = TRUE /\ since' = Len(events)
  /\ sender' = [at |-> "recover", todo |-> <<>>]
  /\ UNCHANGED <<events, queue, rescan, loop, quota>>

(* retry, and the start of the process                                     *)
SenderStarts ==
  /\ mailing /\ sender.at = "off" /\ Reopens
  /\ sender' = [at |-> "recover", todo |-> Since]
  /\ UNCHANGED <<mailing, since, events, queue, rescan, loop, quota>>

SenderAdmits ==
  /\ sender.at = "recover" /\ sender.todo # <<>>
  /\ Admit(Head(sender.todo))
  /\ sender' = [sender EXCEPT !.todo = Tail(@)]
  /\ UNCHANGED <<mailing, since, events, queue, rescan, loop, quota>>

SenderReady ==
  /\ sender.at = "recover" /\ sender.todo = <<>>
  /\ sender' = [sender EXCEPT !.at = "on"]
  /\ UNCHANGED <<mailing, since, events, queue, rescan, loop, outbox, older, quota>>

(* A session ends by itself, or because the outbox is full                 *)
SenderEnds ==
  /\ sender.at # "off"
  /\ IF sender.todo # <<>> /\ Refused(Head(sender.todo)) THEN UNCHANGED quota
       ELSE quota.faults > 0 /\ quota' = [quota EXCEPT !.faults = @ - 1]
  /\ sender' = [at |-> "off", todo |-> <<>>]
  /\ UNCHANGED <<mailing, since, events, queue, rescan, loop, outbox, older>>

OutboxDies ==
  /\ quota.faults > 0
  /\ sender' = [at |-> "off", todo |-> <<>>]
  /\ loop' = [at |-> "idle", todo |-> <<>>] /\ queue' = <<>> /\ rescan' = FALSE
  /\ quota' = [quota EXCEPT !.faults = @ - 1]
  /\ UNCHANGED <<mailing, since, events, outbox, older>>

-----------------------------------------------------------------------------
(* Answers and AI output, while the session runs                           *)
Posts(m) ==
  /\ sender.at = "on" /\ m \notin Notices /\ ~Stored(m)
  /\ Enqueue(m)
  /\ UNCHANGED <<mailing, since, events, queue, rescan, loop, sender, quota>>

(* take: answers and approvals first, then by age, among those that are    *)
(* due: one that was refused waits for its next_attempt_at                 *)
Delayed == {m \in Pending : outbox[m].attempts > 0}
FirstTaken(due) ==
  LET urgent == {m \in due : KindOf[m] \in {"reply", "ai_approval"}}
  IN  Oldest(IF urgent # {} THEN urgent ELSE due)

SendsOldest ==
  /\ sender.at = "on" /\ \A m \in Messages : outbox[m].state # "sending"
  /\ \E due \in (SUBSET Pending) \ {{}} :
       /\ Pending \ due \subseteq Delayed
       /\ outbox' = [outbox EXCEPT ![FirstTaken(due)] = [state |-> "sending", attempts |-> @.attempts + 1]]
  /\ UNCHANGED <<mailing, since, events, queue, rescan, loop, sender, older, quota>>

MayRetry(m) == outbox[m].attempts < MaxAttempts

RecordsAnswer(m) ==
  /\ sender.at = "on" /\ outbox[m].state = "sending"
  /\ \/ outbox' = [outbox EXCEPT ![m] = Ended("done")] /\ older' = Without({m})
     \/ MayRetry(m) /\ outbox' = [outbox EXCEPT ![m].state = "pending"] /\ older' = older
  /\ UNCHANGED <<mailing, since, events, queue, rescan, loop, sender, quota>>

LoopSteps == LoopTakes \/ LoopAdmits \/ LoopRefused \/ LoopChecks \/ LoopEnds
RecoverySteps == SenderStarts \/ SenderAdmits \/ SenderReady
SenderSteps == SendsOldest \/ \E m \in Messages : RecordsAnswer(m)

OutboxNext ==
  \/ \E m \in Messages : Commits(m) \/ Posts(m)
  \/ LoopSteps \/ RecoverySteps \/ SenderSteps
  \/ TurnsOff \/ TurnsOn \/ SenderEnds \/ OutboxDies

OutboxSpec == OutboxInit /\ [][OutboxNext]_ovars

-----------------------------------------------------------------------------
(* The outbox stays within its limit, but for the message that goes back   *)
(* to it after an attempt that the server refused (enqueue, sent).         *)
PendingBounded == Cardinality(Pending) <= PendingLimit + 1

(* A full outbox gives up tool summaries before notifications, those       *)
(* before text, never an answer or an approval, and nothing but an older   *)
(* summary for a summary (enqueue).                                        *)
Class(m) == CASE KindOf[m] = "ai_tool" -> 1 [] KindOf[m] = "notify" -> 2 [] KindOf[m] = "ai_text" -> 3 [] OTHER -> 4

DropsInOrder ==
  \A m \in Messages : outbox[m].state = "pending" /\ outbox'[m].state = "dropped" =>
     /\ Class(m) < 4
     /\ \A x \in Pending : Class(x) >= Class(m)
     /\ \A n \in Messages : outbox[n].state = "none" /\ outbox'[n].state = "pending" /\ Class(n) = 1 => Class(m) = 1

(* No notification is admitted for a slot that is off, though its text was *)
(* prepared while it was on (notify_run).                                  *)
NothingAfterDisable ==
  \A m \in Notices : outbox[m].state = "none" /\ outbox'[m].state # "none" => mailing

(* Every change of a run since the slot was enabled gets its notification  *)
(* into the outbox, though the queue overflows, the session ends or the    *)
(* process dies: only disable prevents it (on_run_event,                   *)
(* recover_notifications): Owed leads to Notified.                         *)
Owed(m) == mailing /\ m \in Range(Since)
Notified(m) == Stored(m) \/ ~Owed(m)

(* A pending message comes to an end while its session lasts, however      *)
(* often the server asks for patience (send_once).                         *)
Offered(m) == outbox[m].state = "pending" /\ sender.at = "on"
Settled(m) == outbox[m].state \notin {"pending", "sending"} \/ sender.at # "on"

(* The outbox keeps within its limit.                                      *)
OutboxSafe == OutboxTypeOK /\ PendingBounded
=============================================================================

-------------------------- MODULE TelegramUpdates --------------------------
(***************************************************************************)
(* services/telegram.py and adapters/telegram_store.py: how one slot gets  *)
(* the updates of its bot.  An update is registered together with the      *)
(* offset of the next request, waits in a short queue in memory, and is    *)
(* handled by one of two workers, in turn with those of its chat.  The     *)
(* session may end and the process die at any step; a handler that does    *)
(* not stop within five seconds is detached from its session.              *)
(***************************************************************************)
EXTENDS Naturals, Sequences, FiniteSets, Functions

CONSTANTS
  MaxUpdate,   \* bound: updates are numbered 1..MaxUpdate
  ChatOf,      \* update -> its chat
  Callbacks,   \* updates that are taps on a button: they carry no date
  WorkLimit,   \* _work holds 64 updates
  Workers,     \* two
  Ends,        \* bound: ends of a session
  Crashes      \* bound: deaths of the process

Updates == 1..MaxUpdate

UpdatesAssumption ==
  /\ MaxUpdate \in Nat /\ DOMAIN ChatOf = Updates /\ Callbacks \subseteq Updates
  /\ WorkLimit \in Nat \ {0} /\ Workers \in Nat \ {0} /\ Ends \in Nat /\ Crashes \in Nat

VARIABLES
  arrived,    \* the newest update
  server,     \* updates that the server still holds
  stale,      \* updates sent more than 300 s ago
  journal,    \* telegram.sqlite3: [offset, baseline, status]
  session,    \* what the poller does
  batch,      \* updates it has fetched and not yet passed on
  work,       \* _work
  doing,      \* update -> what its handler does
  detached,   \* updates whose handler has outlived its session
  acts,       \* history: the updates acted on
  mark,       \* history: the newest update when the backlog was last read
  bound

uvars == <<arrived, server, stale, journal, session, batch, work, doing, detached, acts, mark, bound>>

Final == {"handled", "ignored", "expired", "failed"}
Doings == {"none", "wait", "run", "acted", "ignored", "expired"}
Sessions == {"off", "baseline", "accept", "expire", "poll", "receive", "put"}

UpdatesTypeOK ==
  /\ arrived \in 0..MaxUpdate /\ server \subseteq 1..arrived /\ stale \subseteq 1..arrived
  /\ journal \in [offset: 0..MaxUpdate + 1, baseline: BOOLEAN,
                  status: [Updates -> Final \cup {"none", "received"}]]
  /\ session \in Sessions
  /\ batch \in Seq(Updates) /\ work \in Seq(Updates) /\ Len(work) <= WorkLimit
  /\ doing \in [Updates -> Doings]
  /\ detached \subseteq {u \in Updates : doing[u] # "none"}
  /\ acts \in Seq(Updates) /\ mark \in 0..MaxUpdate
  /\ bound \in [ends: 0..Ends, crashes: 0..Crashes]

UpdatesInit ==
  /\ arrived = 0 /\ server = {} /\ stale = {}
  /\ journal = [offset |-> 0, baseline |-> FALSE, status |-> [u \in Updates |-> "none"]]
  /\ session = "off"
  /\ batch = <<>> /\ work = <<>>
  /\ doing = [u \in Updates |-> "none"] /\ detached = {}
  /\ acts = <<>> /\ mark = 0
  /\ bound = [ends |-> Ends, crashes |-> Crashes]

Newest(a, b) == IF a > b THEN a ELSE b

(* register: one transaction                                               *)
Registered(u) == [journal EXCEPT !.status[u] = IF @ = "none" THEN "received" ELSE @,
                                 !.offset = Newest(@, u + 1)]
Closed(u, s) == [journal EXCEPT !.status[u] = s]

-----------------------------------------------------------------------------
(* The server: getUpdates(offset) forgets every update below the offset;   *)
(* -1 stands for the newest update                                         *)
Arrives ==
  /\ arrived < MaxUpdate
  /\ arrived' = arrived + 1
  /\ server' = server \cup {arrived + 1}
  /\ UNCHANGED <<stale, journal, session, batch, work, doing, detached, acts, mark, bound>>

Ages ==
  /\ stale # 1..arrived
  /\ stale' = 1..arrived
  /\ UNCHANGED <<arrived, server, journal, session, batch, work, doing, detached, acts, mark, bound>>

-----------------------------------------------------------------------------
(* enable, retry and the restart after a death                             *)
Starts ==
  /\ session = "off"
  /\ session' = IF journal.baseline THEN "poll" ELSE "baseline"
  /\ UNCHANGED <<arrived, server, stale, journal, batch, work, doing, detached, acts, mark, bound>>

(* _baseline: what had come before the bot was taken over is not executed  *)
Baseline ==
  /\ session = "baseline"
  /\ server' = server \cap {arrived}
  /\ batch' = IF server' = {} THEN <<>> ELSE <<arrived>>
  /\ mark' = arrived
  /\ session' = "accept"
  /\ UNCHANGED <<arrived, stale, journal, work, doing, detached, acts, bound>>

AcceptRegisters ==
  /\ session = "accept" /\ batch # <<>>
  /\ journal' = Registered(Head(batch))
  /\ session' = "expire"
  /\ UNCHANGED <<arrived, server, stale, batch, work, doing, detached, acts, mark, bound>>

AcceptExpires ==
  /\ session = "expire"
  /\ journal' = Closed(Head(batch), "expired")
  /\ batch' = Tail(batch)
  /\ session' = "accept"
  /\ UNCHANGED <<arrived, server, stale, work, doing, detached, acts, mark, bound>>

AcceptEnds ==
  /\ session = "accept" /\ batch = <<>>
  /\ journal' = [journal EXCEPT !.baseline = TRUE]
  /\ session' = "poll"
  /\ UNCHANGED <<arrived, server, stale, batch, work, doing, detached, acts, mark, bound>>

-----------------------------------------------------------------------------
(* _poll and process_updates: getUpdates answers in the order of arrival   *)
InOrder(S) ==
  {s \in [1..Cardinality(S) -> S] :
     /\ \A u \in S : \E i \in DOMAIN s : s[i] = u
     /\ \A i, j \in DOMAIN s : i < j => s[i] < s[j]}

Poll ==
  /\ session = "poll"
  /\ server' = {u \in server : u >= journal.offset}
  /\ batch' \in InOrder(server')
  /\ session' = "receive"
  /\ UNCHANGED <<arrived, stale, journal, work, doing, detached, acts, mark, bound>>

Registers ==
  /\ session = "receive" /\ batch # <<>>
  /\ journal' = Registered(Head(batch))
  /\ IF journal.status[Head(batch)] = "none"
       THEN session' = "put" /\ batch' = batch
       ELSE session' = "receive" /\ batch' = Tail(batch)
  /\ UNCHANGED <<arrived, server, stale, work, doing, detached, acts, mark, bound>>

Puts ==
  /\ session = "put" /\ Len(work) < WorkLimit
  /\ work' = Append(work, Head(batch))
  /\ batch' = Tail(batch)
  /\ session' = "receive"
  /\ UNCHANGED <<arrived, server, stale, journal, doing, detached, acts, mark, bound>>

(* QueueFull: an answer "busy" and no work                                 *)
Refuses ==
  /\ session = "put" /\ Len(work) = WorkLimit
  /\ journal' = Closed(Head(batch), "failed")
  /\ batch' = Tail(batch)
  /\ session' = "receive"
  /\ UNCHANGED <<arrived, server, stale, work, doing, detached, acts, mark, bound>>

Received ==
  /\ session = "receive" /\ batch = <<>>
  /\ session' = "poll"
  /\ UNCHANGED <<arrived, server, stale, journal, batch, work, doing, detached, acts, mark, bound>>

-----------------------------------------------------------------------------
(* _worker and _handle_registered: a handler waits for the lock of its     *)
(* chat, which asyncio gives in the order of asking.  A new session has    *)
(* locks of its own.                                                       *)
Attached == {u \in Updates : doing[u] # "none"} \ detached

Takes ==
  /\ work # <<>> /\ Cardinality(Attached) < Workers
  /\ doing' = [doing EXCEPT ![Head(work)] = "wait"]
  /\ work' = Tail(work)
  /\ UNCHANGED <<arrived, server, stale, journal, session, batch, detached, acts, mark, bound>>

Turn(u) ==
  /\ doing[u] = "wait" /\ u \notin detached
  /\ \A v \in Attached : v < u => ChatOf[v] # ChatOf[u]

(* handle_update: nobody's update is ignored, an old message answered as   *)
(* such, and the rest executed                                             *)
Decides(u) ==
  /\ Turn(u)
  /\ \E next \in IF u \in stale \ Callbacks THEN {"ignored", "expired"} ELSE {"ignored", "run"} :
       doing' = [doing EXCEPT ![u] = next]
  /\ UNCHANGED <<arrived, server, stale, journal, session, batch, work, detached, acts, mark, bound>>

ActsDetached(u) ==
  /\ doing[u] = "run"
  /\ acts' = Append(acts, u)
  /\ doing' = [doing EXCEPT ![u] = "acted"]
  /\ UNCHANGED <<arrived, server, stale, journal, session, batch, work, detached, mark, bound>>

(* ensure_attached comes before every effect                               *)
Acts(u) ==
  /\ doing[u] = "run" /\ u \notin detached
  /\ acts' = Append(acts, u)
  /\ doing' = [doing EXCEPT ![u] = "acted"]
  /\ UNCHANGED <<arrived, server, stale, journal, session, batch, work, detached, mark, bound>>

Finishes(u) ==
  /\ doing[u] \in {"acted", "ignored", "expired"} /\ u \notin detached
  /\ journal' = Closed(u, IF doing[u] = "acted" THEN "handled" ELSE doing[u])
  /\ doing' = [doing EXCEPT ![u] = "none"]
  /\ UNCHANGED <<arrived, server, stale, session, batch, work, detached, acts, mark, bound>>

Fails(u) ==
  /\ doing[u] \in {"run", "acted"} /\ u \notin detached
  /\ journal' = Closed(u, "failed")
  /\ doing' = [doing EXCEPT ![u] = "none"]
  /\ UNCHANGED <<arrived, server, stale, session, batch, work, detached, acts, mark, bound>>

(* A detached handler is cancelled by ensure_attached and writes nothing   *)
GivesUp(u) ==
  /\ u \in detached
  /\ doing' = [doing EXCEPT ![u] = "none"]
  /\ detached' = detached \ {u}
  /\ UNCHANGED <<arrived, server, stale, journal, session, batch, work, acts, mark, bound>>

-----------------------------------------------------------------------------
(* _session ends: another poller, a refused token, a failed store, or      *)
(* disable.  Handlers are cancelled; what does not stop is detached.       *)
SessionEnds ==
  /\ session # "off" /\ bound.ends > 0
  /\ \E late \in SUBSET {u \in Attached : doing[u] # "wait"} :
       /\ detached' = detached \cup late
       /\ doing' = [u \in Updates |-> IF u \in detached' THEN doing[u] ELSE "none"]
  /\ session' = "off" /\ batch' = <<>> /\ work' = <<>>
  /\ bound' = [bound EXCEPT !.ends = @ - 1]
  /\ UNCHANGED <<arrived, server, stale, journal, acts, mark>>

Dies ==
  /\ bound.crashes > 0
  /\ session' = "off" /\ batch' = <<>> /\ work' = <<>>
  /\ doing' = [u \in Updates |-> "none"] /\ detached' = {}
  /\ bound' = [bound EXCEPT !.crashes = @ - 1]
  /\ UNCHANGED <<arrived, server, stale, journal, acts, mark>>

Steps ==
  \/ Starts \/ Baseline \/ AcceptRegisters \/ AcceptExpires \/ AcceptEnds
  \/ Poll \/ Registers \/ Puts \/ Refuses \/ Received \/ Takes
  \/ \E u \in Updates : Decides(u) \/ Acts(u) \/ Finishes(u) \/ Fails(u) \/ GivesUp(u)

UpdatesNext == Arrives \/ Ages \/ Steps \/ SessionEnds \/ Dies

UpdatesSpec == UpdatesInit /\ [][UpdatesNext]_uvars

(* The takeover of a bot, the receipt of a batch, a handler                *)
Takeover == Starts \/ Baseline \/ AcceptRegisters \/ AcceptExpires \/ AcceptEnds
Receipt == Registers \/ Puts \/ Refuses \/ Received
Handles(u) == Decides(u) \/ Acts(u) \/ Finishes(u) \/ Fails(u)

-----------------------------------------------------------------------------
(* No command is executed twice, whatever dies between its registration,   *)
(* its execution and the record of its end, and however often the server   *)
(* sends it again (services/telegram.py, process_updates).                 *)
ActedOnce == IsInjective(acts)

(* Updates of one chat are executed in the order in which they were sent,  *)
(* across sessions too: a handler that has outlived its session does not   *)
(* act after one of a later session (_handle_registered).                  *)
ChatOrder ==
  \A i, j \in DOMAIN acts : i < j /\ ChatOf[acts[i]] = ChatOf[acts[j]] => acts[i] < acts[j]

(* Nothing that had come before the bot was taken over is executed, though *)
(* the takeover may die half-way and start again (_accept_baseline).       *)
BacklogSilent == \A i \in DOMAIN acts : acts[i] > mark

(* What the server has been told to forget is in the journal, except for   *)
(* the backlog: no command disappears between the two (register).          *)
NothingForgotten ==
  \A u \in 1..arrived : u > mark /\ u \notin server => journal.status[u] # "none"

(* The end that an update has come to is not changed, by a detached        *)
(* handler or by the same update received again (finish).                  *)
FinalStays ==
  \A u \in Updates : journal.status[u] \in Final => journal'.status[u] = journal.status[u]

(* An update that the poller has not seen comes to an end, unless it was   *)
(* part of the backlog or the session ends first (_poll, _worker): Waits   *)
(* leads to Answered.                                                      *)
Waits(u) == u \in server /\ u >= journal.offset /\ session # "off"
Answered(u) == journal.status[u] \in Final \/ u <= mark \/ session = "off"

(* Every update of the bot is executed once at most, in the order of its   *)
(* chat, never if it is older than the takeover, and is never lost.        *)
UpdatesSafe == UpdatesTypeOK /\ ActedOnce /\ ChatOrder /\ BacklogSilent /\ NothingForgotten
=============================================================================

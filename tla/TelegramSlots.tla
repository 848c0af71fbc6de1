--------------------------- MODULE TelegramSlots ---------------------------
(***************************************************************************)
(* services/telegram.py: the slots, each with a token, a switch in the     *)
(* configuration and a session, over one database that the last slot to    *)
(* leave closes (adapters/telegram_store.py).  The operations on a slot    *)
(* take turns under its _control; those on two slots do not, and a session *)
(* may end by itself.  A message of each slot goes through the outbox.     *)
(***************************************************************************)
EXTENDS Naturals, FiniteSets, Sequences

CONSTANTS
  Main, AiSlots,   \* the slot "main" and the slots "ai:..."
  Bots, NoBot,     \* bots, and the absence of one
  Order,           \* the order in which app.py starts the slots
  Ops,             \* bound: operations of the user
  Faults,          \* bound: refused or failed requests, and ends of a session
  Deaths           \* bound: deaths of the process

Slots == {Main} \cup AiSlots

SlotsAssumption ==
  /\ Main \notin AiSlots /\ NoBot \notin Bots
  /\ Order \in Seq(Slots)
  /\ Ops \in Nat /\ Faults \in Nat /\ Deaths \in Nat

VARIABLES
  config,     \* slot -> [on, bot]: enabled and bot_id
  token,      \* slot -> the bot whose token the Keychain has
  control,    \* slot -> the operation that holds its _control
  sessions,   \* slot -> [at, bot]
  holders,    \* _holders of the store
  db,         \* the database is open
  closing,    \* slots whose _close is on its way to a thread
  row,        \* slot -> the state of its message in tg_outbox
  request,    \* slot -> the request of its sender: none, sent, or served
  delivered,  \* history: slot -> how often its message was delivered
  boot,       \* slots that lifespan has still to start
  left

svars == <<config, token, control, sessions, holders, db, closing, row, request, delivered, boot, left>>

Ats == {"idle", "open", "ask", "claim", "drop", "baseline", "clean", "cleaned"}
Hows == {"none", "hold", "restart", "enable", "retry", "retake"}
Rows == {"none", "pending", "sending", "sent", "failed", "dropped", "unknown"}

Idle == [at |-> "idle", how |-> "none", me |-> NoBot, fresh |-> FALSE]
Off == [at |-> "off", bot |-> NoBot]

SlotsTypeOK ==
  /\ config \in [Slots -> [on: BOOLEAN, bot: Bots \cup {NoBot}]]
  /\ token \in [Slots -> Bots \cup {NoBot}]
  /\ control \in [Slots -> [at: Ats, how: Hows, me: Bots \cup {NoBot}, fresh: BOOLEAN]]
  /\ sessions \in [Slots -> [at: {"off", "on", "closing"}, bot: Bots \cup {NoBot}]]
  /\ holders \subseteq Slots /\ db \in BOOLEAN /\ closing \subseteq Slots
  /\ row \in [Slots -> Rows]
  /\ request \in [Slots -> {"no", "sent", "served"}]
  /\ delivered \in [Slots -> 0..2]
  /\ boot \in Seq(Slots)
  /\ left \in [ops: 0..Ops, faults: 0..Faults, crashes: 0..Deaths]

SlotsInit ==
  /\ config = [s \in Slots |-> [on |-> FALSE, bot |-> NoBot]]
  /\ token = [s \in Slots |-> NoBot]
  /\ control = [s \in Slots |-> Idle]
  /\ sessions = [s \in Slots |-> Off]
  /\ holders = {} /\ db = FALSE /\ closing = {}
  /\ row = [s \in Slots |-> "none"] /\ request = [s \in Slots |-> "no"]
  /\ delivered = [s \in Slots |-> 0]
  /\ boot = Order
  /\ left = [ops |-> Ops, faults |-> Faults, crashes |-> Deaths]

Goes(s, at) == control' = [control EXCEPT ![s].at = at]

(* A commit: operations that have read the configuration before it are     *)
(* refused at theirs (revision_conflict)                                   *)
Commit(s, switch, at) ==
  /\ config' = [config EXCEPT ![s] = switch]
  /\ control' = [x \in Slots |-> IF x = s THEN [control[s] EXCEPT !.at = at]
                                          ELSE [control[x] EXCEPT !.fresh = FALSE]]

(* initialize of the store: the slot is a holder before the first await   *)
Joins(s) == holders' = holders \cup {s}

(* close(holder)                                                           *)
Release(s) ==
  /\ holders' = holders \ {s}
  /\ closing' = IF holders' = {} THEN closing \cup {s} ELSE closing

(* claimed_elsewhere                                                       *)
Claimed(s, b) == \E x \in Slots \ {s} : config[x].on /\ config[x].bot = b

Fault == left.faults > 0 /\ left' = [left EXCEPT !.faults = @ - 1]

(* lifespan starts the slots one after the other, before the first request *)
Started == boot = <<>> /\ \A s \in Slots : control[s].how \notin {"hold", "restart"}
User(s) ==
  /\ Started /\ control[s].at = "idle"
  /\ left.ops > 0 /\ left' = [left EXCEPT !.ops = @ - 1]

-----------------------------------------------------------------------------
(* token: only while the slot is off                                       *)
ChangesToken(s) ==
  /\ User(s) /\ ~config[s].on
  /\ \E b \in (Bots \cup {NoBot}) \ {token[s]} : token' = [token EXCEPT ![s] = b]
  /\ control' = [x \in Slots |-> [control[x] EXCEPT !.fresh = FALSE]]
  /\ UNCHANGED <<config, sessions, holders, db, closing, row, request, delivered, boot>>

(* enable and retry: the holder is registered before the first await       *)
Enables(s) ==
  /\ User(s) /\ ~config[s].on
  /\ control' = [control EXCEPT ![s] = [at |-> "open", how |-> "enable", me |-> NoBot, fresh |-> TRUE]]
  /\ Joins(s)
  /\ UNCHANGED <<config, token, sessions, db, closing, row, request, delivered, boot>>

Retries(s) ==
  /\ User(s) /\ config[s].on
  /\ control' = [control EXCEPT ![s] = [at |-> "clean", how |-> "retry", me |-> NoBot, fresh |-> TRUE]]
  /\ UNCHANGED <<config, token, sessions, holders, db, closing, row, request, delivered, boot>>

Disables(s) ==
  /\ User(s) /\ config[s].on
  /\ Commit(s, [config[s] EXCEPT !.on = FALSE], "clean")
  /\ UNCHANGED <<token, sessions, holders, db, closing, row, request, delivered, boot>>

(* initialize, at the start of the process                                 *)
Boots(s) ==
  /\ boot # <<>> /\ s = Head(boot) /\ \A x \in Slots : control[x].at = "idle"
  /\ boot' = Tail(boot)
  /\ IF config[s].on \/ s = Main
       THEN /\ Joins(s)
            /\ control' = [control EXCEPT ![s] =
                 [at |-> "open", how |-> IF config[s].on THEN "restart" ELSE "hold", me |-> NoBot, fresh |-> TRUE]]
       ELSE UNCHANGED <<holders, control>>
  /\ UNCHANGED <<config, token, sessions, db, closing, row, request, delivered, left>>

-----------------------------------------------------------------------------
(* _initialize on its thread: a database that is open stays as it is; one  *)
(* that is opened has the messages of a dead process marked                *)
Opens(s) ==
  /\ control[s].at = "open"
  /\ db' = TRUE
  /\ row' = IF db THEN row ELSE [x \in Slots |-> IF row[x] = "sending" THEN "unknown" ELSE row[x]]
  /\ control' = [control EXCEPT ![s] = IF @.how = "hold" THEN Idle ELSE [@ EXCEPT !.at = "ask"]]
  /\ UNCHANGED <<config, token, sessions, holders, closing, request, delivered, boot, left>>

(* getMe; a retry takes its bot from the configuration.  What needs the   *)
(* database fails when it is closed.                                       *)
Asks(s) ==
  /\ control[s].at = "ask" /\ token[s] # NoBot /\ db
  /\ control' = [control EXCEPT ![s] =
       IF @.how = "retake" THEN [@ EXCEPT !.me = config[s].bot, !.at = "baseline"]
                           ELSE [@ EXCEPT !.me = token[s], !.at = "claim"]]
  /\ UNCHANGED <<config, token, sessions, holders, db, closing, row, request, delivered, boot, left>>

FaultOr(cond) == (cond /\ UNCHANGED left) \/ (~cond /\ Fault)

AskFails(s) ==
  /\ control[s].at = "ask"
  /\ FaultOr(token[s] = NoBot \/ ~db)
  /\ Goes(s, "clean")
  /\ UNCHANGED <<config, token, sessions, holders, db, closing, row, request, delivered, boot>>

InUse(s) == \E x \in Slots \ {s} : sessions[x].at # "off" /\ sessions[x].bot = control[s].me

(* The commit of enabled=True, or the checks of a restart                  *)
Claims(s) ==
  /\ control[s].at = "claim"
  /\ IF control[s].how = "enable"
       THEN IF control[s].fresh /\ ~Claimed(s, control[s].me)
              THEN Commit(s, [on |-> TRUE, bot |-> control[s].me], "drop")
              ELSE Goes(s, "clean") /\ UNCHANGED config
       ELSE /\ Goes(s, IF config[s].bot # control[s].me \/ InUse(s) THEN "clean" ELSE "drop")
            /\ UNCHANGED config
  /\ UNCHANGED <<token, sessions, holders, db, closing, row, request, delivered, boot, left>>

(* drop_pending_ai                                                         *)
Drops(s) ==
  /\ control[s].at = "drop" /\ db
  /\ IF s \in AiSlots /\ row[s] = "pending"
       THEN row' = [row EXCEPT ![s] = "dropped"]
       ELSE row' = row
  /\ Goes(s, "baseline")
  /\ UNCHANGED <<config, token, sessions, holders, db, closing, request, delivered, boot, left>>

(* The first getUpdates, and the session                                   *)
Begins(s) ==
  /\ control[s].at = "baseline" /\ db
  /\ sessions' = [sessions EXCEPT ![s] = [at |-> "on", bot |-> control[s].me]]
  /\ control' = [control EXCEPT ![s] = Idle]
  /\ UNCHANGED <<config, token, holders, db, closing, row, request, delivered, boot, left>>

(* conflict or unauthorized: the slot stays enabled, without a session     *)
BaselineFails(s) ==
  /\ control[s].at \in {"drop", "baseline"}
  /\ FaultOr(~db)
  /\ Goes(s, "clean")
  /\ UNCHANGED <<config, token, sessions, holders, db, closing, row, request, delivered, boot>>

CleansOnly(s) ==
  /\ control[s].at = "clean" /\ sessions[s].at # "closing"
  /\ Release(s)
  /\ Goes(s, "cleaned")
  /\ UNCHANGED <<config, token, sessions, db, row, request, delivered, boot, left>>

(* _stop and _cleanup: a session is cancelled and awaited, its message     *)
(* left as it is, and the database released                                *)
Cleans(s) ==
  /\ control[s].at = "clean" /\ sessions[s].at # "closing"
  /\ sessions' = [sessions EXCEPT ![s] = Off]
  /\ request' = [request EXCEPT ![s] = "no"]
  /\ Release(s)
  /\ Goes(s, "cleaned")
  /\ UNCHANGED <<config, token, db, row, delivered, boot, left>>

(* What follows the close: nothing, or the second half of a retry          *)
Cleaned(s) ==
  /\ control[s].at = "cleaned" /\ s \notin closing
  /\ IF control[s].how = "retry"
       THEN /\ Joins(s)
            /\ control' = [control EXCEPT ![s] = [@ EXCEPT !.at = "open", !.how = "retake"]]
       ELSE /\ holders' = holders
            /\ control' = [control EXCEPT ![s] = Idle]
  /\ UNCHANGED <<config, token, sessions, db, closing, row, request, delivered, boot, left>>

(* _close on its thread                                                    *)
Closes(s) ==
  /\ s \in closing
  /\ closing' = closing \ {s}
  /\ db' = FALSE
  /\ UNCHANGED <<config, token, control, sessions, holders, row, request, delivered, boot, left>>

-----------------------------------------------------------------------------
(* The session: enqueue, take, and the answer of sendMessage               *)
Enqueues(s) ==
  /\ sessions[s].at = "on" /\ db /\ row[s] = "none"
  /\ row' = [row EXCEPT ![s] = "pending"]
  /\ UNCHANGED <<config, token, control, sessions, holders, db, closing, request, delivered, boot, left>>

Sends(s) ==
  /\ sessions[s].at = "on" /\ db /\ row[s] = "pending" /\ request[s] = "no"
  /\ row' = [row EXCEPT ![s] = "sending"]
  /\ request' = [request EXCEPT ![s] = "sent"]
  /\ UNCHANGED <<config, token, control, sessions, holders, db, closing, delivered, boot, left>>

Serves(s) ==
  /\ request[s] = "sent"
  /\ delivered' = [delivered EXCEPT ![s] = @ + 1]
  /\ request' = [request EXCEPT ![s] = "served"]
  /\ UNCHANGED <<config, token, control, sessions, holders, db, closing, row, boot, left>>

(* What send_once records of an error: the message is repeated only when   *)
(* the connection was refused or the server is busy, which are the         *)
(* errors of a message that was not delivered                              *)
Errors(s) == IF request[s] = "served" THEN {"unknown"} ELSE {"pending", "failed", "unknown"}

Records(s) ==
  /\ request[s] = "served" /\ db
  /\ row' = [row EXCEPT ![s] = "sent"]
  /\ request' = [request EXCEPT ![s] = "no"]
  /\ UNCHANGED <<config, token, control, sessions, holders, db, closing, delivered, boot, left>>

RecordsError(s) ==
  /\ request[s] # "no" /\ db /\ Fault
  /\ \E o \in Errors(s) : row' = [row EXCEPT ![s] = o]
  /\ request' = [request EXCEPT ![s] = "no"]
  /\ UNCHANGED <<config, token, control, sessions, holders, db, closing, delivered, boot>>

(* The session ends by itself, and releases the database                   *)
SessionStops(s) ==
  /\ sessions[s].at = "on"
  /\ FaultOr(~db)
  /\ sessions' = [sessions EXCEPT ![s].at = "closing"]
  /\ request' = [request EXCEPT ![s] = "no"]
  /\ Release(s)
  /\ UNCHANGED <<config, token, control, db, row, delivered, boot>>

SessionEnded(s) ==
  /\ sessions[s].at = "closing" /\ s \notin closing
  /\ sessions' = [sessions EXCEPT ![s] = Off]
  /\ UNCHANGED <<config, token, control, holders, db, closing, row, request, delivered, boot, left>>

ProcessDies ==
  /\ left.crashes > 0
  /\ control' = [s \in Slots |-> Idle] /\ sessions' = [s \in Slots |-> Off]
  /\ request' = [s \in Slots |-> "no"]
  /\ holders' = {} /\ db' = FALSE /\ closing' = {}
  /\ boot' = Order
  /\ left' = [left EXCEPT !.crashes = @ - 1]
  /\ UNCHANGED <<config, token, row, delivered>>

SlotsNext ==
  \/ \E s \in Slots :
       \/ ChangesToken(s) \/ Enables(s) \/ Retries(s) \/ Disables(s) \/ Boots(s)
       \/ Opens(s) \/ Asks(s) \/ AskFails(s) \/ Claims(s) \/ Drops(s) \/ Begins(s)
       \/ BaselineFails(s) \/ Cleans(s) \/ Cleaned(s) \/ Closes(s)
       \/ Enqueues(s) \/ Sends(s) \/ Serves(s) \/ Records(s) \/ RecordsError(s)
       \/ SessionStops(s) \/ SessionEnded(s)
  \/ ProcessDies

SlotsSpec == SlotsInit /\ [][SlotsNext]_svars

-----------------------------------------------------------------------------
(* No bot is taken by two enabled slots, though operations on two slots    *)
(* overlap (claimed_elsewhere, in the transaction of enable).              *)
OneSlotPerBot ==
  \A s, x \in Slots : s # x /\ config[s].on /\ config[x].on => config[s].bot # config[x].bot

(* A session runs only for an enabled slot and for the bot it was enabled  *)
(* with, once the operation that starts or stops it is over (_activate,    *)
(* disable, retry).                                                        *)
RunsAsRecorded ==
  \A s \in Slots : sessions[s].at = "on" /\ control[s].at = "idle"
                     => config[s].on /\ config[s].bot = sessions[s].bot

(* The token of an enabled slot is that of its bot: none replaces or       *)
(* deletes it while the slot is being enabled or is on (token, inactive).  *)
TokenOfBot == \A s \in Slots : config[s].on => token[s] = config[s].bot

(* No message is delivered twice, whatever dies or is stopped while the    *)
(* answer is awaited (send_once).                                          *)
DeliveredOnce == \A s \in Slots : delivered[s] <= 1

(* The comment in telegram_store.initialize: a concurrent release does not *)
(* close the database under a slot that is starting.                       *)
HeldIsOpen == \A s \in Slots : control[s].at \in {"ask", "claim"} => db

(* The comment at the end of send_once: a message that was being sent when *)
(* its session was cancelled is unknown from the next initialization on.   *)
AmbiguousMarked ==
  \A s \in Slots : sessions[s].at = "on" /\ row[s] = "sending" => request[s] # "no"

(* A bot belongs to one slot, with the token and the session of that slot, *)
(* and delivers each message once.                                         *)
SlotsSafe == SlotsTypeOK /\ OneSlotPerBot /\ RunsAsRecorded /\ TokenOfBot /\ DeliveredOnce
=============================================================================

---------------------------- MODULE EventStream ----------------------------
(***************************************************************************)
(* services/events.py and api/ws.py: one topic, its journal (the database  *)
(* of the runs or of the AI sessions, or the history that the hub keeps    *)
(* for mcp, services and vpn), the hub, one connection with its bounded    *)
(* queue, and the client that subscribes to the topic again after every    *)
(* cut at the sequence number it has seen.                                 *)
(***************************************************************************)
EXTENDS Naturals, Integers, Sequences, FiniteSets, FiniteSetsExt, SequencesExt

CONSTANTS
  Topic,       \* "run", "ai" or "bus" (mcp, services and vpn are alike)
  Watermark,   \* what the client keeps: "topic" numbers or "envelope" numbers
  QueueSize,   \* capacity of the queue and of the buffer of a replay
  Kept,        \* entries the journal keeps of an AI session or of a bus
  Page,        \* events read at once from a database
  Commits,     \* bound: events committed
  Others,      \* bound: events of other topics
  Frames,      \* bound: subscribe frames of the client
  Cancels      \* bound: writers cancelled between commit and publication

StreamAssumption ==
  /\ Topic \in {"run", "ai", "bus"} /\ Watermark \in {"topic", "envelope"}
  /\ {QueueSize, Kept, Page, Commits, Others, Frames, Cancels} \subseteq Nat
  /\ QueueSize > 0 /\ Page > 0 /\ Kept > 0

Off == -1

VARIABLES
  journal,   \* [last, stored]: the highest number and the numbers still kept
  due,       \* the committed batches that their writers still have to publish
  sub,       \* [cursor, replaying, pending]: the Subscriber of the connection
  incoming,  \* the coroutine _subscribe_*: [at, after, mark, page], page left to send
  wire,      \* [seq, queue]: _seq of the hub, queue of the connection
  link,      \* "open", "slow" (overflowed), "refused" (1008) or "down"
  client,    \* [seen, got, marked]: what the client has received
  base,      \* history: the after_seq of the latest subscription
  sent,      \* history: the events queued for it
  bound

evars == <<journal, due, sub, incoming, wire, link, client, base, sent, bound>>

NoSub == [cursor |-> Off, replaying |-> FALSE, pending |-> <<>>]
NoReplay == [at |-> "idle", after |-> 0, mark |-> 0, page |-> {}]

StreamTypeOK ==
  /\ journal \in [last: 0..(2 * Commits), stored: SUBSET (1..(2 * Commits))]
  /\ due \in Seq(Seq(1..(2 * Commits)))
  /\ sub \in [cursor: Off..(2 * Commits), replaying: BOOLEAN, pending: Seq(1..(2 * Commits))]
  /\ Len(sub.pending) <= QueueSize /\ Len(wire.queue) <= QueueSize
  /\ incoming.at \in {"idle", "get", "read", "send", "mark", "drain"}
  /\ link \in {"open", "slow", "refused", "down"}
  /\ client.got \subseteq 1..(2 * Commits)
  /\ sub.replaying <=> incoming.at # "idle"

StreamInit ==
  /\ journal = [last |-> 0, stored |-> {}]
  /\ due = <<>> /\ sub = NoSub /\ incoming = NoReplay
  /\ wire = [seq |-> 0, queue |-> <<>>]
  /\ link = "open"
  /\ client = [seen |-> 0, got |-> {}, marked |-> FALSE]
  /\ base = 0 /\ sent = <<>>
  /\ bound = [commits |-> Commits, others |-> Others, frames |-> Frames, cancels |-> Cancels]

Spend(what) == bound[what] > 0 /\ bound' = [bound EXCEPT ![what] = @ - 1]

-----------------------------------------------------------------------------
\* The queue of the connection: put_nowait, whose failure drops the subscriber.

Item(n, kind) == [seq |-> wire.seq + 1, n |-> n, kind |-> kind]
Registered == link = "open"

Full == Len(wire.queue) >= QueueSize

enqueue(n, kind) ==
  IF Full THEN /\ wire' = [wire EXCEPT !.seq = @ + 1]
               /\ link' = "slow"
          ELSE /\ wire' = [seq |-> wire.seq + 1, queue |-> Append(wire.queue, Item(n, kind))]
               /\ UNCHANGED link

\* publish_run, publish_ai and the loop of publish_mcp for the one subscriber.
Skips(seq) == ~Registered \/ sub.cursor = Off \/ seq <= sub.cursor

publish(seq) ==
  IF Skips(seq)
  THEN UNCHANGED <<sub, wire, link, sent>>
  ELSE IF sub.replaying
  THEN /\ IF Len(sub.pending) >= QueueSize
          THEN link' = "slow" /\ UNCHANGED sub
          ELSE sub' = [sub EXCEPT !.pending = Append(@, seq)] /\ UNCHANGED link
       /\ UNCHANGED <<wire, sent>>
  ELSE /\ sub' = [sub EXCEPT !.cursor = seq]
       /\ enqueue(seq, "event")
       /\ sent' = IF Full THEN sent ELSE Append(sent, seq)

\* An event of another topic: publish and _fan_out.
Broadcast ==
  /\ Spend("others") /\ Registered
  /\ enqueue(0, "other")
  /\ UNCHANGED <<journal, due, sub, incoming, client, base, sent>>

-----------------------------------------------------------------------------
\* The journals.  An AI session keeps its newest events and a notice that some
\* were trimmed; a history keeps its newest entries; a run keeps everything.

Newest(S, k) == {n \in S : Cardinality({m \in S : m >= n}) <= k}

Trimmed(S) == Cardinality(S) > Kept

\* _event of the AI store: the event, and the notice when it had to trim.
Recorded ==
  LET n == journal.last + 1
      all == journal.stored \cup {n}
  IN  IF Topic = "run" \/ ~Trimmed(all) THEN [stored |-> all, batch |-> <<n>>]
      ELSE IF Topic = "bus" THEN [stored |-> Newest(all, Kept), batch |-> <<n>>]
      ELSE [stored |-> Newest(all, Kept) \cup {n + 1}, batch |-> <<n, n + 1>>]

Record == journal' = [last |-> Last(Recorded.batch), stored |-> Recorded.stored]

\* A writer's thread commits under the lock of the store; its coroutine publishes
\* later.
Commit ==
  /\ Topic # "bus" /\ Spend("commits")
  /\ Record
  /\ due' = Append(due, Recorded.batch)
  /\ UNCHANGED <<sub, incoming, wire, link, client, base, sent>>

\* publish_mcp, publish_services and publish_vpn record and publish in one go.
PublishBus ==
  /\ Topic = "bus" /\ Spend("commits")
  /\ Record
  /\ publish(Last(Recorded.batch))
  /\ UNCHANGED <<due, incoming, client, base>>

\* The run store hands its events to the loop in the order of the commits, the
\* AI store leaves it to the coroutines that await their threads.
Publishable == IF Topic = "ai" THEN DOMAIN due ELSE DOMAIN due \cap {1}

Publish ==
  \E i \in Publishable :
    /\ publish(Head(due[i]))
    /\ due' = IF Len(due[i]) = 1 THEN RemoveAt(due, i) ELSE [due EXCEPT ![i] = Tail(@)]
    /\ UNCHANGED <<journal, incoming, client, base, bound>>

\* AIStore.call: the cancelled caller waits for its thread and never publishes.
CancelWriter ==
  /\ Topic = "ai" /\ Spend("cancels")
  /\ \E i \in DOMAIN due : due' = RemoveAt(due, i)
  /\ UNCHANGED <<journal, sub, incoming, wire, link, client, base, sent>>

-----------------------------------------------------------------------------
\* The connection: the frames of the client, in turn, and the replay.

Waits == incoming.at = "idle"

\* A mutant: the subscription is registered when its watermark has been read.
SubscribeUnregistered ==
  /\ Registered /\ Waits /\ Spend("frames")
  /\ sub' = [cursor |-> 2 * Commits, replaying |-> TRUE, pending |-> <<>>]
  /\ incoming' = [NoReplay EXCEPT !.at = "get", !.after = client.seen]
  /\ client' = [client EXCEPT !.marked = FALSE]
  /\ base' = client.seen /\ sent' = <<>>
  /\ UNCHANGED <<journal, due, wire, link>>

\* The cursor is registered before anything is read.
Subscribe ==
  /\ Registered /\ Waits /\ Spend("frames")
  /\ sub' = [cursor |-> client.seen, replaying |-> TRUE, pending |-> <<>>]
  /\ incoming' = [NoReplay EXCEPT !.at = "get", !.after = client.seen]
  /\ client' = [client EXCEPT !.marked = FALSE]
  /\ base' = client.seen /\ sent' = <<>>
  /\ UNCHANGED <<journal, due, wire, link>>

Unsubscribe ==
  /\ Registered /\ Waits /\ sub.cursor # Off /\ bound.frames > 0
  /\ sub' = NoSub
  /\ UNCHANGED <<journal, due, incoming, wire, link, client, base, sent, bound>>

FutureCursor == incoming.after > journal.last

Unseen(n) == n > incoming.after

\* store.get or _state: the watermark, a future cursor, and what to replay of a
\* history, which is read at once.
Watermarked ==
  /\ Registered /\ incoming.at = "get"
  /\ IF FutureCursor
     THEN /\ sub' = NoSub /\ incoming' = NoReplay /\ link' = "refused"
     ELSE /\ incoming' = [incoming EXCEPT
               !.mark = journal.last,
               !.at = IF Topic # "bus" THEN "read" ELSE "send",
               !.page = IF Topic # "bus" THEN {} ELSE {n \in journal.stored : Unseen(n)}]
          /\ UNCHANGED <<sub, link>>
  /\ UNCHANGED <<journal, due, wire, client, base, sent, bound>>

\* store.events: the next page up to the watermark.
Paged == {n \in journal.stored :
            /\ n > incoming.after
            /\ Cardinality({m \in journal.stored : incoming.after < m /\ m <= n}) <= Page}

ReadPage ==
  /\ Registered /\ incoming.at = "read"
  /\ incoming' =
       IF incoming.after >= incoming.mark \/ Paged = {}
       THEN [incoming EXCEPT !.at = "mark"]
       ELSE [incoming EXCEPT !.at = "send",
               !.page = {n \in Paged : n <= incoming.mark}]
  /\ UNCHANGED <<journal, due, sub, wire, link, client, base, sent, bound>>

\* _run_enqueue waits for room, so that a replay never overflows the queue.  A page
\* (ORDER BY the number; a history is in its order) is sent from the lowest on.
Room == Registered /\ ~Full

SendReplayed ==
  /\ incoming.at = "send"
  /\ IF incoming.page = {}
     THEN /\ Registered
          /\ incoming' = [incoming EXCEPT !.at = IF Topic = "bus" THEN "mark" ELSE "read"]
          /\ UNCHANGED <<sub, wire, link, sent>>
     ELSE /\ Room
          /\ \E n \in incoming.page :
               /\ \A m \in incoming.page : n <= m
               /\ enqueue(n, "event")
               /\ sent' = Append(sent, n)
               /\ sub' = [sub EXCEPT !.cursor = n]
               /\ incoming' = [incoming EXCEPT !.after = n, !.page = @ \ {n}]
  /\ UNCHANGED <<journal, due, client, base, bound>>

SendMark ==
  /\ incoming.at = "mark" /\ Room
  /\ enqueue(incoming.mark, "subscribed")
  /\ incoming' = [incoming EXCEPT !.at = "drain"]
  /\ UNCHANGED <<journal, due, sub, client, base, sent, bound>>

\* The buffered events that the replay has not covered; then the topic is live.
Undelivered == Head(sub.pending) > sub.cursor

Drain ==
  /\ incoming.at = "drain" /\ Registered
  /\ IF sub.pending = <<>>
     THEN /\ sub' = [sub EXCEPT !.replaying = FALSE]
          /\ incoming' = NoReplay
          /\ UNCHANGED <<wire, link, sent>>
     ELSE IF Undelivered
     THEN /\ Room
          /\ enqueue(Head(sub.pending), "event")
          /\ sent' = Append(sent, Head(sub.pending))
          /\ sub' = [sub EXCEPT !.cursor = Head(sub.pending), !.pending = Tail(@)]
          /\ UNCHANGED incoming
     ELSE /\ sub' = [sub EXCEPT !.pending = Tail(@)]
          /\ UNCHANGED <<incoming, wire, link, sent>>
  /\ UNCHANGED <<journal, due, client, base, bound>>

-----------------------------------------------------------------------------
\* The pump, the client behind it and the end of a connection.

\* The number of an item the client compares and keeps as its watermark.
Number(item) == IF Watermark = "envelope" THEN item.seq ELSE item.n

Received(item) ==
  CASE item.kind = "event" /\ Number(item) > client.seen ->
         [client EXCEPT !.seen = Number(item), !.got = @ \cup {item.n}]
    [] item.kind = "subscribed" ->
         [client EXCEPT !.seen = IF @ < item.n THEN item.n ELSE @, !.marked = TRUE]
    [] OTHER -> client

Pump ==
  /\ link = "open" /\ wire.queue # <<>>
  /\ client' = Received(Head(wire.queue))
  /\ wire' = [wire EXCEPT !.queue = Tail(@)]
  /\ UNCHANGED <<journal, due, sub, incoming, link, base, sent, bound>>

\* The end of events(): the tasks are cancelled, the subscriber is gone and what
\* was still queued is lost.
Close ==
  /\ link \in {"slow", "refused"}
  /\ link' = "down"
  /\ sub' = NoSub /\ incoming' = NoReplay
  /\ wire' = [wire EXCEPT !.queue = <<>>]
  /\ UNCHANGED <<journal, due, client, base, sent, bound>>

\* The client connects again.
Connect ==
  /\ link = "down" /\ bound.frames > 0
  /\ link' = "open"
  /\ UNCHANGED <<journal, due, sub, incoming, wire, client, base, sent, bound>>

Steps == Watermarked \/ SendReplayed \/ SendMark \/ Drain
ReplayRun == Topic = "run" /\ (Steps \/ ReadPage)
ReplayAi == Topic = "ai" /\ (Steps \/ ReadPage)
ReplayBus == Topic = "bus" /\ Steps
Replay == ReplayRun \/ ReplayAi \/ ReplayBus

StreamNext ==
  \/ Commit \/ PublishBus \/ Publish \/ CancelWriter \/ Broadcast
  \/ Subscribe \/ Unsubscribe \/ Replay \/ Pump \/ Close \/ Connect

StreamSpec == StreamInit /\ [][StreamNext]_evars

-----------------------------------------------------------------------------
\* No event is queued twice or out of order for a subscription, whatever is
\* committed while its replay reads the journal.
InOrder ==
  /\ \A i \in DOMAIN sent : sent[i] > base
  /\ \A i, j \in DOMAIN sent : i < j => sent[i] < sent[j]

\* A client that has seen an event has every earlier one that the journal still
\* has: over replays, unsubscriptions and connections cut for being slow.
NoHole == \A n \in journal.stored : n <= client.seen => n \in client.got

\* While a topic is live, every event that was published is on its way to the
\* client or with him: the change from replay to live loses none.
LiveComplete ==
  sub.cursor # Off /\ ~sub.replaying /\ link = "open" =>
    \A n \in journal.stored :
      n > base /\ (\A i \in DOMAIN due : ~Contains(due[i], n)) => Contains(sent, n)

\* A replay waits for room: only the live events of a client that does not read
\* may cut him off.
ReplayNeverOverflows ==
  link = "open" /\ link' = "slow" => bound' # bound \/ due' # due

\* A client that comes back with what it has seen is not sent away.
ResumeAccepted == link # "refused"

\* Every subscription is acknowledged once its replay is over, or its connection
\* ends; a connection that overflowed is closed.
Subscribing == incoming.at # "idle"
Acknowledged == client.marked \/ link # "open"
Overflowed == link = "slow"

\* A subscription delivers what its journal has, in order and without a hole,
\* and can be resumed.  (Events of an AI session whose writer is cancelled
\* are not delivered: see the README.)
StreamSafe ==
  /\ StreamTypeOK /\ InOrder
  /\ Topic # "ai" => NoHole /\ LiveComplete /\ ResumeAccepted
=============================================================================

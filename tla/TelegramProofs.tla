--------------------------- MODULE TelegramProofs ---------------------------
(***************************************************************************)
(* The receipt of updates is safe for any number of updates, chats,        *)
(* workers, ends of the session and deaths of the process; the slots are   *)
(* safe for any number of slots, bots, operations, faults and deaths; the  *)
(* buttons for any number of users, tokens, taps, changes of the           *)
(* configuration and ends of the session; and the outbox for any messages, *)
(* limits, switches and ends of the session.                               *)
(***************************************************************************)
EXTENDS TelegramUpdates, TelegramSlots, TelegramActions, TelegramOutbox, FiniteSetTheorems, SequenceTheorems,
        WellFoundedInduction, TLAPS

-----------------------------------------------------------------------------
(* Updates                                                                 *)

(* A takeover that has not ended has handled nothing.  It settles the      *)
(* newest update of the backlog itself, so that what the server still      *)
(* holds when it ends is newer than the backlog or below the offset.       *)
PastBacklog == \A u \in server : u > mark \/ u < journal.offset
TakenOver ==
  /\ mark <= arrived /\ journal.offset <= arrived + 1
  /\ session \in {"baseline", "accept", "expire"} => ~ journal.baseline
  /\ session \in {"poll", "receive", "put"} => journal.baseline
  /\ ~ journal.baseline =>
       /\ work = <<>> /\ acts = <<>>
       /\ \A u \in Updates : doing[u] = "none" /\ journal.status[u] \in {"none", "received", "expired"}
  /\ (session = "expire" \/ (session = "accept" /\ batch # <<>>)) =>
       batch = <<mark>> /\ \A u \in server : u >= mark
  /\ session = "expire" => journal.offset > mark
  /\ (journal.baseline \/ (session = "accept" /\ batch = <<>>)) => PastBacklog

(* A fetched update is newer than the backlog, and whatever came between   *)
(* the two is known or stands before it in the batch; all updates between  *)
(* the backlog and the offset are known.                                   *)
Fetched ==
  session \in {"receive", "put"} =>
    \A i \in DOMAIN batch :
      /\ mark < batch[i] /\ batch[i] <= arrived
      /\ \A w \in Updates : mark < w /\ w < batch[i] =>
           journal.status[w] # "none" \/ \E j \in DOMAIN batch : j < i /\ batch[j] = w
Seen == \A u \in Updates : mark < u /\ u < journal.offset => journal.status[u] # "none"

(* What has been passed on is newer than the backlog, below the offset,    *)
(* and registered with no end: acts, then handlers, then the queue, then   *)
(* the update about to be put, each newer than those before it.            *)
Awaiting(u) == mark < u /\ u < journal.offset /\ journal.status[u] = "received"
After(u) ==
  /\ \A i \in DOMAIN acts : acts[i] < u
  /\ \A v \in Updates : doing[v] # "none" => v < u
Putting ==
  session = "put" =>
    /\ batch # <<>> /\ Awaiting(batch[1]) /\ After(batch[1])
    /\ \A i \in DOMAIN work : work[i] < batch[1]
Queued ==
  /\ \A i \in DOMAIN work : Awaiting(work[i]) /\ After(work[i])
  /\ \A i, j \in DOMAIN work : i < j => work[i] < work[j]

(* A handler that has not acted is newer than every act of its chat, and   *)
(* of the handlers of one chat and session only the oldest is past its     *)
(* turn.                                                                   *)
Handled ==
  /\ \A u \in Updates : doing[u] # "none" => Awaiting(u)
  /\ \A u \in Attached : doing[u] \in {"wait", "run"} =>
       \A i \in DOMAIN acts : ChatOf[acts[i]] = ChatOf[u] => acts[i] < u
  /\ \A u, v \in Attached : v < u /\ ChatOf[v] = ChatOf[u] => doing[u] = "wait"
Acted == \A i \in DOMAIN acts : acts[i] < journal.offset

UpdatesInv ==
  /\ TakenOver /\ Fetched /\ Seen /\ Putting /\ Queued /\ Handled /\ Acted
  /\ UpdatesSafe

-----------------------------------------------------------------------------
(* The sequences and the records of the model                              *)
LEMMA TailIs ==
  ASSUME NEW s \in Seq(Updates), s # <<>>
  PROVE  /\ 1 \in DOMAIN s /\ Head(s) = s[1] /\ Head(s) \in Updates
         /\ Tail(s) \in Seq(Updates) /\ Len(Tail(s)) = Len(s) - 1
         /\ \A i \in DOMAIN Tail(s) : i + 1 \in DOMAIN s /\ Tail(s)[i] = s[i + 1]
  OBVIOUS

LEMMA AppendIs ==
  ASSUME NEW s \in Seq(Updates), NEW u \in Updates
  PROVE  /\ Append(s, u) \in Seq(Updates) /\ Len(Append(s, u)) = Len(s) + 1
         /\ \A i \in DOMAIN Append(s, u) :
              (i \in DOMAIN s /\ Append(s, u)[i] = s[i]) \/ (i = Len(s) + 1 /\ Append(s, u)[i] = u)
  OBVIOUS

LEMMA Numbers ==
  ASSUME UpdatesAssumption, UpdatesTypeOK
  PROVE  /\ Updates \subseteq Nat /\ 1..arrived \subseteq Updates /\ server \subseteq Updates
         /\ mark \in Nat /\ arrived \in Nat /\ journal.offset \in Nat
         /\ \A i \in DOMAIN work : work[i] \in Updates /\ work[i] \in Nat
         /\ \A i \in DOMAIN acts : acts[i] \in Updates /\ acts[i] \in Nat
         /\ \A i \in DOMAIN batch : batch[i] \in Updates /\ batch[i] \in Nat
<1>1. Updates \subseteq Nat /\ 1..arrived \subseteq Updates /\ server \subseteq Updates
  BY DEF UpdatesAssumption, UpdatesTypeOK, Updates
<1>2. mark \in Nat /\ arrived \in Nat /\ journal.offset \in Nat
  BY DEF UpdatesAssumption, UpdatesTypeOK
<1>3. work \in Seq(Updates) /\ acts \in Seq(Updates) /\ batch \in Seq(Updates)
  BY DEF UpdatesTypeOK
<1>4. \A s \in Seq(Updates) : \A i \in DOMAIN s : s[i] \in Updates
  OBVIOUS
<1>5. \A s \in Seq(Updates) : \A i \in DOMAIN s : s[i] \in Updates /\ s[i] \in Nat
  BY <1>1, <1>4
<1>6. QED
  BY <1>1, <1>2, <1>3, <1>5

LEMMA RegisteredIs ==
  ASSUME UpdatesAssumption, UpdatesTypeOK, NEW u \in Updates, journal' = Registered(u)
  PROVE  /\ journal' \in [offset: 0..MaxUpdate + 1, baseline: BOOLEAN,
                          status: [Updates -> Final \cup {"none", "received"}]]
         /\ journal'.baseline = journal.baseline
         /\ journal'.offset = Newest(journal.offset, u + 1)
         /\ journal'.status[u] = IF journal.status[u] = "none" THEN "received" ELSE journal.status[u]
         /\ \A w \in Updates \ {u} : journal'.status[w] = journal.status[w]
<1>1. /\ journal.offset \in 0..MaxUpdate + 1 /\ journal.baseline \in BOOLEAN
      /\ journal.status \in [Updates -> Final \cup {"none", "received"}]
  BY DEF UpdatesTypeOK
<1> DEFINE s == IF journal.status[u] = "none" THEN "received" ELSE journal.status[u]
<1> DEFINE o == Newest(journal.offset, u + 1)
<1>2. s \in Final \cup {"none", "received"}
  BY <1>1
<1>3. o \in 0..MaxUpdate + 1
  BY <1>1 DEF UpdatesAssumption, Updates, Newest
<1>4. journal' = [journal EXCEPT !.status[u] = s, !.offset = o]
  BY DEF Registered
<1> HIDE DEF s, o
<1> DEFINE st == [journal.status EXCEPT ![u] = s]
<1>7. st \in [Updates -> Final \cup {"none", "received"}] /\ st[u] = s /\ \A w \in Updates \ {u} : st[w] = journal.status[w]
  BY <1>1, <1>2
<1>8. journal' = [offset |-> o, baseline |-> journal.baseline, status |-> st]
  BY <1>4 DEF UpdatesTypeOK
<1> HIDE DEF st
<1>5. /\ journal' \in [offset: 0..MaxUpdate + 1, baseline: BOOLEAN,
                      status: [Updates -> Final \cup {"none", "received"}]]
      /\ journal'.baseline = journal.baseline /\ journal'.offset = o /\ journal'.status[u] = s
      /\ \A w \in Updates \ {u} : journal'.status[w] = journal.status[w]
  BY <1>1, <1>3, <1>7, <1>8
<1>6. QED
  BY <1>5 DEF s, o

LEMMA ClosedIs ==
  ASSUME UpdatesAssumption, UpdatesTypeOK, NEW u \in Updates, NEW s \in Final, journal' = Closed(u, s)
  PROVE  /\ journal' \in [offset: 0..MaxUpdate + 1, baseline: BOOLEAN,
                          status: [Updates -> Final \cup {"none", "received"}]]
         /\ journal'.baseline = journal.baseline
         /\ journal'.offset = journal.offset
         /\ journal'.status[u] = s
         /\ \A w \in Updates \ {u} : journal'.status[w] = journal.status[w]
  BY DEF UpdatesAssumption, UpdatesTypeOK, Closed, Updates

LEMMA KnownStays ==
  ASSUME UpdatesAssumption, UpdatesTypeOK, NEW u \in Updates,
         journal' = Registered(u) \/ \E s \in Final : journal' = Closed(u, s)
  PROVE  \A w \in Updates : journal.status[w] # "none" => journal'.status[w] # "none"
<1>1. CASE journal' = Registered(u)
  <2>1. /\ journal'.status[u] = IF journal.status[u] = "none" THEN "received" ELSE journal.status[u]
        /\ \A w \in Updates \ {u} : journal'.status[w] = journal.status[w]
    BY <1>1, RegisteredIs
  <2>2. QED
    BY <2>1
<1>2. ASSUME NEW s \in Final, journal' = Closed(u, s)
      PROVE  \A w \in Updates : journal.status[w] # "none" => journal'.status[w] # "none"
  <2>1. journal'.status[u] = s /\ \A w \in Updates \ {u} : journal'.status[w] = journal.status[w]
    BY <1>2, ClosedIs
  <2>2. QED
    BY <2>1 DEF Final
<1>3. QED
  BY <1>1, <1>2

(* What is known stays known as long as the offset passes nothing unknown  *)
LEMMA KnowledgeKept ==
  ASSUME UpdatesAssumption, UpdatesTypeOK, Seen, NothingForgotten, UNCHANGED <<server, mark, arrived>>,
         \A u \in Updates : journal.status[u] # "none" => journal'.status[u] # "none",
         \A u \in Updates : mark < u /\ u < journal'.offset => u < journal.offset \/ journal'.status[u] # "none"
  PROVE  Seen' /\ NothingForgotten'
<1>1. Seen'
  BY DEF Seen
<1>2. 1..arrived \subseteq Updates
  BY DEF UpdatesAssumption, UpdatesTypeOK, Updates
<1>3. NothingForgotten'
  BY <1>2 DEF NothingForgotten
<1>4. QED
  BY <1>1, <1>3

-----------------------------------------------------------------------------
LEMMA UpdatesAtFirst ==
  ASSUME UpdatesAssumption, UpdatesInit
  PROVE  UpdatesInv
<1> USE DEF UpdatesInit
<1>1. UpdatesTypeOK
  BY DEF UpdatesAssumption, UpdatesTypeOK, Updates, Final, Doings, Sessions
<1>2. TakenOver /\ Fetched /\ Seen /\ Putting /\ Queued /\ Handled /\ Acted
  BY DEF UpdatesAssumption, TakenOver, PastBacklog, Fetched, Seen, Putting, Queued, Handled, Acted,
         Attached, Updates
<1>3. ActedOnce /\ ChatOrder /\ BacklogSilent /\ NothingForgotten
  BY DEF ActedOnce, IsInjective, ChatOrder, BacklogSilent, NothingForgotten
<1>4. QED
  BY <1>1, <1>2, <1>3 DEF UpdatesInv, UpdatesSafe

LEMMA ServerKeeps ==
  ASSUME UpdatesAssumption, UpdatesInv, Arrives \/ Ages
  PROVE  UpdatesInv'
<1>1. CASE Arrives
  <2> USE <1>1 DEF UpdatesInv, UpdatesSafe, Arrives
  <2>1. UpdatesTypeOK'
    BY DEF UpdatesAssumption, UpdatesTypeOK, Updates
  <2>a. mark \in Nat /\ arrived \in Nat /\ journal.offset \in Nat /\ mark <= arrived
    BY Numbers DEF TakenOver
  <2>2. TakenOver'
    <3>1. mark' <= arrived' /\ journal'.offset <= arrived' + 1
      BY <2>a DEF TakenOver, UpdatesTypeOK
    <3>2. PastBacklog => PastBacklog'
      BY <2>a DEF PastBacklog
    <3>3. \A u \in server' : u \in server \/ u >= mark
      BY <2>a
    <3>4. (session = "expire" \/ (session = "accept" /\ batch # <<>>)) =>
            batch = <<mark>> /\ \A u \in server' : u >= mark
      BY <3>3 DEF TakenOver
    <3> QED
      BY <3>1, <3>2, <3>4 DEF TakenOver
  <2>b. \A i \in DOMAIN batch : batch[i] \in Nat
    BY Numbers DEF UpdatesTypeOK
  <2>3. Fetched'
    BY <2>a, <2>b DEF Fetched
  <2>4. (Seen /\ Putting /\ Queued /\ Handled /\ Acted)'
    BY DEF Seen, Putting, Queued, Handled, Acted, Attached, Awaiting, After
  <2>5. (ActedOnce /\ ChatOrder /\ BacklogSilent)'
    BY DEF ActedOnce, IsInjective, ChatOrder, BacklogSilent
  <2>6. NothingForgotten'
    BY DEF UpdatesAssumption, UpdatesTypeOK, Updates, NothingForgotten
  <2>7. QED
    BY <2>1, <2>2, <2>3, <2>4, <2>5, <2>6
<1>2. CASE Ages
  <2> USE <1>2 DEF UpdatesInv, UpdatesSafe, Ages
  <2>1. UpdatesTypeOK'
    BY DEF UpdatesTypeOK
  <2>2. QED
    BY <2>1 DEF TakenOver, PastBacklog, Fetched, Seen, Putting, Queued, Handled, Acted, Attached, Awaiting, After,
                ActedOnce, IsInjective, ChatOrder, BacklogSilent, NothingForgotten
<1>3. QED
  BY <1>1, <1>2

-----------------------------------------------------------------------------
(* The takeover of a bot                                                   *)
LEMMA StartsKeeps ==
  ASSUME UpdatesAssumption, UpdatesInv, Starts
  PROVE  UpdatesInv'
<1> USE DEF UpdatesInv, UpdatesSafe, Starts
<1>1. UpdatesTypeOK'
  BY DEF UpdatesTypeOK, Sessions
<1>2. QED
  BY <1>1 DEF TakenOver, PastBacklog, Fetched, Seen, Putting, Queued, Handled, Acted, Attached, Awaiting, After,
              ActedOnce, IsInjective, ChatOrder, BacklogSilent, NothingForgotten, UpdatesTypeOK

LEMMA BaselineKeeps ==
  ASSUME UpdatesAssumption, UpdatesInv, Baseline
  PROVE  UpdatesInv'
<1> USE DEF UpdatesInv, UpdatesSafe, Baseline
<1>1. /\ ~ journal.baseline /\ work = <<>> /\ acts = <<>>
      /\ \A u \in Updates : doing[u] = "none"
  BY DEF TakenOver
<1>2. arrived \in Updates \/ server' = {}
  BY DEF UpdatesAssumption, UpdatesTypeOK, Updates
<1>3. batch' \in Seq(Updates) /\ (batch' # <<>> => batch' = <<mark'>> /\ server' = {mark'})
  BY <1>2 DEF UpdatesTypeOK
<1>4. UpdatesTypeOK'
  BY <1>3 DEF UpdatesAssumption, UpdatesTypeOK, Updates, Sessions
<1>5. TakenOver'
  BY <1>1, <1>3 DEF UpdatesAssumption, UpdatesTypeOK, Updates, TakenOver, PastBacklog
<1>6. (Fetched /\ Putting)'
  BY DEF Fetched, Putting
<1>7. (Seen /\ NothingForgotten)'
  BY DEF UpdatesAssumption, UpdatesTypeOK, Updates, TakenOver, Seen, NothingForgotten
<1>8. (Queued /\ Handled /\ Acted /\ ActedOnce /\ ChatOrder /\ BacklogSilent)'
  BY <1>1 DEF Queued, Handled, Acted, Attached, ActedOnce, IsInjective, ChatOrder, BacklogSilent, Updates
<1>9. QED
  BY <1>4, <1>5, <1>6, <1>7, <1>8

LEMMA AcceptKeeps ==
  ASSUME UpdatesAssumption, UpdatesInv, AcceptRegisters \/ AcceptExpires \/ AcceptEnds
  PROVE  UpdatesInv'
<1> USE DEF UpdatesInv, UpdatesSafe
<1> DEFINE Quiet == /\ work = <<>> /\ acts = <<>>
                    /\ \A u \in Updates : doing[u] = "none" /\ journal.status[u] \in {"none", "received", "expired"}
<1>1. ~ journal.baseline /\ Quiet
  BY DEF TakenOver, AcceptRegisters, AcceptExpires, AcceptEnds
<1>2. ASSUME \/ AcceptRegisters
             \/ AcceptExpires
      PROVE  /\ batch = <<mark>> /\ batch # <<>> /\ Head(batch) = mark /\ mark \in Updates
             /\ Tail(batch) = <<>> /\ \A u \in server : u >= mark
  <2>1. batch = <<mark>> /\ \A u \in server : u >= mark
    BY <1>2 DEF TakenOver, AcceptRegisters, AcceptExpires
  <2>2. batch \in Seq(Updates)
    BY DEF UpdatesTypeOK
  <2>3. batch # <<>> /\ Len(batch) = 1 /\ batch[1] = mark
    BY <2>1
  <2>4. QED
    BY <2>1, <2>2, <2>3, TailIs
<1>3. ASSUME Quiet', journal'.baseline = journal.baseline \/ AcceptEnds, UNCHANGED detached
      PROVE  (Putting /\ Fetched /\ Queued /\ Handled /\ Acted /\ ActedOnce /\ ChatOrder /\ BacklogSilent)'
               \/ session' \in {"put", "receive"}
  BY <1>3 DEF Putting, Fetched, Queued, Handled, Acted, Attached, ActedOnce, IsInjective, ChatOrder, BacklogSilent, Updates
<1>4. CASE AcceptRegisters
  <2>1. journal' = Registered(mark)
    BY <1>2, <1>4 DEF AcceptRegisters
  <2>2. UpdatesTypeOK'
    BY <1>2, <1>4, <2>1, RegisteredIs DEF AcceptRegisters, UpdatesTypeOK, Sessions
  <2>3. Quiet' /\ UNCHANGED detached /\ session' = "expire" /\ journal'.baseline = journal.baseline
    BY <1>1, <1>2, <1>4, <2>1, RegisteredIs DEF AcceptRegisters
  <2>4. journal'.offset = Newest(journal.offset, mark + 1) /\ journal'.offset > mark /\ journal'.offset <= arrived + 1
    <3>1. journal'.offset = Newest(journal.offset, mark + 1)
      BY <1>2, <1>4, <2>1, RegisteredIs
    <3>2. mark \in Nat /\ arrived \in Nat /\ journal.offset \in Nat /\ mark <= arrived /\ journal.offset <= arrived + 1
      BY DEF UpdatesAssumption, UpdatesTypeOK, TakenOver
    <3>3. QED
      BY <3>1, <3>2 DEF Newest
  <2>5. TakenOver'
    BY <1>1, <1>2, <1>4, <2>3, <2>4 DEF TakenOver, AcceptRegisters
  <2>6. \A u \in Updates : journal.status[u] # "none" => journal'.status[u] # "none"
    BY <1>2, <1>4, <2>1, KnownStays
  <2>7. Seen' /\ NothingForgotten'
    <3>1. \A u \in Updates : mark < u /\ u < journal'.offset => u < journal.offset
      BY <1>2, <1>4, <2>4 DEF Updates, Newest, UpdatesAssumption, UpdatesTypeOK
    <3>2. UNCHANGED <<server, mark, arrived>>
      BY <1>4 DEF AcceptRegisters
    <3>3. QED
      BY <2>6, <3>1, <3>2, KnowledgeKept
  <2>8. QED
    BY <1>3, <2>2, <2>3, <2>5, <2>7
<1>5. CASE AcceptExpires
  <2>1. journal' = Closed(mark, "expired") /\ "expired" \in Final
    BY <1>2, <1>5 DEF AcceptExpires, Final
  <2>2. UpdatesTypeOK'
    BY <1>2, <1>5, <2>1, ClosedIs DEF AcceptExpires, UpdatesTypeOK, Sessions
  <2>3. /\ Quiet' /\ UNCHANGED detached /\ session' = "accept" /\ journal'.baseline = journal.baseline
        /\ journal'.offset = journal.offset
    BY <1>1, <1>2, <1>5, <2>1, ClosedIs DEF AcceptExpires
  <2>4. batch' = <<>> /\ journal'.offset > mark /\ UNCHANGED <<server, mark, arrived>>
    BY <1>2, <1>5, <2>3 DEF TakenOver, AcceptExpires
  <2>5. TakenOver'
    BY <1>1, <1>2, <2>3, <2>4 DEF TakenOver, PastBacklog, UpdatesTypeOK, Updates, UpdatesAssumption
  <2>6. \A u \in Updates : journal.status[u] # "none" => journal'.status[u] # "none"
    BY <1>2, <1>5, <2>1, KnownStays
  <2>7. Seen' /\ NothingForgotten'
    BY <2>3, <2>4, <2>6, KnowledgeKept
  <2>8. QED
    BY <1>3, <2>2, <2>3, <2>5, <2>7
<1>6. CASE AcceptEnds
  <2>1. /\ journal'.offset = journal.offset /\ journal'.status = journal.status /\ journal'.baseline
        /\ journal' \in [offset: 0..MaxUpdate + 1, baseline: BOOLEAN,
                         status: [Updates -> Final \cup {"none", "received"}]]
    BY <1>6 DEF AcceptEnds, UpdatesTypeOK
  <2>2. UpdatesTypeOK'
    BY <1>6, <2>1 DEF AcceptEnds, UpdatesTypeOK, Sessions
  <2>3. Quiet' /\ UNCHANGED detached /\ session' = "poll"
    BY <1>1, <1>6, <2>1 DEF AcceptEnds
  <2>4. TakenOver'
    BY <1>1, <1>6, <2>1 DEF TakenOver, PastBacklog, AcceptEnds
  <2>5. Seen' /\ NothingForgotten'
    BY <1>6, <2>1 DEF Seen, NothingForgotten, AcceptEnds
  <2>6. QED
    BY <1>3, <1>6, <2>2, <2>3, <2>4, <2>5
<1>7. QED
  BY <1>4, <1>5, <1>6

-----------------------------------------------------------------------------
(* The receipt of a batch                                                  *)
LEMMA PollKeeps ==
  ASSUME UpdatesAssumption, UpdatesInv, Poll
  PROVE  UpdatesInv'
<1> USE DEF UpdatesInv, UpdatesSafe, Poll
<1>1. /\ batch' \in [1..Cardinality(server') -> server']
      /\ \A u \in server' : \E i \in DOMAIN batch' : batch'[i] = u
      /\ \A i, j \in DOMAIN batch' : i < j => batch'[i] < batch'[j]
  BY DEF InOrder
<1>2. server' \subseteq server /\ server' \subseteq Updates /\ IsFiniteSet(server')
  <2>1. server \subseteq 1..arrived /\ arrived \in Nat /\ 1..arrived \subseteq Updates
    BY DEF UpdatesAssumption, UpdatesTypeOK, Updates
  <2>2. IsFiniteSet(1..arrived)
    BY <2>1, FS_Interval
  <2>3. server' \subseteq server
    OBVIOUS
  <2>4. QED
    BY <2>1, <2>2, <2>3, FS_Subset
<1>3. Cardinality(server') \in Nat
  BY <1>2, FS_CardinalityType
<1>4. batch' \in Seq(Updates) /\ \A i \in DOMAIN batch' : batch'[i] \in server'
  <2>1. batch' \in [1..Cardinality(server') -> Updates]
    BY <1>1, <1>2
  <2>2. batch' \in Seq(Updates)
    BY <1>3, <2>1, SeqDef
  <2>3. QED
    BY <1>1, <2>2
<1>5. UpdatesTypeOK'
  BY <1>2, <1>4 DEF UpdatesTypeOK, Sessions
<1>6. TakenOver'
  BY <1>2 DEF TakenOver, PastBacklog
<1>7. Fetched'
  <2> SUFFICES ASSUME NEW i \in DOMAIN batch'
               PROVE  /\ mark < batch'[i] /\ batch'[i] <= arrived
                      /\ \A w \in Updates : mark < w /\ w < batch'[i] =>
                           journal.status[w] # "none" \/ \E j \in DOMAIN batch' : j < i /\ batch'[j] = w
    BY DEF Fetched
  <2>1. batch'[i] \in server' /\ batch'[i] \in 1..arrived /\ batch'[i] \in Updates
    BY <1>2, <1>4 DEF UpdatesTypeOK
  <2>2. mark < batch'[i] /\ batch'[i] <= arrived
    BY <2>1 DEF TakenOver, PastBacklog, UpdatesTypeOK, UpdatesAssumption, Updates
  <2>3. ASSUME NEW w \in Updates, mark < w, w < batch'[i], journal.status[w] = "none"
        PROVE  \E j \in DOMAIN batch' : j < i /\ batch'[j] = w
    <3>1. w \in server
      BY <2>1, <2>3 DEF NothingForgotten, UpdatesTypeOK, UpdatesAssumption, Updates
    <3>2. w >= journal.offset
      BY <2>3 DEF Seen, UpdatesTypeOK, UpdatesAssumption, Updates
    <3>3. w \in server'
      BY <3>1, <3>2
    <3>4. PICK j \in DOMAIN batch' : batch'[j] = w
      BY <1>1, <3>3
    <3>5. i \in Nat /\ j \in Nat
      BY <1>1, <1>3
    <3>6. ~ (i < j) /\ i # j
      BY <1>1, <2>1, <2>3, <3>4 DEF Updates
    <3>7. QED
      BY <3>4, <3>5, <3>6
  <2>4. QED
    BY <2>2, <2>3
<1>8. (Seen /\ Putting /\ Queued /\ Handled /\ Acted)'
  BY DEF Seen, Putting, Queued, Handled, Acted, Attached, Awaiting, After
<1>9. (ActedOnce /\ ChatOrder /\ BacklogSilent)'
  BY DEF ActedOnce, IsInjective, ChatOrder, BacklogSilent
<1>10. NothingForgotten'
  BY DEF NothingForgotten, Seen, UpdatesTypeOK, UpdatesAssumption, Updates
<1>11. QED
  BY <1>5, <1>6, <1>7, <1>8, <1>9, <1>10

(* The batch without its first update, once that one is known             *)
LEMMA TailFetched ==
  ASSUME Fetched, session \in {"receive", "put"}, batch \in Seq(Updates), batch # <<>>
  PROVE  \A i \in DOMAIN Tail(batch) :
           /\ mark < Tail(batch)[i] /\ Tail(batch)[i] <= arrived
           /\ \A w \in Updates : mark < w /\ w < Tail(batch)[i] =>
                \/ journal.status[w] # "none" \/ w = batch[1]
                \/ \E j \in DOMAIN Tail(batch) : j < i /\ Tail(batch)[j] = w
<1> TAKE i \in DOMAIN Tail(batch)
<1>1. i + 1 \in DOMAIN batch /\ Tail(batch)[i] = batch[i + 1] /\ i \in Nat
  BY TailIs
<1>2. mark < batch[i + 1] /\ batch[i + 1] <= arrived
  BY <1>1 DEF Fetched
<1>3. ASSUME NEW w \in Updates, mark < w, w < batch[i + 1], journal.status[w] = "none", w # batch[1]
      PROVE  \E j \in DOMAIN Tail(batch) : j < i /\ Tail(batch)[j] = w
  <2>1. PICK k \in DOMAIN batch : k < i + 1 /\ batch[k] = w
    BY <1>1, <1>3 DEF Fetched
  <2>2. k # 1 /\ k \in Nat /\ k >= 1 /\ k - 1 \in DOMAIN Tail(batch) /\ k - 1 < i /\ (k - 1) + 1 = k
    BY <1>1, <1>3, <2>1, TailIs
  <2>3. Tail(batch)[k - 1] = w
    BY <2>1, <2>2, TailIs
  <2>4. QED
    BY <2>2, <2>3
<1>4. QED
  BY <1>1, <1>2, <1>3

LEMMA RegistersKeeps ==
  ASSUME UpdatesAssumption, UpdatesInv, Registers
  PROVE  UpdatesInv'
<1> USE DEF UpdatesInv, UpdatesSafe
<1> PICK u \in Updates : u = Head(batch)
  BY TailIs DEF Registers, UpdatesTypeOK
<1>1. /\ session = "receive" /\ batch # <<>> /\ journal' = Registered(u)
      /\ UNCHANGED <<arrived, server, stale, work, doing, detached, acts, mark, bound>>
  BY DEF Registers
<1>2. /\ 1 \in DOMAIN batch /\ u = batch[1] /\ u \in Updates
      /\ Tail(batch) \in Seq(Updates) /\ \A i \in DOMAIN Tail(batch) : i + 1 \in DOMAIN batch /\ Tail(batch)[i] = batch[i + 1]
  BY <1>1, TailIs DEF UpdatesTypeOK
<1>3. /\ journal' \in [offset: 0..MaxUpdate + 1, baseline: BOOLEAN,
                        status: [Updates -> Final \cup {"none", "received"}]]
      /\ journal'.baseline = journal.baseline
      /\ journal'.offset = Newest(journal.offset, u + 1)
      /\ journal'.status[u] = IF journal.status[u] = "none" THEN "received" ELSE journal.status[u]
      /\ \A w \in Updates \ {u} : journal'.status[w] = journal.status[w]
  BY <1>1, <1>2, RegisteredIs
<1>4. \/ journal.status[u] = "none" /\ session' = "put" /\ batch' = batch
      \/ journal.status[u] # "none" /\ session' = "receive" /\ batch' = Tail(batch)
  BY DEF Registers
<1>5. /\ mark \in Nat /\ arrived \in Nat /\ journal.offset \in Nat /\ Updates \subseteq Nat
      /\ journal.offset <= arrived + 1 /\ mark <= arrived
      /\ \A i \in DOMAIN work : work[i] \in Updates /\ work[i] \in Nat
      /\ \A i \in DOMAIN acts : acts[i] \in Updates /\ acts[i] \in Nat
  BY Numbers DEF TakenOver
<1>6. /\ journal.baseline /\ PastBacklog /\ mark < u /\ u <= arrived
      /\ \A w \in Updates : mark < w /\ w < u => journal.status[w] # "none"
  <2>1. \A j \in DOMAIN batch : ~ (j < 1)
    BY DEF UpdatesTypeOK
  <2>2. QED
    BY <1>1, <1>2, <2>1 DEF TakenOver, Fetched
<1>7. \A w \in Updates : journal.status[w] # "none" => journal'.status[w] # "none"
  BY <1>3
<1>8. journal'.status[u] # "none"
  BY <1>3
<1>9. /\ journal'.offset >= journal.offset /\ journal'.offset > u /\ journal'.offset <= arrived + 1
      /\ journal'.offset = journal.offset \/ journal'.offset = u + 1
  BY <1>2, <1>3, <1>5, <1>6 DEF Newest
<1>10. UpdatesTypeOK'
  BY <1>1, <1>2, <1>3, <1>4 DEF UpdatesTypeOK, Sessions
<1>11. TakenOver'
  <2>0. server \subseteq 1..arrived
    BY DEF UpdatesTypeOK
  <2> PICK past \in Nat : past = journal'.offset /\ past >= journal.offset
    BY <1>3, <1>5, <1>9 DEF Newest
  <2>1. ASSUME NEW w \in server
        PROVE  w > mark \/ w < journal'.offset
    <3> PICK was \in Nat : was = journal.offset /\ past >= was
      BY <1>5
    <3>1. w \in Nat /\ (w > mark \/ w < was)
      BY <2>0, <1>5, <1>6 DEF PastBacklog
    <3> QED
      BY <3>1
  <2>2. QED
    BY <1>1, <1>3, <1>4, <1>5, <1>6, <1>9, <2>1 DEF TakenOver, PastBacklog
<1>12. Fetched'
  <2>1. CASE batch' = batch
    BY <1>1, <1>4, <1>7, <2>1 DEF Fetched
  <2>2. CASE batch' = Tail(batch) /\ session' = "receive"
    <3>1. \A i \in DOMAIN Tail(batch) :
            /\ mark < Tail(batch)[i] /\ Tail(batch)[i] <= arrived
            /\ \A w \in Updates : mark < w /\ w < Tail(batch)[i] =>
                 \/ journal.status[w] # "none" \/ w = u
                 \/ \E k \in DOMAIN Tail(batch) : k < i /\ Tail(batch)[k] = w
      BY <1>1, <1>2, TailFetched DEF UpdatesTypeOK
    <3>2. QED
      <4>1. \A w \in Updates : journal.status[w] # "none" \/ w = u => journal'.status[w] # "none"
        BY <1>7, <1>8
      <4> QED
        BY <1>1, <2>2, <3>1, <4>1 DEF Fetched
  <2>3. QED
    BY <1>4, <2>1, <2>2
<1>13. Seen' /\ NothingForgotten'
  <2>1. ASSUME NEW w \in Updates, mark < w, w < journal'.offset, ~ (w < journal.offset)
        PROVE  journal'.status[w] # "none"
    <3>1. w \in Nat /\ u \in Nat /\ (w < u \/ w = u)
      BY <1>5, <1>9, <2>1
    <3>2. QED
      BY <1>6, <1>7, <1>8, <2>1, <3>1
  <2>2. QED
    BY <1>1, <1>7, <2>1, KnowledgeKept
<1>14. ASSUME NEW w \in Updates, Awaiting(w) PROVE Awaiting(w)'
  <2>1. journal.status[w] = "received" => journal'.status[w] = "received"
    BY <1>3
  <2> QED
    BY <1>1, <1>5, <1>9, <1>14, <2>1 DEF Awaiting
<1>15. Putting'
  <2> SUFFICES ASSUME journal.status[u] = "none", batch' = batch
               PROVE  /\ batch # <<>> /\ Awaiting(u)' /\ After(u)
                      /\ \A i \in DOMAIN work : work[i] < u
    BY <1>1, <1>2, <1>4 DEF Putting, After, Awaiting
  <2>1. journal.offset <= u
    BY <1>2, <1>5, <1>6 DEF Seen
  <2>2. \A i \in DOMAIN work : work[i] \in Updates /\ work[i] < u
    <3>1. ASSUME NEW i \in DOMAIN work
          PROVE  work[i] \in Updates /\ work[i] < u
      <4>1. work[i] \in Updates /\ work[i] < journal.offset
        BY <1>5 DEF Queued, Awaiting
      <4>2. QED
        BY <1>5, <2>1, <4>1
    <3>2. QED
      BY <3>1
  <2>3. After(u)
    <3>1. ASSUME NEW i \in DOMAIN acts
          PROVE  acts[i] < u
      <4>1. acts[i] \in Updates /\ acts[i] < journal.offset
        BY <1>5 DEF Acted
      <4>2. QED
        BY <1>5, <2>1, <4>1
    <3>2. ASSUME NEW v \in Updates, doing[v] # "none"
          PROVE  v < u
      <4>1. v < journal.offset
        BY <3>2 DEF Handled, Awaiting
      <4>2. QED
        BY <1>5, <2>1, <4>1
    <3>3. QED
      BY <3>1, <3>2 DEF After
  <2>4. Awaiting(u)'
    BY <1>1, <1>2, <1>3, <1>6, <1>9 DEF Awaiting
  <2>5. QED
    BY <1>1, <2>2, <2>3, <2>4
<1>16. Queued'
  BY <1>1, <1>14 DEF Queued, After, UpdatesTypeOK
<1>17. Handled'
  BY <1>1, <1>14 DEF Handled, Attached
<1>18. (Acted /\ ActedOnce /\ ChatOrder /\ BacklogSilent)'
  <2>1. ASSUME NEW i \in DOMAIN acts
        PROVE  acts[i] < journal'.offset
    <3>1. acts[i] \in Nat /\ acts[i] < journal.offset
      BY <1>5 DEF Acted
    <3>2. QED
      BY <1>2, <1>5, <1>9, <3>1
  <2>2. QED
    BY <1>1, <2>1 DEF Acted, ActedOnce, IsInjective, ChatOrder, BacklogSilent
<1>19. QED
  BY <1>10, <1>11, <1>12, <1>13, <1>15, <1>16, <1>17, <1>18

LEMMA PutsKeeps ==
  ASSUME UpdatesAssumption, UpdatesInv, Puts
  PROVE  UpdatesInv'
<1> USE DEF UpdatesInv, UpdatesSafe
<1>1. /\ session = "put" /\ Len(work) < WorkLimit /\ session' = "receive" /\ batch # <<>>
      /\ Awaiting(batch[1]) /\ After(batch[1]) /\ \A i \in DOMAIN work : work[i] < batch[1]
      /\ UNCHANGED <<arrived, server, stale, journal, doing, detached, acts, mark, bound>>
  BY DEF Puts, Putting
<1> PICK u \in Updates : u = Head(batch) /\ u = batch[1]
  BY <1>1, TailIs DEF UpdatesTypeOK
<1>2. /\ Tail(batch) \in Seq(Updates) /\ batch' = Tail(batch)
      /\ \A i \in DOMAIN Tail(batch) : i + 1 \in DOMAIN batch /\ Tail(batch)[i] = batch[i + 1]
  BY <1>1, TailIs DEF UpdatesTypeOK, Puts
<1>3. /\ work' \in Seq(Updates) /\ Len(work') = Len(work) + 1
      /\ \A i \in DOMAIN work' : (i \in DOMAIN work /\ work'[i] = work[i]) \/ (i = Len(work) + 1 /\ work'[i] = u)
  BY <1>1, AppendIs DEF UpdatesTypeOK, Puts
<1>4. Len(work) \in Nat /\ DOMAIN work = 1..Len(work)
  BY DEF UpdatesTypeOK
<1>5. UpdatesTypeOK'
  BY <1>1, <1>2, <1>3, <1>4 DEF UpdatesTypeOK, Sessions, UpdatesAssumption
<1>6. TakenOver'
  BY <1>1 DEF TakenOver, PastBacklog
<1>7. Fetched'
  <2>1. \A i \in DOMAIN Tail(batch) :
          /\ mark < Tail(batch)[i] /\ Tail(batch)[i] <= arrived
          /\ \A w \in Updates : mark < w /\ w < Tail(batch)[i] =>
               journal.status[w] # "none" \/ \E j \in DOMAIN Tail(batch) : j < i /\ Tail(batch)[j] = w
    BY <1>1, TailFetched, ZenonT(30) DEF Awaiting, UpdatesTypeOK
  <2>2. QED
    BY <1>1, <1>2, <2>1 DEF Fetched
<1>8. (Seen /\ NothingForgotten /\ Putting /\ Handled /\ Acted /\ ActedOnce /\ ChatOrder /\ BacklogSilent)'
  BY <1>1 DEF Seen, NothingForgotten, Putting, Handled, Attached, Awaiting, Acted, ActedOnce, IsInjective, ChatOrder, BacklogSilent
<1>9. Queued'
  <2>1. \A i \in DOMAIN work' : Awaiting(work'[i]) /\ After(work'[i])
    BY <1>1, <1>3 DEF Queued
  <2>2. \A i, j \in DOMAIN work' : i < j => work'[i] < work'[j]
    BY <1>1, <1>3, <1>4 DEF Queued
  <2>3. QED
    BY <1>1, <2>1, <2>2 DEF Queued, Awaiting, After
<1>10. QED
  BY <1>5, <1>6, <1>7, <1>8, <1>9

LEMMA RefusesKeeps ==
  ASSUME UpdatesAssumption, UpdatesInv, Refuses
  PROVE  UpdatesInv'
<1> USE DEF UpdatesInv, UpdatesSafe
<1>1. /\ session = "put" /\ session' = "receive" /\ batch # <<>>
      /\ Awaiting(batch[1]) /\ After(batch[1]) /\ \A i \in DOMAIN work : work[i] < batch[1]
      /\ UNCHANGED <<arrived, server, stale, work, doing, detached, acts, mark, bound>>
  BY DEF Refuses, Putting
<1> PICK u \in Updates : u = Head(batch) /\ u = batch[1]
  BY <1>1, TailIs DEF UpdatesTypeOK
<1>2. /\ Tail(batch) \in Seq(Updates) /\ batch' = Tail(batch)
  BY <1>1, TailIs DEF UpdatesTypeOK, Refuses
<1>3. journal' = Closed(u, "failed") /\ "failed" \in Final
  BY <1>1 DEF Refuses, Final
<1>4. /\ journal' \in [offset: 0..MaxUpdate + 1, baseline: BOOLEAN,
                        status: [Updates -> Final \cup {"none", "received"}]]
      /\ journal'.baseline = journal.baseline /\ journal'.offset = journal.offset
      /\ journal'.status[u] = "failed"
      /\ \A w \in Updates \ {u} : journal'.status[w] = journal.status[w]
  BY <1>3, ClosedIs
<1>5. \A w \in Updates : journal.status[w] # "none" => journal'.status[w] # "none"
  BY <1>4
<1>6. UpdatesTypeOK'
  BY <1>1, <1>2, <1>4 DEF UpdatesTypeOK, Sessions
<1>7. TakenOver'
  BY <1>1, <1>4 DEF TakenOver, PastBacklog
<1>8. Fetched'
  <2>1. \A i \in DOMAIN Tail(batch) :
          /\ mark < Tail(batch)[i] /\ Tail(batch)[i] <= arrived
          /\ \A w \in Updates : mark < w /\ w < Tail(batch)[i] =>
               journal.status[w] # "none" \/ \E j \in DOMAIN Tail(batch) : j < i /\ Tail(batch)[j] = w
    BY <1>1, TailFetched, ZenonT(30) DEF Awaiting, UpdatesTypeOK
  <2>2. /\ UNCHANGED <<mark, arrived>> /\ batch' = Tail(batch)
    BY <1>1, <1>2 DEF Refuses
  <2>3. \A i \in DOMAIN batch' :
          /\ mark < batch'[i] /\ batch'[i] <= arrived
          /\ \A w \in Updates : mark < w /\ w < batch'[i] =>
               journal'.status[w] # "none" \/ \E j \in DOMAIN batch' : j < i /\ batch'[j] = w
    BY <1>5, <2>1, <2>2
  <2>4. QED
    BY <2>2, <2>3 DEF Fetched
<1>9. Seen' /\ NothingForgotten'
  BY <1>1, <1>4, <1>5, KnowledgeKept
<1>10. \A w \in Updates : Awaiting(w) /\ w # u => Awaiting(w)'
  BY <1>1, <1>4 DEF Awaiting
<1>11. /\ \A i \in DOMAIN work : work[i] \in Updates /\ work[i] # u
       /\ \A w \in Updates : doing[w] # "none" => w # u
  BY <1>1, Numbers DEF After
<1>12. Putting'
  BY <1>1 DEF Putting
<1>13. Queued'
  BY <1>1, <1>10, <1>11 DEF Queued, After
<1>14. Handled'
  BY <1>1, <1>10, <1>11 DEF Handled, Attached
<1>15. (Acted /\ ActedOnce /\ ChatOrder /\ BacklogSilent)'
  BY <1>1, <1>4 DEF Acted, ActedOnce, IsInjective, ChatOrder, BacklogSilent
<1>16. QED
  BY <1>6, <1>7, <1>8, <1>9, <1>12, <1>13, <1>14, <1>15

LEMMA ReceivedKeeps ==
  ASSUME UpdatesAssumption, UpdatesInv, Received
  PROVE  UpdatesInv'
<1> USE DEF UpdatesInv, UpdatesSafe, Received
<1>1. UpdatesTypeOK'
  BY DEF UpdatesTypeOK, Sessions
<1>2. QED
  BY <1>1 DEF TakenOver, PastBacklog, Fetched, Seen, Putting, Queued, Handled, Acted, Attached, Awaiting, After,
              ActedOnce, IsInjective, ChatOrder, BacklogSilent, NothingForgotten, UpdatesTypeOK

-----------------------------------------------------------------------------
(* The handlers                                                            *)
LEMMA TakesKeeps ==
  ASSUME UpdatesAssumption, UpdatesInv, Takes
  PROVE  UpdatesInv'
<1> USE DEF UpdatesInv, UpdatesSafe
<1>1. /\ work # <<>> /\ work' = Tail(work)
      /\ UNCHANGED <<arrived, server, stale, journal, session, batch, detached, acts, mark, bound>>
  BY DEF Takes
<1> PICK u \in Updates : u = Head(work) /\ u = work[1]
  BY <1>1, TailIs DEF UpdatesTypeOK
<1>2. /\ 1 \in DOMAIN work /\ Tail(work) \in Seq(Updates) /\ Len(Tail(work)) = Len(work) - 1
      /\ \A i \in DOMAIN Tail(work) : i + 1 \in DOMAIN work /\ Tail(work)[i] = work[i + 1]
      /\ Len(work) \in Nat /\ Len(work) <= WorkLimit /\ DOMAIN Tail(work) \subseteq Nat \ {0}
  BY <1>1, TailIs DEF UpdatesTypeOK
<1>3. /\ doing \in [Updates -> Doings] /\ doing' = [doing EXCEPT ![u] = "wait"]
      /\ doing' \in [Updates -> Doings] /\ doing'[u] = "wait" /\ \A w \in Updates \ {u} : doing'[w] = doing[w]
  BY DEF Takes, UpdatesTypeOK, Doings
<1>4. /\ Awaiting(u) /\ After(u) /\ doing[u] = "none"
      /\ \A i \in DOMAIN Tail(work) :
           Awaiting(Tail(work)[i]) /\ After(Tail(work)[i]) /\ u < Tail(work)[i]
  <2>1. Awaiting(u) /\ After(u)
    BY <1>2 DEF Queued
  <2>2. ~ (u < u)
    BY DEF Updates
  <2>3. doing[u] = "none"
    BY <2>1, <2>2 DEF After
  <2>4. ASSUME NEW i \in DOMAIN Tail(work)
        PROVE  Awaiting(Tail(work)[i]) /\ After(Tail(work)[i]) /\ u < Tail(work)[i]
    BY <1>2, <2>4 DEF Queued
  <2>5. QED
    BY <2>1, <2>3, <2>4
<1>12. \A w \in Updates : After(w) /\ u < w => After(w)'
  BY <1>1, <1>3 DEF After
<1>5. UpdatesTypeOK'
  <2>1. detached' \subseteq {w \in Updates : doing'[w] # "none"}
    BY <1>1, <1>3 DEF UpdatesTypeOK
  <2>2. Len(work') <= WorkLimit
    BY <1>1, <1>2 DEF UpdatesAssumption
  <2>3. QED
    BY <1>1, <1>2, <1>3, <2>1, <2>2 DEF UpdatesTypeOK
<1>6. TakenOver'
  BY <1>1 DEF TakenOver, PastBacklog
<1>7. (Fetched /\ Seen /\ NothingForgotten /\ Acted /\ ActedOnce /\ ChatOrder /\ BacklogSilent)'
  BY <1>1 DEF Fetched, Seen, NothingForgotten, Acted, ActedOnce, IsInjective, ChatOrder, BacklogSilent
<1>8. Putting'
  <2> SUFFICES ASSUME session = "put"
               PROVE  /\ batch # <<>> /\ Awaiting(batch[1]) /\ After(batch[1])'
                      /\ \A i \in DOMAIN Tail(work) : Tail(work)[i] < batch[1]
    BY <1>1 DEF Putting, Awaiting, After
  <2>1. /\ batch # <<>> /\ Awaiting(batch[1]) /\ After(batch[1]) /\ \A i \in DOMAIN work : work[i] < batch[1]
    BY DEF Putting
  <2>2. After(batch[1])'
    BY <1>1, <1>2, <1>12, <2>1, Numbers, TailIs DEF UpdatesTypeOK
  <2>3. QED
    BY <1>2, <2>1, <2>2
<1>9. Queued'
  <2>1. ASSUME NEW i \in DOMAIN work'
        PROVE  (Awaiting(work[i]) /\ After(work[i]))'
    <3>1. PICK w \in Updates : w = work'[i] /\ Awaiting(w) /\ After(w) /\ u < w
      BY <1>1, <1>2, <1>4
    <3>2. After(w)' /\ Awaiting(w)'
      BY <1>1, <1>12, <3>1 DEF Awaiting
    <3>3. QED
      BY <3>1, <3>2 DEF After, Awaiting
  <2>2. \A i, j \in DOMAIN Tail(work) : i < j => Tail(work)[i] < Tail(work)[j]
    BY <1>2 DEF Queued
  <2>3. QED
    BY <1>1, <2>1, <2>2 DEF Queued
<1>10. Handled'
  <2>1. \A w \in Updates : doing'[w] # "none" => Awaiting(w)'
    BY <1>1, <1>3, <1>4 DEF Handled, Awaiting
  <2>2. Attached' = Attached \cup {u}
    BY <1>1, <1>3, <1>4 DEF Attached, UpdatesTypeOK
  <2>3. \A w \in Attached' : doing'[w] \in {"wait", "run"} =>
          \A i \in DOMAIN acts : ChatOf[acts[i]] = ChatOf[w] => acts[i] < w
    BY <1>3, <1>4, <2>2 DEF Handled, After, Attached
  <2>4. ASSUME NEW w \in Attached', NEW v \in Attached', v < w, ChatOf[v] = ChatOf[w]
        PROVE  doing'[w] = "wait"
    <3>1. CASE w = u
      BY <1>3, <3>1
    <3>2. CASE w # u /\ v = u
      <4>1. w \in Updates /\ w < u
        BY <1>4, <2>2, <3>2 DEF After, Attached
      <4>2. QED
        BY <2>4, <3>2, <4>1 DEF Updates
    <3>3. CASE w # u /\ v # u
      BY <1>3, <2>2, <2>4, <3>3 DEF Handled, Attached
    <3>4. QED
      BY <3>1, <3>2, <3>3
  <2>5. QED
    BY <1>1, <2>1, <2>3, <2>4 DEF Handled
<1>11. QED
  BY <1>5, <1>6, <1>7, <1>8, <1>9, <1>10

(* A handler that goes on, or ends, and leaves the acts alone              *)
LEMMA ProceedsKeeps ==
  ASSUME UpdatesAssumption, UpdatesInv, NEW u \in Updates, doing[u] # "none", NEW to \in Doings \ {"wait"},
         doing' = [doing EXCEPT ![u] = to],
         UNCHANGED <<arrived, server, stale, session, batch, work, acts, mark, bound>>,
         to = "run" => doing[u] = "wait" /\ u \notin detached,
         to # "none" => UNCHANGED <<journal, detached>> /\ \A v \in Attached : v < u => ChatOf[v] # ChatOf[u],
         to = "none" => detached' = detached \ {u},
         journal' = journal \/ \E s \in Final : journal' = Closed(u, s) /\ to = "none"
  PROVE  UpdatesInv'
<1> USE DEF UpdatesInv, UpdatesSafe
<1>1. /\ doing \in [Updates -> Doings] /\ doing' \in [Updates -> Doings]
      /\ doing'[u] = to /\ \A w \in Updates \ {u} : doing'[w] = doing[w]
  BY DEF UpdatesTypeOK
<1>2. /\ journal' \in [offset: 0..MaxUpdate + 1, baseline: BOOLEAN,
                        status: [Updates -> Final \cup {"none", "received"}]]
      /\ journal'.baseline = journal.baseline /\ journal'.offset = journal.offset
      /\ \A w \in Updates \ {u} : journal'.status[w] = journal.status[w]
      /\ to # "none" => journal' = journal
  BY ClosedIs DEF UpdatesTypeOK
<1>3. \A w \in Updates : journal.status[w] # "none" => journal'.status[w] # "none"
  BY KnownStays
<1>4. journal.baseline
  BY DEF TakenOver
<1>5. UpdatesTypeOK'
  BY <1>1, <1>2 DEF UpdatesTypeOK
<1>6. TakenOver'
  BY <1>2, <1>4 DEF TakenOver, PastBacklog
<1>7. Fetched'
  BY <1>3 DEF Fetched
<1>8. Seen' /\ NothingForgotten'
  BY <1>2, <1>3, KnowledgeKept
<1>9. \A w \in Updates : Awaiting(w) /\ w # u => Awaiting(w)'
  BY <1>2 DEF Awaiting
<1>10. ASSUME NEW w \in Updates, After(w)
       PROVE  w # u /\ After(w)'
  <2>1. ~ (u < u)
    BY DEF Updates
  <2>2. QED
    BY <1>1, <1>10, <2>1 DEF After
<1>11. Putting' /\ Queued'
  BY <1>9, <1>10, Numbers DEF Putting, Queued, UpdatesTypeOK
<1>12. Handled'
  <2>1. \A w \in Updates : doing'[w] # "none" => Awaiting(w)'
    BY <1>1, <1>2, <1>9 DEF Handled, Awaiting
  <2>2. \A w \in Attached' : w \in Attached /\ (w = u => to # "none")
    BY <1>1 DEF Attached, UpdatesTypeOK
  <2>3. \A w \in Attached' : doing'[w] \in {"wait", "run"} =>
          \A i \in DOMAIN acts : ChatOf[acts[i]] = ChatOf[w] => acts[i] < w
    BY <1>1, <2>2 DEF Handled, Attached
  <2>4. \A w, v \in Attached' : v < w /\ ChatOf[v] = ChatOf[w] => doing'[w] = "wait"
    BY <1>1, <2>2 DEF Handled, Attached
  <2>5. QED
    BY <2>1, <2>3, <2>4 DEF Handled
<1>13. (Acted /\ ActedOnce /\ ChatOrder /\ BacklogSilent)'
  BY <1>2 DEF Acted, ActedOnce, IsInjective, ChatOrder, BacklogSilent
<1>14. QED
  BY <1>5, <1>6, <1>7, <1>8, <1>11, <1>12, <1>13

LEMMA HandlersKeep ==
  ASSUME UpdatesAssumption, UpdatesInv, NEW u \in Updates, Decides(u) \/ Finishes(u) \/ Fails(u) \/ GivesUp(u)
  PROVE  UpdatesInv'
<1>1. UpdatesTypeOK /\ Handled
  BY DEF UpdatesInv, UpdatesSafe
<1>2. CASE Decides(u)
  <2>1. PICK to \in {"ignored", "expired", "run"} : doing' = [doing EXCEPT ![u] = to]
    BY <1>2 DEF Decides
  <2>2. to \in Doings \ {"wait"} /\ to # "none"
    BY DEF Doings
  <2>3. /\ doing[u] = "wait" /\ u \notin detached
        /\ \A v \in Attached : v < u => ChatOf[v] # ChatOf[u]
        /\ UNCHANGED <<arrived, server, stale, journal, session, batch, work, detached, acts, mark, bound>>
    BY <1>2 DEF Decides, Turn
  <2>4. QED
    BY <2>1, <2>2, <2>3, ProceedsKeeps
<1>3. CASE Finishes(u)
  <2>1. /\ doing[u] # "none" /\ doing' = [doing EXCEPT ![u] = "none"] /\ u \notin detached
        /\ UNCHANGED <<arrived, server, stale, session, batch, work, detached, acts, mark, bound>>
    BY <1>3 DEF Finishes
  <2>2. \E s \in Final : journal' = Closed(u, s)
    BY <1>3 DEF Finishes, Final
  <2>3. "none" \in Doings \ {"wait"} /\ detached' = detached \ {u}
    BY <2>1 DEF Doings
  <2>4. QED
    BY <2>1, <2>2, <2>3, ProceedsKeeps
<1>4. CASE Fails(u)
  <2>1. /\ doing[u] # "none" /\ doing' = [doing EXCEPT ![u] = "none"] /\ u \notin detached
        /\ UNCHANGED <<arrived, server, stale, session, batch, work, detached, acts, mark, bound>>
    BY <1>4 DEF Fails
  <2>2. \E s \in Final : journal' = Closed(u, s)
    BY <1>4 DEF Fails, Final
  <2>3. "none" \in Doings \ {"wait"} /\ detached' = detached \ {u}
    BY <2>1 DEF Doings
  <2>4. QED
    BY <2>1, <2>2, <2>3, ProceedsKeeps
<1>5. CASE GivesUp(u)
  <2>1. /\ doing[u] # "none" /\ doing' = [doing EXCEPT ![u] = "none"] /\ detached' = detached \ {u}
        /\ UNCHANGED <<arrived, server, stale, journal, session, batch, work, acts, mark, bound>>
    BY <1>1, <1>5 DEF GivesUp, UpdatesTypeOK
  <2>2. "none" \in Doings \ {"wait"}
    BY DEF Doings
  <2>3. QED
    BY <2>1, <2>2, ProceedsKeeps
<1>6. QED
  BY <1>2, <1>3, <1>4, <1>5

(* An update is newer than every act of its chat when it is acted on, and  *)
(* the other handlers of its chat that are to act are newer still.         *)
LEMMA ActsKeeps ==
  ASSUME UpdatesAssumption, UpdatesInv, NEW u \in Updates, Acts(u)
  PROVE  UpdatesInv'
<1> USE DEF UpdatesInv, UpdatesSafe
<1>1. /\ doing[u] = "run" /\ u \notin detached /\ u \in Attached
      /\ UNCHANGED <<arrived, server, stale, journal, session, batch, work, detached, mark, bound>>
  BY DEF Acts, Attached
<1>2. /\ doing \in [Updates -> Doings] /\ doing' \in [Updates -> Doings]
      /\ doing'[u] = "acted" /\ \A w \in Updates \ {u} : doing'[w] = doing[w]
  BY DEF Acts, UpdatesTypeOK, Doings
<1>3. /\ acts' \in Seq(Updates) /\ Len(acts) \in Nat /\ DOMAIN acts = 1..Len(acts) /\ DOMAIN acts' = 1..Len(acts) + 1
      /\ \A i \in DOMAIN acts : acts'[i] = acts[i]
      /\ acts'[Len(acts) + 1] = u
      /\ \A i \in DOMAIN acts' : i \in DOMAIN acts \/ i = Len(acts) + 1
  BY AppendIs DEF Acts, UpdatesTypeOK
<1>4. /\ Awaiting(u) /\ \A i \in DOMAIN acts : ChatOf[acts[i]] = ChatOf[u] => acts[i] < u
  BY <1>1 DEF Handled, Attached
<1>5. UpdatesTypeOK'
  BY <1>1, <1>2, <1>3 DEF UpdatesTypeOK
<1>6. TakenOver'
  BY <1>1 DEF TakenOver, PastBacklog
<1>7. (Fetched /\ Seen /\ NothingForgotten)'
  BY <1>1 DEF Fetched, Seen, NothingForgotten
<1>8. \A w \in Updates : After(w) => After(w)'
  <2>1. ASSUME NEW w \in Updates, After(w)
        PROVE  After(w)'
    <3>1. u < w
      BY <1>1, <2>1 DEF After
    <3>2. QED
      BY <1>1, <1>2, <1>3, <2>1, <3>1 DEF After
  <2>2. QED
    BY <2>1
<1>9. Putting' /\ Queued'
  BY <1>1, <1>8, Numbers DEF Putting, Queued, Awaiting, UpdatesTypeOK
<1>10. Handled'
  <2>1. \A w \in Updates : doing'[w] # "none" => Awaiting(w)'
    BY <1>1, <1>2, <1>4 DEF Handled, Awaiting
  <2>2. Attached' = Attached
    BY <1>1, <1>2 DEF Attached
  <2>3. ASSUME NEW w \in Attached, doing'[w] \in {"wait", "run"}, NEW i \in DOMAIN acts', ChatOf[acts'[i]] = ChatOf[w]
        PROVE  acts'[i] < w
    <3>1. w # u /\ doing[w] = doing'[w] /\ w \in Updates
      BY <1>2, <2>3 DEF Attached
    <3>2. CASE i \in DOMAIN acts
      BY <1>3, <2>3, <3>1, <3>2 DEF Handled
    <3>3. CASE i = Len(acts) + 1
      <4>1. ~ (w < u)
        BY <1>1, <1>3, <2>3, <3>3 DEF Handled
      <4>2. QED
        BY <1>3, <3>1, <3>3, <4>1 DEF Updates
    <3>4. QED
      BY <1>3, <3>2, <3>3
  <2>4. \A w, v \in Attached : v < w /\ ChatOf[v] = ChatOf[w] => doing'[w] = "wait"
    BY <1>1, <1>2 DEF Handled, Attached
  <2>5. QED
    BY <2>1, <2>2, <2>3, <2>4 DEF Handled
<1>11. (Acted /\ BacklogSilent)'
  BY <1>1, <1>3, <1>4 DEF Acted, BacklogSilent, Awaiting
<1>12. ChatOrder'
  BY <1>3, <1>4 DEF ChatOrder
<1>13. ActedOnce'
  <2>1. \A i \in DOMAIN acts : acts[i] # u
    BY <1>4 DEF Updates
  <2>2. QED
    BY <1>3, <2>1 DEF ActedOnce, IsInjective
<1>14. QED
  BY <1>5, <1>6, <1>7, <1>9, <1>10, <1>11, <1>12, <1>13

-----------------------------------------------------------------------------
(* Ends of the session and deaths: the queue goes, and every handler but   *)
(* the detached ones; those are past their turn, and the handlers of a     *)
(* later session are newer.                                                *)
LEMMA EndsKeep ==
  ASSUME UpdatesAssumption, UpdatesInv, SessionEnds \/ Dies
  PROVE  UpdatesInv'
<1> USE DEF UpdatesInv, UpdatesSafe
<1>1. /\ session' = "off" /\ batch' = <<>> /\ work' = <<>>
      /\ UNCHANGED <<arrived, server, stale, journal, acts, mark>>
  BY DEF SessionEnds, Dies
<1>2. /\ doing' \in [Updates -> Doings] /\ \A u \in Updates : doing'[u] = "none" \/ doing'[u] = doing[u]
      /\ detached' \subseteq {u \in Updates : doing'[u] # "none"}
      /\ \A u \in Updates : doing'[u] # "none" => u \in detached'
  <2>1. CASE SessionEnds
    <3>1. PICK late \in SUBSET {u \in Attached : doing[u] # "wait"} :
            /\ detached' = detached \cup late
            /\ doing' = [u \in Updates |-> IF u \in detached' THEN doing[u] ELSE "none"]
      BY <2>1 DEF SessionEnds
    <3>2. doing \in [Updates -> Doings] /\ detached \subseteq {u \in Updates : doing[u] # "none"}
      BY DEF UpdatesTypeOK
    <3>3. detached' \subseteq {u \in Updates : doing[u] # "none"}
      BY <3>1, <3>2 DEF Attached
    <3>4. QED
      BY <3>1, <3>2, <3>3 DEF Doings
  <2>2. CASE Dies
    BY <2>2 DEF Dies, Doings
  <2>3. QED
    BY <2>1, <2>2
<1>3. bound' \in [ends: 0..Ends, crashes: 0..Crashes]
  <2>1. CASE SessionEnds
    <3>1. bound.ends \in 0..Ends /\ bound.ends > 0
      BY <2>1 DEF SessionEnds, UpdatesTypeOK
    <3>2. bound.ends - 1 \in 0..Ends
      BY <3>1 DEF UpdatesAssumption
    <3>3. bound' = [bound EXCEPT !.ends = bound.ends - 1]
      BY <2>1 DEF SessionEnds
    <3>4. QED
      BY <3>2, <3>3 DEF UpdatesTypeOK
  <2>2. CASE Dies
    <3>1. bound.crashes \in 0..Crashes /\ bound.crashes > 0
      BY <2>2 DEF Dies, UpdatesTypeOK
    <3>2. bound.crashes - 1 \in 0..Crashes
      BY <3>1 DEF UpdatesAssumption
    <3>3. bound' = [bound EXCEPT !.crashes = bound.crashes - 1]
      BY <2>2 DEF Dies
    <3>4. QED
      BY <3>2, <3>3 DEF UpdatesTypeOK
  <2>3. QED
    BY <2>1, <2>2
<1>4. UpdatesTypeOK'
  BY <1>1, <1>2, <1>3 DEF UpdatesTypeOK, Sessions, UpdatesAssumption
<1>5. TakenOver'
  BY <1>1, <1>2 DEF TakenOver, PastBacklog
<1>6. (Fetched /\ Putting /\ Queued)'
  BY <1>1 DEF Fetched, Putting, Queued
<1>7. (Seen /\ NothingForgotten /\ Acted /\ ActedOnce /\ ChatOrder /\ BacklogSilent)'
  BY <1>1 DEF Seen, NothingForgotten, Acted, ActedOnce, IsInjective, ChatOrder, BacklogSilent
<1>8. Handled'
  <2>1. Attached' = {}
    BY <1>2 DEF Attached
  <2>2. \A u \in Updates : doing'[u] # "none" => Awaiting(u)'
    BY <1>1, <1>2 DEF Handled, Awaiting
  <2>3. QED
    BY <2>1, <2>2 DEF Handled
<1>9. QED
  BY <1>4, <1>5, <1>6, <1>7, <1>8

-----------------------------------------------------------------------------
LEMMA UpdatesKept ==
  ASSUME UpdatesAssumption, UpdatesInv, [UpdatesNext]_uvars
  PROVE  UpdatesInv'
<1>1. CASE Takeover
  BY <1>1, StartsKeeps, BaselineKeeps, AcceptKeeps DEF Takeover
<1>2. CASE Poll \/ Receipt
  BY <1>2, PollKeeps, RegistersKeeps, PutsKeeps, RefusesKeeps, ReceivedKeeps DEF Receipt
<1>3. CASE Takes
  BY <1>3, TakesKeeps
<1>4. ASSUME NEW u \in Updates, Decides(u) \/ Acts(u) \/ Finishes(u) \/ Fails(u) \/ GivesUp(u)
      PROVE  UpdatesInv'
  BY <1>4, HandlersKeep, ActsKeeps
<1>5. CASE Arrives \/ Ages \/ SessionEnds \/ Dies
  BY <1>5, ServerKeeps, EndsKeep
<1>6. CASE UNCHANGED uvars
  BY <1>6 DEF uvars, UpdatesInv, UpdatesSafe, UpdatesTypeOK, TakenOver, PastBacklog, Fetched, Seen, Putting, Queued,
              Handled, Acted, Attached, Awaiting, After, ActedOnce, IsInjective, ChatOrder, BacklogSilent,
              NothingForgotten
<1>7. QED
  BY <1>1, <1>2, <1>3, <1>4, <1>5, <1>6 DEF UpdatesNext, Steps, Takeover, Receipt

(* Every update of the bot is executed once at most, in the order of its   *)
(* chat, never if it is older than the takeover, and what the server       *)
(* forgets is in the journal (services/telegram.py, _poll,                 *)
(* process_updates, _handle_registered).                                   *)
THEOREM UpdatesAreSafe ==
  ASSUME UpdatesAssumption
  PROVE  UpdatesSpec => []UpdatesSafe
<1>1. UpdatesInit => UpdatesInv
  BY UpdatesAtFirst
<1>2. UpdatesInv /\ [UpdatesNext]_uvars => UpdatesInv'
  BY UpdatesKept
<1>3. UpdatesInv => UpdatesSafe
  BY DEF UpdatesInv
<1>4. QED
  BY <1>1, <1>2, <1>3, PTL DEF UpdatesSpec

-----------------------------------------------------------------------------
(* Whoever closes an update holds the only handler of it, or is the        *)
(* poller that has just registered it.                                     *)
LEMMA StepKeepsFinal ==
  ASSUME UpdatesAssumption, UpdatesInv, UpdatesNext
  PROVE  FinalStays
<1> USE DEF UpdatesInv, UpdatesSafe
<1>1. ASSUME NEW u \in Updates, journal' = Registered(u)
      PROVE  FinalStays
  <2>1. /\ journal'.status[u] = IF journal.status[u] = "none" THEN "received" ELSE journal.status[u]
        /\ \A w \in Updates \ {u} : journal'.status[w] = journal.status[w]
    BY <1>1, RegisteredIs
  <2>2. QED
    BY <2>1 DEF FinalStays, Final
<1>2. ASSUME NEW u \in Updates, NEW s \in Final, journal' = Closed(u, s),
             journal.status[u] \in Final => journal.status[u] = s
      PROVE  FinalStays
  <2>1. journal'.status[u] = s /\ \A w \in Updates \ {u} : journal'.status[w] = journal.status[w]
    BY <1>2, ClosedIs
  <2>2. QED
    BY <1>2, <2>1 DEF FinalStays
<1>3. CASE AcceptRegisters \/ Registers
  <2>1. Head(batch) \in Updates /\ journal' = Registered(Head(batch))
    BY <1>3, TailIs DEF AcceptRegisters, Registers, UpdatesTypeOK
  <2>2. QED
    BY <1>1, <2>1
<1>4. CASE AcceptExpires
  <2>1. ~ journal.baseline /\ batch # <<>> /\ batch \in Seq(Updates)
    <3>1. batch = <<mark>> /\ ~ journal.baseline
      BY <1>4 DEF AcceptExpires, TakenOver
    <3>2. QED
      BY <3>1 DEF UpdatesTypeOK
  <2>2. Head(batch) \in Updates /\ journal' = Closed(Head(batch), "expired")
    BY <1>4, <2>1, TailIs DEF AcceptExpires
  <2>3. journal.status[Head(batch)] \in {"none", "received", "expired"}
    BY <2>1, <2>2 DEF TakenOver
  <2>4. QED
    BY <1>2, <2>2, <2>3 DEF Final
<1>5. CASE Refuses
  <2>1. batch # <<>> /\ Awaiting(batch[1])
    BY <1>5 DEF Refuses, Putting
  <2>2. Head(batch) \in Updates /\ Head(batch) = batch[1] /\ journal' = Closed(Head(batch), "failed")
    BY <1>5, <2>1, TailIs DEF Refuses, UpdatesTypeOK
  <2>3. QED
    BY <1>2, <2>1, <2>2 DEF Awaiting, Final
<1>6. ASSUME NEW u \in Updates, Finishes(u) \/ Fails(u)
      PROVE  FinalStays
  <2>1. doing[u] # "none" /\ \E s \in Final : journal' = Closed(u, s)
    BY <1>6 DEF Finishes, Fails, Final
  <2>2. journal.status[u] = "received"
    BY <2>1 DEF Handled, Awaiting
  <2>3. QED
    BY <1>2, <2>1, <2>2 DEF Final
<1>7. CASE journal'.status = journal.status
  BY <1>7 DEF FinalStays
<1>8. ASSUME Arrives \/ Ages \/ Starts \/ Baseline \/ Poll \/ Puts \/ Received \/ Takes \/ SessionEnds \/ Dies
      PROVE  journal' = journal
  BY <1>8 DEF Arrives, Ages, Starts, Baseline, Poll, Puts, Received, Takes, SessionEnds, Dies
<1>9. ASSUME NEW u \in Updates, Decides(u) \/ Acts(u) \/ GivesUp(u)
      PROVE  journal' = journal
  BY <1>9 DEF Decides, Acts, GivesUp
<1>10. ASSUME AcceptEnds
       PROVE  journal'.status = journal.status
  BY <1>10 DEF AcceptEnds, UpdatesTypeOK
<1>11. QED
  BY <1>3, <1>4, <1>5, <1>6, <1>7, <1>8, <1>9, <1>10 DEF UpdatesNext, Steps

(* The end that an update has come to is not changed, by a detached        *)
(* handler or by the same update received again                            *)
(* (adapters/telegram_store.py, finish).                                   *)
THEOREM FinalNeverChanges ==
  ASSUME UpdatesAssumption
  PROVE  UpdatesSpec => [][FinalStays]_uvars
<1>1. UpdatesInit => UpdatesInv
  BY UpdatesAtFirst
<1>2. UpdatesInv /\ [UpdatesNext]_uvars => UpdatesInv'
  BY UpdatesKept
<1>3. UpdatesInv /\ UpdatesNext => FinalStays
  BY StepKeepsFinal
<1>4. QED
  BY <1>1, <1>2, <1>3, PTL DEF UpdatesSpec

-----------------------------------------------------------------------------
(* Slots                                                                   *)

(* The bot that an operation has asked for is the one of the token, and    *)
(* once it may begin a session the one of the configuration; a slot that   *)
(* is started again or retried is on.                                      *)
Operating(s) ==
  /\ control[s].at = "idle" => control[s].how = "none"
  /\ control[s].at = "claim" => control[s].me = token[s]
  /\ control[s].how \in {"restart", "retry", "retake"} => config[s].on
  /\ control[s].at \in {"open", "ask"} => control[s].how \in {"hold", "enable", "restart", "retake"}
  /\ control[s].at = "claim" => control[s].how \in {"enable", "restart"}
  /\ control[s].at \in {"drop", "baseline"} => config[s].on /\ control[s].me = config[s].bot

(* No session is left behind by an operation that ends without one.        *)
Running(s) ==
  /\ control[s].at = "cleaned" \/ control[s].how = "hold" => sessions[s].at # "on"
  /\ control[s].how = "hold" => control[s].at = "open"
  /\ sessions[s].at = "on" /\ control[s].at = "idle" => config[s].on /\ config[s].bot = sessions[s].bot

(* A message can still be sent only as long as it was not delivered; while *)
(* a request is under way its message is not pending.                      *)
Sending(s) ==
  /\ request[s] # "no" => row[s] \in {"sending", "unknown"}
  /\ row[s] \in {"none", "pending"} \/ request[s] = "sent" => delivered[s] = 0
  /\ delivered[s] <= 1

SlotsInv ==
  /\ SlotsTypeOK /\ OneSlotPerBot /\ TokenOfBot
  /\ \A s \in Slots : Operating(s) /\ Running(s) /\ Sending(s)

-----------------------------------------------------------------------------
Operation == [at: Ats, how: Hows, me: Bots \cup {NoBot}, fresh: BOOLEAN]

Bound == [ops: 0..Ops, faults: 0..Faults, crashes: 0..Deaths]

LEMMA Spent ==
  ASSUME SlotsAssumption, SlotsTypeOK,
         \/ \E s \in Slots : User(s)
         \/ Fault
         \/ ProcessDies
  PROVE  left' \in Bound
<1>1. left \in Bound /\ Ops \in Nat /\ Faults \in Nat /\ Deaths \in Nat
  BY DEF SlotsAssumption, SlotsTypeOK, Bound
<1>2. \A n \in Nat : \A k \in 0..n : k > 0 => k - 1 \in 0..n
  OBVIOUS
<1>3. ASSUME NEW s \in Slots, User(s)
      PROVE  left' \in Bound
  <2>1. left' = [left EXCEPT !.ops = left.ops - 1] /\ left.ops > 0 /\ left.ops \in 0..Ops
    BY <1>1, <1>3 DEF User, Bound
  <2>2. left.ops - 1 \in 0..Ops
    BY <1>1, <1>2, <2>1
  <2>3. QED
    BY <1>1, <2>1, <2>2 DEF Bound
<1>4. CASE Fault
  <2>1. left' = [left EXCEPT !.faults = left.faults - 1] /\ left.faults > 0 /\ left.faults \in 0..Faults
    BY <1>1, <1>4 DEF Fault, Bound
  <2>2. left.faults - 1 \in 0..Faults
    BY <1>1, <1>2, <2>1
  <2>3. QED
    BY <1>1, <2>1, <2>2 DEF Bound
<1>5. CASE ProcessDies
  <2>1. left' = [left EXCEPT !.crashes = left.crashes - 1] /\ left.crashes > 0 /\ left.crashes \in 0..Deaths
    BY <1>1, <1>5 DEF ProcessDies, Bound
  <2>2. left.crashes - 1 \in 0..Deaths
    BY <1>1, <1>2, <2>1
  <2>3. QED
    BY <1>1, <2>1, <2>2 DEF Bound
<1>6. QED
  BY <1>3, <1>4, <1>5

LEMMA GoesIs ==
  ASSUME SlotsTypeOK, NEW s \in Slots, NEW at \in Ats, Goes(s, at)
  PROVE  /\ control' \in [Slots -> Operation]
         /\ control'[s].at = at /\ control'[s].how = control[s].how /\ control'[s].me = control[s].me
         /\ \A x \in Slots \ {s} : control'[x] = control[x]
<1>1. control \in [Slots -> Operation]
  BY DEF SlotsTypeOK, Operation, Bound
<1>2. \A c \in Operation : [c EXCEPT !.at = at] \in Operation /\ [c EXCEPT !.at = at].at = at
                           /\ [c EXCEPT !.at = at].how = c.how /\ [c EXCEPT !.at = at].me = c.me
  BY DEF Operation
<1>3. control' = [control EXCEPT ![s] = [control[s] EXCEPT !.at = at]]
  BY DEF Goes
<1>4. QED
  BY <1>1, <1>2, <1>3

LEMMA CommitIs ==
  ASSUME SlotsTypeOK, NEW s \in Slots, NEW at \in Ats, NEW switch \in [on: BOOLEAN, bot: Bots \cup {NoBot}],
         Commit(s, switch, at)
  PROVE  /\ control' \in [Slots -> Operation]
         /\ control'[s].at = at /\ control'[s].how = control[s].how /\ control'[s].me = control[s].me
         /\ \A x \in Slots \ {s} : /\ control'[x].at = control[x].at /\ control'[x].how = control[x].how
                                   /\ control'[x].me = control[x].me
         /\ config' \in [Slots -> [on: BOOLEAN, bot: Bots \cup {NoBot}]]
         /\ config'[s] = switch /\ \A x \in Slots \ {s} : config'[x] = config[x]
<1>1. control \in [Slots -> Operation] /\ config \in [Slots -> [on: BOOLEAN, bot: Bots \cup {NoBot}]]
  BY DEF SlotsTypeOK, Operation, Bound
<1>2. \A c \in Operation :
        /\ [c EXCEPT !.at = at] \in Operation /\ [c EXCEPT !.at = at].at = at
        /\ [c EXCEPT !.at = at].how = c.how /\ [c EXCEPT !.at = at].me = c.me
        /\ [c EXCEPT !.fresh = FALSE] \in Operation /\ [c EXCEPT !.fresh = FALSE].at = c.at
        /\ [c EXCEPT !.fresh = FALSE].how = c.how /\ [c EXCEPT !.fresh = FALSE].me = c.me
  BY DEF Operation
<1>3. QED
  BY <1>1, <1>2 DEF Commit

LEMMA SlotsAtFirst ==
  ASSUME SlotsAssumption, SlotsInit
  PROVE  SlotsInv
<1>1. SlotsTypeOK
  <2>1. control \in [Slots -> Operation] /\ sessions \in [Slots -> [at: {"off", "on", "closing"}, bot: Bots \cup {NoBot}]]
    BY DEF SlotsInit, Idle, Off, Operation, Ats, Hows
  <2>2. left \in Bound
    BY DEF SlotsAssumption, SlotsInit, Bound
  <2>3. config \in [Slots -> [on: BOOLEAN, bot: Bots \cup {NoBot}]] /\ boot \in Seq(Slots)
    BY DEF SlotsAssumption, SlotsInit
  <2>4. /\ token \in [Slots -> Bots \cup {NoBot}] /\ row \in [Slots -> Rows]
        /\ request \in [Slots -> {"no", "sent", "served"}] /\ delivered \in [Slots -> 0..2]
    BY DEF SlotsInit, Rows
  <2>5. holders \subseteq Slots /\ db \in BOOLEAN /\ closing \subseteq Slots
    BY DEF SlotsInit
  <2>6. QED
    BY <2>1, <2>2, <2>3, <2>4, <2>5 DEF SlotsTypeOK, Operation, Bound
<1>2. OneSlotPerBot /\ TokenOfBot
  BY DEF SlotsInit, OneSlotPerBot, TokenOfBot
<1>3. ASSUME NEW s \in Slots
      PROVE  Operating(s) /\ Running(s) /\ Sending(s)
  BY <1>3 DEF SlotsInit, Idle, Off, Operating, Running, Sending
<1>4. QED
  BY <1>1, <1>2, <1>3 DEF SlotsInv

(* What a step on one slot that commits nothing has to show                *)
LEMMA OneSlot ==
  ASSUME SlotsInv, SlotsTypeOK', UNCHANGED <<config, token>>, NEW s \in Slots,
         \A x \in Slots \ {s} :
           /\ control'[x].at = control[x].at /\ control'[x].how = control[x].how /\ control'[x].me = control[x].me
           /\ sessions'[x] = sessions[x] /\ row'[x] = row[x] /\ request'[x] = request[x]
           /\ delivered'[x] = delivered[x],
         Operating(s)', Running(s)', Sending(s)'
  PROVE  SlotsInv'
<1>1. (OneSlotPerBot /\ TokenOfBot)'
  BY DEF SlotsInv, OneSlotPerBot, TokenOfBot
<1>2. ASSUME NEW x \in Slots, x # s
      PROVE  (Operating(x) /\ Running(x) /\ Sending(x))'
  <2>1. Operating(x) /\ Running(x) /\ Sending(x)
    BY DEF SlotsInv
  <2>2. QED
    BY <1>2, <2>1 DEF Operating, Running, Sending
<1>3. QED
  BY <1>1, <1>2 DEF SlotsInv

-----------------------------------------------------------------------------
(* What the user asks for                                                  *)
LEMMA ChangesTokenKeeps ==
  ASSUME SlotsAssumption, SlotsInv, NEW s \in Slots, ChangesToken(s)
  PROVE  SlotsInv'
<1>1. SlotsTypeOK /\ OneSlotPerBot /\ TokenOfBot
  BY DEF SlotsInv
<1>2. /\ control[s].at = "idle" /\ ~ config[s].on
      /\ UNCHANGED <<config, sessions, holders, db, closing, row, request, delivered, boot>>
  BY DEF ChangesToken, User
<1>3. token' \in [Slots -> Bots \cup {NoBot}] /\ \A x \in Slots \ {s} : token'[x] = token[x]
  BY <1>1 DEF ChangesToken, SlotsTypeOK
<1>4. /\ control' \in [Slots -> Operation]
      /\ \A x \in Slots : /\ control'[x].at = control[x].at /\ control'[x].how = control[x].how
                          /\ control'[x].me = control[x].me
  <2>1. \A c \in Operation :
          /\ [c EXCEPT !.fresh = FALSE] \in Operation /\ [c EXCEPT !.fresh = FALSE].at = c.at
          /\ [c EXCEPT !.fresh = FALSE].how = c.how /\ [c EXCEPT !.fresh = FALSE].me = c.me
    BY DEF Operation
  <2>2. control \in [Slots -> Operation] /\ control' = [x \in Slots |-> [control[x] EXCEPT !.fresh = FALSE]]
    BY <1>1 DEF SlotsTypeOK, Operation, ChangesToken
  <2>3. QED
    BY <2>1, <2>2
<1>5. left' \in Bound
  BY <1>1, Spent DEF ChangesToken
<1>6. SlotsTypeOK'
  BY <1>1, <1>2, <1>3, <1>4, <1>5 DEF SlotsTypeOK, Operation, Bound
<1>7. (OneSlotPerBot /\ TokenOfBot)'
  BY <1>1, <1>2, <1>3 DEF OneSlotPerBot, TokenOfBot
<1>8. ASSUME NEW x \in Slots
      PROVE  (Operating(x) /\ Running(x) /\ Sending(x))'
  <2>1. Operating(x) /\ Running(x) /\ Sending(x)
    BY DEF SlotsInv
  <2>2. QED
    BY <1>2, <1>3, <1>4, <2>1 DEF Operating, Running, Sending
<1>9. QED
  BY <1>6, <1>7, <1>8 DEF SlotsInv

LEMMA StartsKeep ==
  ASSUME SlotsAssumption, SlotsInv, NEW s \in Slots, Enables(s) \/ Retries(s)
  PROVE  SlotsInv'
<1>1. SlotsTypeOK /\ Operating(s) /\ Running(s) /\ Sending(s)
  BY DEF SlotsInv
<1>2. /\ control[s].at = "idle" /\ holders' \subseteq Slots
      /\ UNCHANGED <<config, token, sessions, db, closing, row, request, delivered, boot>>
  BY <1>1 DEF Enables, Retries, User, Joins, SlotsTypeOK
<1> DEFINE opens == [at |-> "open", how |-> "enable", me |-> NoBot, fresh |-> TRUE]
           cleans == [at |-> "clean", how |-> "retry", me |-> NoBot, fresh |-> TRUE]
<1>9. opens \in Operation /\ cleans \in Operation
  BY DEF Operation, Ats, Hows
<1>3. PICK c \in Operation : /\ control' = [control EXCEPT ![s] = c]
                             /\ \/ c.at = "open" /\ c.how = "enable"
                                \/ c.at = "clean" /\ c.how = "retry" /\ config[s].on
  <2>1. CASE Enables(s)
    BY <1>9, <2>1 DEF Enables
  <2>2. CASE Retries(s)
    BY <1>9, <2>2 DEF Retries
  <2>3. QED
    BY <2>1, <2>2
<1>4. /\ control' \in [Slots -> Operation] /\ control'[s] = c
      /\ \A x \in Slots \ {s} : control'[x] = control[x]
  BY <1>1, <1>3 DEF SlotsTypeOK, Operation, Bound
<1>5. left' \in Bound
  BY <1>1, Spent DEF Enables, Retries
<1>6. SlotsTypeOK'
  BY <1>1, <1>2, <1>4, <1>5 DEF SlotsTypeOK, Operation, Bound
<1>7. (Operating(s) /\ Running(s) /\ Sending(s))'
  BY <1>1, <1>2, <1>3, <1>4 DEF Operating, Running, Sending
<1>8. QED
  BY <1>2, <1>4, <1>6, <1>7, OneSlot

LEMMA DisablesKeeps ==
  ASSUME SlotsAssumption, SlotsInv, NEW s \in Slots, Disables(s)
  PROVE  SlotsInv'
<1>1. SlotsTypeOK /\ OneSlotPerBot /\ TokenOfBot
  BY DEF SlotsInv
<1>2. /\ control[s].at = "idle" /\ control[s].how = "none"
      /\ UNCHANGED <<token, sessions, holders, db, closing, row, request, delivered, boot>>
  BY DEF Disables, User, SlotsInv, Operating
<1>3. PICK switch \in [on: BOOLEAN, bot: Bots \cup {NoBot}] : ~ switch.on /\ Commit(s, switch, "clean")
  BY <1>1 DEF Disables, SlotsTypeOK
<1>4. /\ control' \in [Slots -> Operation]
      /\ control'[s].at = "clean" /\ control'[s].how = "none"
      /\ \A x \in Slots \ {s} : /\ control'[x].at = control[x].at /\ control'[x].how = control[x].how
                                /\ control'[x].me = control[x].me
      /\ config' \in [Slots -> [on: BOOLEAN, bot: Bots \cup {NoBot}]]
      /\ ~ config'[s].on /\ \A x \in Slots \ {s} : config'[x] = config[x]
  BY <1>1, <1>2, <1>3, CommitIs DEF Ats
<1>5. left' \in Bound
  BY <1>1, Spent DEF Disables
<1>6. SlotsTypeOK'
  BY <1>1, <1>2, <1>4, <1>5 DEF SlotsTypeOK, Operation, Bound
<1>7. (OneSlotPerBot /\ TokenOfBot)'
  BY <1>1, <1>2, <1>4 DEF OneSlotPerBot, TokenOfBot
<1>8. ASSUME NEW x \in Slots
      PROVE  (Operating(x) /\ Running(x) /\ Sending(x))'
  <2>1. Operating(x) /\ Running(x) /\ Sending(x)
    BY DEF SlotsInv
  <2>2. QED
    BY <1>2, <1>4, <2>1 DEF Operating, Running, Sending
<1>9. QED
  BY <1>6, <1>7, <1>8 DEF SlotsInv

LEMMA BootsKeeps ==
  ASSUME SlotsAssumption, SlotsInv, NEW s \in Slots, Boots(s)
  PROVE  SlotsInv'
<1>1. SlotsTypeOK /\ Operating(s) /\ Running(s) /\ Sending(s)
  BY DEF SlotsInv
<1>2. /\ control[s].at = "idle" /\ boot' \in Seq(Slots) /\ holders' \subseteq Slots
      /\ UNCHANGED <<config, token, sessions, db, closing, row, request, delivered, left>>
  BY <1>1 DEF Boots, Joins, SlotsTypeOK
<1>3. CASE control' = control
  <2>1. SlotsTypeOK'
    BY <1>1, <1>2, <1>3 DEF SlotsTypeOK
  <2>2. (Operating(s) /\ Running(s) /\ Sending(s))'
    BY <1>1, <1>2, <1>3 DEF Operating, Running, Sending
  <2>3. QED
    BY <1>2, <1>3, <2>1, <2>2, OneSlot
<1>4. CASE control' # control
  <2>1. PICK c \in Operation : /\ control' = [control EXCEPT ![s] = c] /\ c.at = "open"
                               /\ c.how = IF config[s].on THEN "restart" ELSE "hold"
    <3> DEFINE how == IF config[s].on THEN "restart" ELSE "hold"
               opens == [at |-> "open", how |-> how, me |-> NoBot, fresh |-> TRUE]
    <3>1. opens \in Operation
      BY DEF Operation, Ats, Hows
    <3>2. control' = [control EXCEPT ![s] = opens]
      BY <1>4 DEF Boots
    <3>3. QED
      BY <3>1, <3>2
  <2>2. /\ control' \in [Slots -> Operation] /\ control'[s] = c
        /\ \A x \in Slots \ {s} : control'[x] = control[x]
    BY <1>1, <2>1 DEF SlotsTypeOK, Operation, Bound
  <2>3. SlotsTypeOK'
    BY <1>1, <1>2, <2>2 DEF SlotsTypeOK, Operation, Bound
  <2>4. (Operating(s) /\ Running(s) /\ Sending(s))'
    BY <1>1, <1>2, <2>1, <2>2 DEF Operating, Running, Sending
  <2>5. QED
    BY <1>2, <2>2, <2>3, <2>4, OneSlot
<1>5. QED
  BY <1>3, <1>4

-----------------------------------------------------------------------------
(* An operation on its way to a session                                    *)
LEMMA OpensKeeps ==
  ASSUME SlotsAssumption, SlotsInv, NEW s \in Slots, Opens(s)
  PROVE  SlotsInv'
<1>1. SlotsTypeOK /\ OneSlotPerBot /\ TokenOfBot
  BY DEF SlotsInv
<1>2. /\ control[s].at = "open" /\ db' = TRUE
      /\ UNCHANGED <<config, token, sessions, holders, closing, request, delivered, boot, left>>
  BY DEF Opens
<1>3. /\ row' \in [Slots -> Rows]
      /\ \A x \in Slots : row'[x] = row[x] \/ (row[x] = "sending" /\ row'[x] = "unknown")
  BY <1>1 DEF Opens, SlotsTypeOK, Rows
<1>4. PICK c \in Operation : /\ control' = [control EXCEPT ![s] = c]
                             /\ \/ c.at = "idle" /\ c.how = "none" /\ control[s].how = "hold"
                                \/ c.at = "ask" /\ c.how = control[s].how /\ control[s].how # "hold"
  <2> DEFINE c == IF control[s].how = "hold" THEN Idle ELSE [control[s] EXCEPT !.at = "ask"]
  <2>1. control[s] \in Operation /\ Idle \in Operation /\ Idle.at = "idle" /\ Idle.how = "none"
    BY <1>1 DEF SlotsTypeOK, Operation, Idle, Ats, Hows
  <2>2. \A d \in Operation : [d EXCEPT !.at = "ask"] \in Operation /\ [d EXCEPT !.at = "ask"].at = "ask"
                             /\ [d EXCEPT !.at = "ask"].how = d.how
    BY DEF Operation, Ats
  <2>3. control' = [control EXCEPT ![s] = c]
    BY DEF Opens
  <2>4. QED
    BY <2>1, <2>2, <2>3
<1>5. /\ control' \in [Slots -> Operation] /\ control'[s] = c
      /\ \A x \in Slots \ {s} : control'[x] = control[x]
  BY <1>1, <1>4 DEF SlotsTypeOK, Operation
<1>6. SlotsTypeOK'
  BY <1>1, <1>2, <1>3, <1>5 DEF SlotsTypeOK, Operation, Bound
<1>7. (OneSlotPerBot /\ TokenOfBot)'
  BY <1>1, <1>2 DEF OneSlotPerBot, TokenOfBot
<1>8. ASSUME NEW x \in Slots
      PROVE  (Operating(x) /\ Running(x) /\ Sending(x))'
  <2>1. Operating(x) /\ Running(x) /\ Sending(x)
    BY DEF SlotsInv
  <2>2. QED
    BY <1>2, <1>3, <1>4, <1>5, <2>1 DEF Operating, Running, Sending
<1>9. QED
  BY <1>6, <1>7, <1>8 DEF SlotsInv

LEMMA AsksKeeps ==
  ASSUME SlotsAssumption, SlotsInv, NEW s \in Slots, Asks(s)
  PROVE  SlotsInv'
<1>1. SlotsTypeOK /\ Operating(s) /\ Running(s) /\ Sending(s)
  BY DEF SlotsInv
<1>2. /\ control[s].at = "ask"
      /\ UNCHANGED <<config, token, sessions, holders, db, closing, row, request, delivered, boot, left>>
  BY DEF Asks
<1>3. control[s] \in Operation /\ token[s] \in Bots \cup {NoBot} /\ config[s].bot \in Bots \cup {NoBot}
  BY <1>1 DEF SlotsTypeOK, Operation
<1>4. PICK c \in Operation :
        /\ control' = [control EXCEPT ![s] = c] /\ c.how = control[s].how
        /\ \/ control[s].how = "retake" /\ c.at = "baseline" /\ c.me = config[s].bot
           \/ control[s].how # "retake" /\ c.at = "claim" /\ c.me = token[s]
  <2> DEFINE again == [control[s] EXCEPT !.me = config[s].bot, !.at = "baseline"]
             asked == [control[s] EXCEPT !.me = token[s], !.at = "claim"]
  <2>1. again \in Operation /\ again.at = "baseline" /\ again.how = control[s].how /\ again.me = config[s].bot
    BY <1>3 DEF Operation, Ats
  <2>2. asked \in Operation /\ asked.at = "claim" /\ asked.how = control[s].how /\ asked.me = token[s]
    BY <1>3 DEF Operation, Ats
  <2>3. CASE control[s].how = "retake"
    <3>1. control' = [control EXCEPT ![s] = again]
      BY <2>3 DEF Asks
    <3> HIDE DEF again
    <3>2. QED
      BY <2>1, <2>3, <3>1
  <2>4. CASE control[s].how # "retake"
    <3>1. control' = [control EXCEPT ![s] = asked]
      BY <2>4 DEF Asks
    <3> HIDE DEF asked
    <3>2. QED
      BY <2>2, <2>4, <3>1
  <2>5. QED
    BY <2>3, <2>4
<1>5. /\ control' \in [Slots -> Operation] /\ control'[s] = c
      /\ \A x \in Slots \ {s} : control'[x] = control[x]
  BY <1>1, <1>4 DEF SlotsTypeOK, Operation
<1>6. SlotsTypeOK'
  BY <1>1, <1>2, <1>5 DEF SlotsTypeOK, Operation
<1>7. control[s].how \in {"enable", "restart", "retake"}
  BY <1>1, <1>2 DEF Operating, Running
<1>8. (Operating(s) /\ Running(s) /\ Sending(s))'
  BY <1>1, <1>2, <1>4, <1>5, <1>7 DEF Operating, Running, Sending
<1>9. QED
  BY <1>2, <1>5, <1>6, <1>8, OneSlot

(* A step on one slot that only moves its operation                        *)
LEMMA MovesKeep ==
  ASSUME SlotsAssumption, SlotsInv, NEW s \in Slots, NEW at \in Ats, Goes(s, at),
         UNCHANGED <<config, token, delivered, boot>>,
         left' = left \/ left' \in Bound,
         sessions' \in [Slots -> [at: {"off", "on", "closing"}, bot: Bots \cup {NoBot}]],
         sessions'[s].at = "on" => sessions'[s] = sessions[s] /\ at # "cleaned",
         request' \in [Slots -> {"no", "sent", "served"}], request'[s] \in {"no", request[s]},
         UNCHANGED row, holders' \subseteq Slots, closing' \subseteq Slots, db' \in BOOLEAN,
         \A x \in Slots \ {s} : sessions'[x] = sessions[x] /\ request'[x] = request[x],
         control[s].at \in {"ask", "claim", "drop", "baseline", "clean"},
         at \in {"clean", "cleaned"} \/ (at = "drop" /\ config[s].on /\ control[s].me = config[s].bot)
  PROVE  SlotsInv'
<1>1. SlotsTypeOK /\ Operating(s) /\ Running(s) /\ Sending(s)
  BY DEF SlotsInv
<1>2. /\ control' \in [Slots -> Operation]
      /\ control'[s].at = at /\ control'[s].how = control[s].how /\ control'[s].me = control[s].me
      /\ \A x \in Slots \ {s} : control'[x] = control[x]
  BY <1>1, GoesIs
<1>3. SlotsTypeOK'
  BY <1>1, <1>2 DEF SlotsTypeOK, Operation, Bound
<1>4. Operating(s)'
  BY <1>1, <1>2 DEF Operating
<1>5. Running(s)'
  BY <1>1, <1>2 DEF Running
<1>6. Sending(s)'
  BY <1>1, <1>2 DEF Sending
<1>7. QED
  BY <1>2, <1>3, <1>4, <1>5, <1>6, OneSlot

LEMMA ReleaseIs ==
  ASSUME SlotsTypeOK, NEW s \in Slots, Release(s)
  PROVE  holders' \subseteq Slots /\ closing' \subseteq Slots
  BY DEF SlotsTypeOK, Release

LEMMA FailuresKeep ==
  ASSUME SlotsAssumption, SlotsInv, NEW s \in Slots, AskFails(s) \/ BaselineFails(s) \/ Drops(s) \/ Cleans(s)
  PROVE  SlotsInv'
<1>1. SlotsTypeOK
  BY DEF SlotsInv
<1>2. CASE AskFails(s) \/ BaselineFails(s)
  <2>1. /\ Goes(s, "clean") /\ control[s].at \in {"ask", "drop", "baseline"}
        /\ UNCHANGED <<config, token, sessions, holders, db, closing, row, request, delivered, boot>>
    BY <1>2 DEF AskFails, BaselineFails
  <2>2. left' = left \/ left' \in Bound
    BY <1>1, <1>2, Spent DEF AskFails, BaselineFails, FaultOr
  <2>3. "clean" \in Ats
    BY DEF Ats
  <2>4. QED
    BY <1>1, <2>1, <2>2, <2>3, MovesKeep DEF SlotsTypeOK
<1>3. CASE Drops(s)
  <2>1. /\ Goes(s, "baseline") /\ control[s].at = "drop" /\ "baseline" \in Ats
        /\ UNCHANGED <<config, token, sessions, holders, db, closing, request, delivered, boot, left>>
    BY <1>3 DEF Drops, Ats
  <2>2. /\ row' \in [Slots -> Rows] /\ (row'[s] = row[s] \/ (row[s] = "pending" /\ row'[s] = "dropped"))
        /\ \A x \in Slots \ {s} : row'[x] = row[x]
    BY <1>1, <1>3 DEF Drops, SlotsTypeOK, Rows
  <2>3. /\ control' \in [Slots -> Operation]
        /\ control'[s].at = "baseline" /\ control'[s].how = control[s].how /\ control'[s].me = control[s].me
        /\ \A x \in Slots \ {s} : control'[x] = control[x]
    BY <1>1, <2>1, GoesIs
  <2>4. SlotsTypeOK'
    BY <1>1, <2>1, <2>2, <2>3 DEF SlotsTypeOK, Operation, Bound
  <2>5. Operating(s) /\ Running(s) /\ Sending(s)
    BY DEF SlotsInv
  <2>6. (Operating(s) /\ Running(s) /\ Sending(s))'
    BY <2>1, <2>2, <2>3, <2>5 DEF Operating, Running, Sending
  <2>7. QED
    BY <2>1, <2>2, <2>3, <2>4, <2>6, OneSlot
<1>4. CASE Cleans(s)
  <2>1. /\ Goes(s, "cleaned") /\ control[s].at = "clean" /\ "cleaned" \in Ats
        /\ UNCHANGED <<config, token, db, row, delivered, boot, left>>
    BY <1>4 DEF Cleans, Ats
  <2>2. /\ sessions' \in [Slots -> [at: {"off", "on", "closing"}, bot: Bots \cup {NoBot}]]
        /\ sessions'[s].at = "off" /\ \A x \in Slots \ {s} : sessions'[x] = sessions[x]
    <3>1. Off \in [at: {"off", "on", "closing"}, bot: Bots \cup {NoBot}] /\ Off.at = "off"
      BY DEF Off
    <3>2. QED
      BY <1>1, <1>4, <3>1 DEF Cleans, SlotsTypeOK
  <2>3. /\ request' \in [Slots -> {"no", "sent", "served"}] /\ request'[s] = "no"
        /\ \A x \in Slots \ {s} : request'[x] = request[x]
    BY <1>1, <1>4 DEF Cleans, SlotsTypeOK
  <2>4. holders' \subseteq Slots /\ closing' \subseteq Slots
    BY <1>1, <1>4, ReleaseIs DEF Cleans
  <2>5. QED
    BY <1>1, <2>1, <2>2, <2>3, <2>4, MovesKeep DEF SlotsTypeOK
<1>5. QED
  BY <1>2, <1>3, <1>4

(* Only here a slot gets its bot and is switched on: nobody else has the   *)
(* bot, and it is the one of the token.                                    *)
LEMMA ClaimsKeeps ==
  ASSUME SlotsAssumption, SlotsInv, NEW s \in Slots, Claims(s)
  PROVE  SlotsInv'
<1>1. SlotsTypeOK /\ OneSlotPerBot /\ TokenOfBot /\ Operating(s) /\ Running(s) /\ Sending(s)
  BY DEF SlotsInv
<1>2. /\ control[s].at = "claim" /\ control[s].how \in {"enable", "restart"} /\ control[s].me = token[s]
      /\ UNCHANGED <<token, sessions, holders, db, closing, row, request, delivered, boot, left>>
  BY <1>1 DEF Claims, Operating
<1>3. CASE ~ Claimed(s, control[s].me) /\ Commit(s, [on |-> TRUE, bot |-> control[s].me], "drop")
  <2> DEFINE switch == [on |-> TRUE, bot |-> control[s].me]
  <2>1. /\ switch \in [on: BOOLEAN, bot: Bots \cup {NoBot}] /\ switch.on /\ switch.bot = control[s].me
        /\ Commit(s, switch, "drop") /\ "drop" \in Ats
    BY <1>1, <1>3 DEF SlotsTypeOK, Ats
  <2> HIDE DEF switch
  <2>2. /\ control' \in [Slots -> Operation]
        /\ control'[s].at = "drop" /\ control'[s].how = control[s].how /\ control'[s].me = control[s].me
        /\ \A x \in Slots \ {s} : /\ control'[x].at = control[x].at /\ control'[x].how = control[x].how
                                  /\ control'[x].me = control[x].me
        /\ config' \in [Slots -> [on: BOOLEAN, bot: Bots \cup {NoBot}]]
        /\ config'[s].on /\ config'[s].bot = control[s].me /\ \A x \in Slots \ {s} : config'[x] = config[x]
    BY <1>1, <2>1, CommitIs
  <2>3. SlotsTypeOK'
    BY <1>1, <1>2, <2>2 DEF SlotsTypeOK, Operation, Bound
  <2>4. OneSlotPerBot'
    BY <1>1, <1>3, <2>2 DEF OneSlotPerBot, Claimed
  <2>5. TokenOfBot'
    BY <1>1, <1>2, <2>2 DEF TokenOfBot
  <2>6. (Operating(s) /\ Running(s) /\ Sending(s))'
    BY <1>1, <1>2, <2>2 DEF Operating, Running, Sending
  <2>7. ASSUME NEW x \in Slots, x # s
        PROVE  (Operating(x) /\ Running(x) /\ Sending(x))'
    <3>1. Operating(x) /\ Running(x) /\ Sending(x)
      BY DEF SlotsInv
    <3>2. QED
      BY <1>2, <2>2, <2>7, <3>1 DEF Operating, Running, Sending
  <2>8. QED
    BY <2>3, <2>4, <2>5, <2>6, <2>7 DEF SlotsInv
<1>4. ASSUME NEW at \in {"clean", "drop"}, Goes(s, at), UNCHANGED config,
             at = "drop" => config[s].bot = control[s].me /\ control[s].how = "restart"
      PROVE  SlotsInv'
  <2>1. at \in Ats /\ (at = "drop" => config[s].on)
    BY <1>1, <1>4 DEF Ats, Operating
  <2>2. QED
    BY <1>1, <1>2, <1>4, <2>1, MovesKeep DEF SlotsTypeOK
<1>5. CASE control[s].how = "enable" /\ Goes(s, "clean") /\ UNCHANGED config
  BY <1>4, <1>5
<1>6. CASE control[s].how = "restart"
  <2>1. CASE config[s].bot # control[s].me \/ InUse(s)
    <3>1. Goes(s, "clean") /\ UNCHANGED config
      BY <1>6, <2>1 DEF Claims
    <3>2. QED
      BY <1>4, <3>1
  <2>2. CASE ~ (config[s].bot # control[s].me \/ InUse(s))
    <3>1. Goes(s, "drop") /\ UNCHANGED config
      BY <1>6, <2>2 DEF Claims
    <3>2. QED
      BY <1>4, <1>6, <2>2, <3>1
  <2>3. QED
    BY <2>1, <2>2
<1>7. QED
  BY <1>2, <1>3, <1>5, <1>6 DEF Claims

LEMMA BeginsKeeps ==
  ASSUME SlotsAssumption, SlotsInv, NEW s \in Slots, Begins(s) \/ Cleaned(s)
  PROVE  SlotsInv'
<1>1. SlotsTypeOK /\ Operating(s) /\ Running(s) /\ Sending(s)
  BY DEF SlotsInv
<1>2. /\ UNCHANGED <<config, token, db, closing, row, request, delivered, boot, left>>
      /\ holders' \subseteq Slots
  BY <1>1 DEF Begins, Cleaned, Joins, SlotsTypeOK
<1>3. PICK c \in Operation :
        /\ control' = [control EXCEPT ![s] = c]
        /\ \/ c.at = "idle" /\ c.how = "none"
           \/ c.at = "open" /\ c.how = "retake" /\ control[s].how = "retry" /\ Cleaned(s)
  <2>1. Idle \in Operation /\ Idle.at = "idle" /\ Idle.how = "none" /\ control[s] \in Operation
    BY <1>1 DEF SlotsTypeOK, Operation, Idle, Ats, Hows
  <2>2. \A d \in Operation : [d EXCEPT !.at = "open", !.how = "retake"] \in Operation
          /\ [d EXCEPT !.at = "open", !.how = "retake"].at = "open"
          /\ [d EXCEPT !.at = "open", !.how = "retake"].how = "retake"
    BY DEF Operation, Ats, Hows
  <2>3. CASE control' = [control EXCEPT ![s] = Idle]
    BY <2>1, <2>3
  <2>4. CASE /\ control' = [control EXCEPT ![s] = [control[s] EXCEPT !.at = "open", !.how = "retake"]]
             /\ control[s].how = "retry" /\ Cleaned(s)
    <3> DEFINE c == [control[s] EXCEPT !.at = "open", !.how = "retake"]
    <3>1. c \in Operation /\ c.at = "open" /\ c.how = "retake"
      BY <2>1, <2>2
    <3> HIDE DEF c
    <3>2. QED
      BY <2>4, <3>1 DEF c
  <2>5. QED
    BY <2>3, <2>4 DEF Begins, Cleaned
<1>4. /\ control' \in [Slots -> Operation] /\ control'[s] = c
      /\ \A x \in Slots \ {s} : control'[x] = control[x]
  BY <1>1, <1>3 DEF SlotsTypeOK, Operation
<1>5. /\ sessions' \in [Slots -> [at: {"off", "on", "closing"}, bot: Bots \cup {NoBot}]]
      /\ \A x \in Slots \ {s} : sessions'[x] = sessions[x]
      /\ sessions'[s].at = "on" => control[s].at = "baseline" /\ sessions'[s].bot = control[s].me /\ c.at = "idle"
  <2>1. CASE Begins(s)
    <3> DEFINE on == [at |-> "on", bot |-> control[s].me]
    <3>1. on \in [at: {"off", "on", "closing"}, bot: Bots \cup {NoBot}] /\ on.bot = control[s].me
      BY <1>1 DEF SlotsTypeOK
    <3>2. sessions' = [sessions EXCEPT ![s] = on] /\ control[s].at = "baseline"
      BY <2>1 DEF Begins
    <3>3. c.at = "idle"
      BY <1>1, <1>3, <2>1 DEF Begins, Cleaned
    <3> HIDE DEF on
    <3>4. QED
      BY <1>1, <3>1, <3>2, <3>3 DEF SlotsTypeOK
  <2>2. CASE Cleaned(s)
    BY <1>1, <2>2 DEF Cleaned, Running, SlotsTypeOK
  <2>3. QED
    BY <2>1, <2>2
<1>6. SlotsTypeOK'
  BY <1>1, <1>2, <1>4, <1>5 DEF SlotsTypeOK, Operation, Bound
<1>7. Operating(s)'
  BY <1>1, <1>2, <1>3, <1>4 DEF Operating
<1>8. Running(s)' /\ Sending(s)'
  BY <1>1, <1>2, <1>3, <1>4, <1>5 DEF Operating, Running, Sending
<1>9. QED
  BY <1>2, <1>4, <1>5, <1>6, <1>7, <1>8, OneSlot

-----------------------------------------------------------------------------
(* The session, its message, and the store                                 *)
LEMMA MessagesKeep ==
  ASSUME SlotsAssumption, SlotsInv, NEW s \in Slots,
         Enqueues(s) \/ Sends(s) \/ Serves(s) \/ Records(s) \/ RecordsError(s)
  PROVE  SlotsInv'
<1>1. SlotsTypeOK /\ Operating(s) /\ Running(s) /\ Sending(s)
  BY DEF SlotsInv
<1>2. UNCHANGED <<config, token, control, sessions, holders, db, closing, boot>>
  BY DEF Enqueues, Sends, Serves, Records, RecordsError
<1>3. left' \in Bound
  BY <1>1, Spent DEF Enqueues, Sends, Serves, Records, RecordsError, SlotsTypeOK, Bound
<1>4. /\ row' \in [Slots -> Rows] /\ \A x \in Slots \ {s} : row'[x] = row[x]
      /\ request' \in [Slots -> {"no", "sent", "served"}] /\ \A x \in Slots \ {s} : request'[x] = request[x]
      /\ delivered' \in [Slots -> 0..2] /\ \A x \in Slots \ {s} : delivered'[x] = delivered[x]
      /\ Sending(s)'
  <2>1. CASE Enqueues(s)
    BY <1>1, <2>1 DEF Enqueues, SlotsTypeOK, Sending, Rows
  <2>2. CASE Sends(s)
    BY <1>1, <2>2 DEF Sends, SlotsTypeOK, Sending, Rows
  <2>3. CASE Serves(s)
    <3>1. delivered[s] = 0 /\ request[s] = "sent" /\ row[s] \in {"sending", "unknown"}
      BY <1>1, <2>3 DEF Serves, Sending
    <3>2. delivered' = [delivered EXCEPT ![s] = 1]
      BY <2>3, <3>1 DEF Serves
    <3>3. QED
      BY <1>1, <2>3, <3>1, <3>2 DEF Serves, SlotsTypeOK, Sending
  <2>4. CASE Records(s)
    BY <1>1, <2>4 DEF Records, SlotsTypeOK, Sending, Rows
  <2>5. CASE RecordsError(s)
    <3>1. PICK o \in Errors(s) : row' = [row EXCEPT ![s] = o]
      BY <2>5 DEF RecordsError
    <3>2. o \in Rows /\ o \in {"pending", "failed", "unknown"} /\ (request[s] = "served" => o = "unknown")
      BY DEF Errors, Rows
    <3>3. request[s] # "no" /\ request' = [request EXCEPT ![s] = "no"] /\ delivered' = delivered
      BY <2>5 DEF RecordsError
    <3>4. request[s] \in {"sent", "served"}
      BY <1>1, <3>3 DEF SlotsTypeOK
    <3>5. QED
      BY <1>1, <3>1, <3>2, <3>3, <3>4 DEF SlotsTypeOK, Sending
  <2>6. QED
    BY <2>1, <2>2, <2>3, <2>4, <2>5
<1>5. SlotsTypeOK'
  BY <1>1, <1>2, <1>3, <1>4 DEF SlotsTypeOK, Bound
<1>6. Operating(s)' /\ Running(s)'
  BY <1>1, <1>2 DEF Operating, Running
<1>7. QED
  BY <1>2, <1>4, <1>5, <1>6, OneSlot

LEMMA ClosesKeep ==
  ASSUME SlotsAssumption, SlotsInv, NEW s \in Slots, Closes(s) \/ SessionStops(s) \/ SessionEnded(s)
  PROVE  SlotsInv'
<1>1. SlotsTypeOK /\ Operating(s) /\ Running(s) /\ Sending(s)
  BY DEF SlotsInv
<1>2. UNCHANGED <<config, token, control, row, delivered, boot>>
  BY DEF Closes, SessionStops, SessionEnded
<1>3. left' \in Bound
  BY <1>1, Spent DEF Closes, SessionStops, SessionEnded, FaultOr, SlotsTypeOK, Bound
<1>4. holders' \subseteq Slots /\ closing' \subseteq Slots /\ db' \in BOOLEAN
  BY <1>1, ReleaseIs DEF Closes, SessionStops, SessionEnded, SlotsTypeOK
<1>5. /\ sessions' \in [Slots -> [at: {"off", "on", "closing"}, bot: Bots \cup {NoBot}]]
      /\ sessions'[s] = sessions[s] \/ sessions'[s].at # "on"
      /\ \A x \in Slots \ {s} : sessions'[x] = sessions[x]
  <2>1. CASE SessionStops(s)
    <3> DEFINE ending == [sessions[s] EXCEPT !.at = "closing"]
    <3>0. sessions[s] \in [at: {"off", "on", "closing"}, bot: Bots \cup {NoBot}]
      BY <1>1 DEF SlotsTypeOK
    <3>1. ending \in [at: {"off", "on", "closing"}, bot: Bots \cup {NoBot}] /\ ending.at = "closing"
      BY <3>0
    <3>2. sessions' = [sessions EXCEPT ![s] = ending]
      BY <2>1 DEF SessionStops
    <3> HIDE DEF ending
    <3>3. QED
      BY <1>1, <3>1, <3>2 DEF SlotsTypeOK
  <2>2. CASE SessionEnded(s)
    <3>1. Off \in [at: {"off", "on", "closing"}, bot: Bots \cup {NoBot}] /\ Off.at = "off"
      BY DEF Off
    <3>2. QED
      BY <1>1, <2>2, <3>1 DEF SessionEnded, SlotsTypeOK
  <2>3. CASE Closes(s)
    BY <1>1, <2>3 DEF Closes, SlotsTypeOK
  <2>4. QED
    BY <2>1, <2>2, <2>3
<1>6. /\ request' \in [Slots -> {"no", "sent", "served"}] /\ request'[s] \in {"no", request[s]}
      /\ \A x \in Slots \ {s} : request'[x] = request[x]
  BY <1>1 DEF Closes, SessionStops, SessionEnded, SlotsTypeOK
<1>7. SlotsTypeOK'
  BY <1>1, <1>2, <1>3, <1>4, <1>5, <1>6 DEF SlotsTypeOK, Bound
<1>8. Operating(s)' /\ Running(s)' /\ Sending(s)'
  BY <1>1, <1>2, <1>5, <1>6 DEF Operating, Running, Sending
<1>9. QED
  BY <1>2, <1>5, <1>6, <1>7, <1>8, OneSlot

LEMMA DiesKeeps ==
  ASSUME SlotsAssumption, SlotsInv, ProcessDies
  PROVE  SlotsInv'
<1>1. SlotsTypeOK /\ OneSlotPerBot /\ TokenOfBot
  BY DEF SlotsInv
<1>2. Idle \in Operation /\ Off \in [at: {"off", "on", "closing"}, bot: Bots \cup {NoBot}]
  BY DEF Operation, Idle, Off, Ats, Hows
<1>3. /\ control' \in [Slots -> Operation]
      /\ sessions' \in [Slots -> [at: {"off", "on", "closing"}, bot: Bots \cup {NoBot}]]
      /\ request' \in [Slots -> {"no", "sent", "served"}]
      /\ UNCHANGED <<config, token, row, delivered>>
  BY <1>2 DEF ProcessDies
<1>4. holders' \subseteq Slots /\ closing' \subseteq Slots /\ db' \in BOOLEAN /\ boot' \in Seq(Slots)
  BY DEF ProcessDies, SlotsAssumption
<1>5. left' \in Bound
  BY <1>1, Spent
<1>6. SlotsTypeOK'
  BY <1>1, <1>3, <1>4, <1>5 DEF SlotsTypeOK, Operation, Bound
<1>7. (OneSlotPerBot /\ TokenOfBot)'
  BY <1>1, <1>3 DEF OneSlotPerBot, TokenOfBot
<1>8. ASSUME NEW x \in Slots
      PROVE  (Operating(x) /\ Running(x) /\ Sending(x))'
  <2>1. /\ control'[x].at = "idle" /\ control'[x].how = "none" /\ sessions'[x].at = "off" /\ request'[x] = "no"
        /\ Sending(x)
    BY DEF ProcessDies, Idle, Off, SlotsInv
  <2>2. QED
    BY <1>3, <2>1 DEF Operating, Running, Sending
<1>9. QED
  BY <1>6, <1>7, <1>8 DEF SlotsInv

LEMMA SlotsKept ==
  ASSUME SlotsAssumption, SlotsInv, [SlotsNext]_svars
  PROVE  SlotsInv'
<1>1. ASSUME NEW s \in Slots,
             \/ ChangesToken(s) \/ Enables(s) \/ Retries(s) \/ Disables(s) \/ Boots(s)
             \/ Opens(s) \/ Asks(s) \/ AskFails(s) \/ Claims(s) \/ Drops(s) \/ Begins(s)
             \/ BaselineFails(s) \/ Cleans(s) \/ Cleaned(s)
      PROVE  SlotsInv'
  BY <1>1, ChangesTokenKeeps, StartsKeep, DisablesKeeps, BootsKeeps, OpensKeeps, AsksKeeps, FailuresKeep,
     ClaimsKeeps, BeginsKeeps
<1>2. ASSUME NEW s \in Slots,
             \/ Closes(s) \/ Enqueues(s) \/ Sends(s) \/ Serves(s) \/ Records(s) \/ RecordsError(s)
             \/ SessionStops(s) \/ SessionEnded(s)
      PROVE  SlotsInv'
  BY <1>2, MessagesKeep, ClosesKeep
<1>3. CASE UNCHANGED svars
  BY <1>3 DEF svars, SlotsInv, SlotsTypeOK, OneSlotPerBot, TokenOfBot, Operating, Running, Sending
<1>4. QED
  BY <1>1, <1>2, <1>3, DiesKeeps DEF SlotsNext

(* A bot belongs to one enabled slot, whose token it is and whose session  *)
(* runs it, and no message reaches the server twice (services/telegram.py, *)
(* _activate, disable, retry, token, send_once).                           *)
THEOREM SlotsAreSafe ==
  ASSUME SlotsAssumption
  PROVE  SlotsSpec => []SlotsSafe
<1>1. SlotsInit => SlotsInv
  BY SlotsAtFirst
<1>2. SlotsInv /\ [SlotsNext]_svars => SlotsInv'
  BY SlotsKept
<1>3. SlotsInv => SlotsSafe
  BY DEF SlotsInv, SlotsSafe, RunsAsRecorded, DeliveredOnce, Running, Sending
<1>4. QED
  BY <1>1, <1>2, <1>3, PTL DEF SlotsSpec

-----------------------------------------------------------------------------
(* Buttons                                                                 *)

TokenRec == [kind: Kinds, user: Users, state: {"none", "live", "used", "gone"},
             over: BOOLEAN, link: 0..MaxToken, rev: 0..MaxChanges, result: BOOLEAN]
TapRec   == [at: Places, token: 0..MaxToken, user: Users, new: 0..MaxToken, attached: BOOLEAN]

(* Tokens are given in order.                                              *)
Numbered == Made = 1..Cardinality(Made)

(* What has started something, or was cancelled, is consumed.              *)
EffectsUsed ==
  /\ \A t \in Tokens : started[t] > 0 => action[t].state = "used"
  /\ \A t \in cancelled : action[t].state = "used"

(* A cancel button is younger than its confirmation, and so the second of  *)
(* the two to be evicted or to expire.                                     *)
Linked == \A t \in Tokens : action[t].kind = "cancel" => action[t].link \in Made /\ action[t].link < t

TableInv ==
  /\ action \in [Tokens -> TokenRec] /\ started \in [Tokens -> 0..MaxTap] /\ cancelled \subseteq Tokens
  /\ Cardinality(Live(action)) <= TokenLimit
  /\ Numbered /\ EffectsUsed /\ Linked /\ OnePerToken /\ CancelReachable

(* A tap is of a token that was given; a consumed token is with one tap,   *)
(* which is of its user; one that may start something is the first that    *)
(* could.                                                                  *)
Past == {"do", "plan", "confirm", "start", "result", "revoke"}
TapsOfMade ==
  \A i \in Taps : /\ tap[i].at # "none" => tap[i].token \in Made
                  /\ tap[i].at = "confirm" => tap[i].new \in Made
Consumed ==
  \A i \in Taps : tap[i].at \in Past =>
    /\ action[tap[i].token].state = "used" /\ action[tap[i].token].user = tap[i].user
    /\ \A j \in Taps : tap[j].at \in Past /\ tap[j].token = tap[i].token => i = j
NotYet == \A i \in Taps : tap[i].at \in {"do", "start"} => started[tap[i].token] = 0

TapsInv == tap \in [Taps -> TapRec] /\ TapsOfMade /\ Consumed /\ NotYet /\ CancelHolds

RestTypes ==
  /\ allowed \subseteq Users /\ enabled \in BOOLEAN /\ revision \in 0..MaxChanges
  /\ budget \in [taps: 0..MaxTap, crashes: 0..Losses]

ActionsInv == TableInv /\ TapsInv /\ RestTypes

LEMMA OldestIs ==
  ASSUME NEW S \in SUBSET Nat, IsFiniteSet(S), S # {}
  PROVE  Min(S) \in S /\ \A x \in S : Min(S) <= x
<1> DEFINE Below(m) == {x \in S : x < m}
           T == {Below(m) : m \in S}
<1>1. T \subseteq FiniteSubsetsOf(S) /\ T # {}
  <2>1. \A m \in S : Below(m) \in FiniteSubsetsOf(S)
    BY FS_Subset DEF FiniteSubsetsOf
  <2>2. QED
    BY <2>1
<1>2. PICK U \in T : \A V \in T : ~(<<V, U>> \in StrictSubsetOrdering(S))
  BY <1>1, WFMin, FS_StrictSubsetOrderingWellFounded
<1>3. PICK m \in S : U = Below(m)
  OBVIOUS
<1>4. ASSUME NEW x \in S, x < m
      PROVE  FALSE
  <2>1. Below(x) \subseteq Below(m) /\ x \in Below(m) /\ x \notin Below(x)
    <3>1. x \in Nat /\ m \in Nat /\ \A y \in S : y \in Nat
      OBVIOUS
    <3>2. \A y \in S : y < x => y < m
      BY <1>4, <3>1
    <3>3. Below(x) \subseteq Below(m)
      BY <3>2
    <3>4. x \in Below(m) /\ ~(x < x)
      BY <1>4, <3>1
    <3>5. QED
      BY <3>3, <3>4
  <2>2. <<Below(x), U>> \in StrictSubsetOrdering(S)
    BY <2>1, <1>1, <1>3 DEF StrictSubsetOrdering
  <2>3. QED
    BY <2>2, <1>2
<1>5. \A x \in S : m <= x
  BY <1>4
<1>6. QED
  BY <1>5 DEF Min

(* The tokens that are given, and those of them that can be tapped.        *)
LEMMA TokensFinite ==
  ASSUME ActionsAssumption, NEW S \in SUBSET Tokens
  PROVE  IsFiniteSet(S) /\ Cardinality(S) \in Nat /\ S \subseteq Nat
<1>1. Tokens \subseteq Nat /\ IsFiniteSet(Tokens)
  BY FS_Interval DEF Tokens, ActionsAssumption
<1>2. QED
  BY <1>1, FS_Subset, FS_CardinalityType

LEMMA NextIsNew ==
  ASSUME ActionsAssumption, Numbered
  PROVE  /\ NextToken \notin Made /\ NextToken \in Nat /\ Made \subseteq Tokens
         /\ \A t \in Made : t < NextToken
         /\ Made \cup {NextToken} = 1..Cardinality(Made \cup {NextToken})
<1> DEFINE n == Cardinality(Made)
<1>1. Made \subseteq Tokens
  BY DEF Made
<1>2. n \in Nat
  BY <1>1, TokensFinite
<1>3. Made = 1..n /\ NextToken = n + 1
  BY DEF Numbered, NextToken
<1>4. Made \cup {NextToken} = 1..(n + 1)
  <2>1. 1..n \cup {n + 1} = 1..(n + 1)
    BY <1>2
  <2>2. QED
    BY <1>3, <2>1
<1>5. Cardinality(1..(n + 1)) = n + 1
  BY <1>2, FS_Interval
<1>6. \A t \in Made : t < NextToken
  BY <1>2, <1>3
<1>7. NextToken \notin Made /\ NextToken \in Nat
  BY <1>2, <1>3
<1> HIDE DEF n
<1>8. QED
  BY <1>1, <1>4, <1>5, <1>6, <1>7, <1>3

(* A new button is one more token, and at most the oldest one that could   *)
(* be tapped goes.                                                         *)
LEMMA ButtonIs ==
  ASSUME ActionsAssumption, TableInv, Room, NEW u \in Users, NEW k \in Kinds, NEW l \in 0..MaxToken,
         NEW r \in 0..MaxChanges, Button(u, k, l, r)
  PROVE  /\ action' \in [Tokens -> TokenRec]
         /\ Made' = Made \cup {NextToken}
         /\ action'[NextToken] = [kind |-> k, user |-> u, state |-> "live", over |-> FALSE, link |-> l,
                                  rev |-> r, result |-> FALSE]
         /\ \A t \in Tokens : t # NextToken =>
              /\ action'[t].kind = action[t].kind /\ action'[t].user = action[t].user
              /\ action'[t].link = action[t].link /\ action'[t].over = action[t].over
              /\ action'[t].state # action[t].state =>
                   /\ action'[t].state = "gone" /\ action[t].state = "live"
                   /\ \A x \in Live(action) : t <= x
         /\ Cardinality(Live(action')) <= TokenLimit
<1>1. /\ NextToken \in Tokens /\ NextToken \notin Made /\ action \in [Tokens -> TokenRec]
      /\ Live(action) \subseteq Tokens /\ Cardinality(Live(action)) <= TokenLimit
  BY NextIsNew DEF TableInv, Room, Live
<1>2. IsFiniteSet(Live(action)) /\ Cardinality(Live(action)) \in Nat /\ Live(action) \in SUBSET Nat
  BY <1>1, TokensFinite
<1>3. /\ Evicted \subseteq Live(action) /\ \A t \in Evicted : \A x \in Live(action) : t <= x
      /\ Cardinality(Live(action) \ Evicted) < TokenLimit
  <2>1. CASE Cardinality(Live(action)) < TokenLimit
    <3>1. Evicted = {}
      BY <2>1 DEF Evicted
    <3>2. Live(action) \ {} = Live(action)
      OBVIOUS
    <3>3. QED
      BY <2>1, <3>1, <3>2
  <2>2. CASE ~ Cardinality(Live(action)) < TokenLimit
    <3> DEFINE m == Min(Live(action))
    <3>1. TokenLimit \in Nat \ {0} /\ Evicted = {m}
      BY <2>2 DEF Evicted, ActionsAssumption
    <3>2. Cardinality(Live(action)) = TokenLimit
      BY <1>1, <1>2, <2>2, <3>1
    <3>3. Live(action) # {}
      BY <3>1, <3>2, FS_EmptySet
    <3>4. m \in Live(action) /\ \A x \in Live(action) : m <= x
      BY <1>2, <3>3, OldestIs
    <3>5. Cardinality(Live(action) \ {m}) = Cardinality(Live(action)) - 1
      BY <1>2, <3>4, FS_RemoveElement
    <3> HIDE DEF m
    <3>6. QED
      BY <3>1, <3>2, <3>4, <3>5
  <2>3. QED
    BY <2>1, <2>2
<1>4. NextToken \notin Evicted
  BY <1>1, <1>3 DEF Live, Made
<1>5. NoAction \in TokenRec /\ NoAction.state = "none" /\ NoAction.over = FALSE /\ NoAction.result = FALSE
  BY DEF NoAction, TokenRec, Kinds, ActionsAssumption
<1>6. action'[NextToken] = [kind |-> k, user |-> u, state |-> "live", over |-> FALSE, link |-> l,
                            rev |-> r, result |-> FALSE]
  BY <1>1 DEF Button, NoAction
<1>7. \A t \in Tokens : t # NextToken =>
        action'[t] = IF t \in Evicted THEN [action[t] EXCEPT !.state = "gone"] ELSE action[t]
  BY DEF Button
<1>8. action' \in [Tokens -> TokenRec]
  <2>1. \A t \in Tokens : action'[t] \in TokenRec
    <3>1. action'[NextToken] \in TokenRec
      BY <1>6 DEF TokenRec
    <3>2. \A t \in Tokens : [action[t] EXCEPT !.state = "gone"] \in TokenRec /\ action[t] \in TokenRec
      BY <1>1 DEF TokenRec
    <3>3. QED
      BY <1>7, <3>1, <3>2
  <2>2. DOMAIN action' = Tokens /\ action' = [t \in Tokens |-> action'[t]]
    BY DEF Button
  <2>3. QED
    BY <2>1, <2>2
<1>9. \A t \in Tokens : t # NextToken =>
        /\ action'[t].kind = action[t].kind /\ action'[t].user = action[t].user
        /\ action'[t].link = action[t].link /\ action'[t].over = action[t].over
        /\ action'[t].state = IF t \in Evicted THEN "gone" ELSE action[t].state
  BY <1>1, <1>7 DEF TokenRec
<1>10. Made' = Made \cup {NextToken}
  <2>1. \A t \in Tokens : t # NextToken => (action'[t].state # "none" <=> action[t].state # "none")
    BY <1>3, <1>9 DEF Live
  <2>2. action'[NextToken].state # "none"
    BY <1>6
  <2>3. QED
    BY <1>1, <2>1, <2>2 DEF Made
<1>11. Cardinality(Live(action')) <= TokenLimit
  <2> DEFINE L == Live(action) \ Evicted
  <2>1. Live(action') \subseteq L \cup {NextToken}
    BY <1>9 DEF Live
  <2>2. IsFiniteSet(L) /\ Cardinality(L) \in Nat
    BY <1>1, TokensFinite
  <2>3. IsFiniteSet(L \cup {NextToken}) /\ Cardinality(L \cup {NextToken}) <= Cardinality(L) + 1
    <3> HIDE DEF L
    <3>1. IsFiniteSet(L \cup {NextToken})
          /\ Cardinality(L \cup {NextToken}) = IF NextToken \in L THEN Cardinality(L) ELSE Cardinality(L) + 1
      BY <2>2, FS_AddElement, Zenon
    <3>2. QED
      BY <2>2, <3>1
  <2>4. Cardinality(Live(action')) <= Cardinality(L \cup {NextToken}) /\ Cardinality(Live(action')) \in Nat
    BY <2>1, <2>3, FS_Subset, FS_CardinalityType
  <2>5. Cardinality(L) < TokenLimit /\ TokenLimit \in Nat
    BY <1>3 DEF ActionsAssumption
  <2>6. Cardinality(L \cup {NextToken}) \in Nat
    BY <2>3, FS_CardinalityType
  <2> HIDE DEF L
  <2>7. QED
    BY <2>2, <2>3, <2>4, <2>5, <2>6
<1>12. \A t \in Tokens : t \in Evicted => action[t].state = "live" /\ \A x \in Live(action) : t <= x
  BY <1>3 DEF Live
<1>13. QED
  BY <1>6, <1>8, <1>9, <1>10, <1>11, <1>12

(* Two tokens of which one is new.                                         *)
LEMMA ButtonKeepsTable ==
  ASSUME ActionsAssumption, TableInv, Room, NEW u \in Users, NEW k \in Kinds, NEW l \in 0..MaxToken,
         NEW r \in 0..MaxChanges, Button(u, k, l, r), k = "cancel" => l \in Made,
         UNCHANGED <<started, cancelled>>
  PROVE  TableInv'
<1> USE DEF TableInv
<1>1. /\ NextToken \notin Made /\ NextToken \in Tokens /\ Made \subseteq Tokens
      /\ \A t \in Made : t < NextToken
      /\ Made \cup {NextToken} = 1..Cardinality(Made \cup {NextToken})
  BY NextIsNew DEF Room
<1>2. /\ action' \in [Tokens -> TokenRec] /\ Made' = Made \cup {NextToken}
      /\ action'[NextToken] = [kind |-> k, user |-> u, state |-> "live", over |-> FALSE, link |-> l,
                               rev |-> r, result |-> FALSE]
      /\ Cardinality(Live(action')) <= TokenLimit
  BY ButtonIs
<1>3. \A t \in Tokens : t # NextToken =>
        /\ action'[t].kind = action[t].kind /\ action'[t].user = action[t].user
        /\ action'[t].link = action[t].link /\ action'[t].over = action[t].over
        /\ action'[t].state # action[t].state =>
             /\ action'[t].state = "gone" /\ action[t].state = "live"
             /\ \A x \in Live(action) : t <= x
  BY ButtonIs
<1>4. action[NextToken].state = "none"
  BY <1>1 DEF Made
<1>5. Numbered'
  BY <1>1, <1>2 DEF Numbered
<1>6. EffectsUsed'
  BY <1>1, <1>3, <1>4 DEF EffectsUsed
<1>7. Linked'
  BY <1>1, <1>2, <1>3 DEF Linked
<1>8. CancelReachable'
  <2> SUFFICES ASSUME NEW t \in Tokens, action'[t].kind = "cancel", action'[t].state = "gone" \/ action'[t].over
               PROVE  action'[action'[t].link].state # "live" \/ action'[action'[t].link].over
    BY DEF CancelReachable
  <2>1. t # NextToken
    BY <1>2
  <2>2. PICK c \in Made : c = action'[t].link /\ c = action[t].link /\ c < t /\ c # NextToken
    BY <1>1, <1>3, <2>1 DEF Linked
  <2>3. CASE action[t].state = "gone" \/ action[t].over
    <3>1. action[c].state # "live" \/ action[c].over
      BY <1>3, <2>1, <2>2, <2>3 DEF CancelReachable
    <3>2. QED
      BY <1>1, <1>3, <2>2, <3>1
  <2>4. CASE ~(action[t].state = "gone" \/ action[t].over)
    <3>1. \A x \in Live(action) : t <= x
      BY <1>3, <2>1, <2>4
    <3>2. c \notin Live(action)
      <4>1. t \in Nat /\ c \in Nat /\ ~(t <= c)
        BY <1>1, <2>2 DEF Tokens
      <4>2. QED
        BY <3>1, <4>1
    <3>3. action[c].state # "live"
      BY <1>1, <2>2, <3>2 DEF Live
    <3>4. QED
      BY <1>1, <1>3, <2>2, <3>3
  <2>5. QED
    BY <2>3, <2>4
<1>9. OnePerToken'
  BY DEF OnePerToken
<1>10. QED
  BY <1>2, <1>5, <1>6, <1>7, <1>8, <1>9

(* Tokens of the table are consumed, or expire.                            *)
LEMMA TableKeeps ==
  ASSUME ActionsAssumption, TableInv, action' \in [Tokens -> TokenRec],
         started' \in [Tokens -> 0..MaxTap], cancelled' \subseteq Tokens, OnePerToken',
         \A t \in Tokens :
           /\ action'[t].kind = action[t].kind /\ action'[t].link = action[t].link
           /\ action'[t].state # action[t].state => action[t].state = "live" /\ action'[t].state = "used"
           /\ action[t].over => action'[t].over
           /\ action'[t].over /\ ~ action[t].over /\ action[t].kind = "cancel" =>
                \A x \in Made : x < t => action[x].over \/ action[x].state # "live",
         \A t \in Tokens : started'[t] > 0 => started[t] > 0 \/ action[t].state = "used",
         \A t \in cancelled' : t \in cancelled \/ action'[t].state = "used"
  PROVE  TableInv'
<1> USE DEF TableInv
<1>1. Made' = Made
  BY DEF Made
<1>2. Numbered'
  BY <1>1 DEF Numbered
<1>3. EffectsUsed'
  BY DEF EffectsUsed
<1>4. Linked'
  BY <1>1 DEF Linked
<1>5. CancelReachable'
  <2> SUFFICES ASSUME NEW t \in Tokens, action'[t].kind = "cancel", action'[t].state = "gone" \/ action'[t].over
               PROVE  action'[action'[t].link].state # "live" \/ action'[action'[t].link].over
    BY DEF CancelReachable
  <2>1. PICK c \in Made : c = action'[t].link /\ c = action[t].link /\ c < t
    BY DEF Linked
  <2>2. action[c].state # "live" \/ action[c].over
    <3>1. CASE action[t].state = "gone" \/ action[t].over
      BY <2>1, <3>1 DEF CancelReachable
    <3>2. CASE ~(action[t].state = "gone" \/ action[t].over)
      BY <2>1, <3>2
    <3>3. QED
      BY <3>1, <3>2
  <2>3. c \in Tokens
    BY DEF Made
  <2>4. QED
    BY <2>1, <2>2, <2>3
<1>6. Cardinality(Live(action')) <= TokenLimit
  <2>1. Live(action') \subseteq Live(action) /\ Live(action) \in SUBSET Tokens /\ Live(action') \in SUBSET Tokens
    BY DEF Live
  <2>2. Cardinality(Live(action')) <= Cardinality(Live(action)) /\ Cardinality(Live(action)) \in Nat
        /\ Cardinality(Live(action')) \in Nat
    BY <2>1, TokensFinite, FS_Subset
  <2>3. QED
    BY <2>2 DEF ActionsAssumption
<1>7. QED
  BY <1>2, <1>3, <1>4, <1>5, <1>6

(* Taps go on to where they start nothing.                                 *)
LEMMA TapsKeep ==
  ASSUME ActionsAssumption, TableInv, TapsInv, tap' \in [Taps -> TapRec], started' = started, Made \subseteq Made',
         \A t \in Tokens : action[t].state = "used" => action'[t].state = "used" /\ action'[t].user = action[t].user,
         \A t \in cancelled' : t \in Tokens /\ (t \in cancelled \/ action[t].state = "live"),
         \A i \in Taps :
           /\ tap'[i].at # "none" => tap'[i].token \in Made
           /\ tap'[i].at \in Past =>
                tap[i].at \in Past /\ tap'[i].token = tap[i].token /\ tap'[i].user = tap[i].user
           /\ tap'[i].at \in {"do", "start"} => tap[i].at \in {"do", "start"}
           /\ tap'[i].at = "confirm" => tap'[i].new \in Made'
  PROVE  TapsInv'
<1> USE DEF TapsInv
<1>1. {"do", "start"} \subseteq Past /\ "none" \notin Past
  BY DEF Past
<1>2. TapsOfMade'
  BY DEF TapsOfMade
<1>3. Made \subseteq Tokens
  BY DEF Made
<1>4. Consumed'
  <2> SUFFICES ASSUME NEW i \in Taps, tap'[i].at \in Past
               PROVE  /\ action'[tap'[i].token].state = "used" /\ action'[tap'[i].token].user = tap'[i].user
                      /\ \A j \in Taps : tap'[j].at \in Past /\ tap'[j].token = tap'[i].token => i = j
    BY DEF Consumed, Past
  <2>1. /\ tap[i].at \in Past /\ tap'[i].token = tap[i].token /\ tap'[i].user = tap[i].user
        /\ tap[i].token \in Tokens
    BY <1>1, <1>3
  <2>2. action[tap[i].token].state = "used" /\ action[tap[i].token].user = tap[i].user
    BY <2>1 DEF Consumed
  <2>3. \A j \in Taps : tap'[j].at \in Past /\ tap'[j].token = tap'[i].token => i = j
    BY <2>1 DEF Consumed
  <2>4. QED
    BY <2>1, <2>2, <2>3
<1>5. NotYet'
  BY <1>1 DEF NotYet
<1>6. CancelHolds'
  <2> SUFFICES ASSUME NEW t \in cancelled'
               PROVE  /\ started[t] = 0
                      /\ \A i \in Taps : tap'[i].at \in {"do", "start"} => tap'[i].token # t
    BY DEF CancelHolds
  <2>1. CASE t \in cancelled
    BY <1>1, <2>1 DEF CancelHolds
  <2>2. CASE t \notin cancelled
    <3>1. t \in Tokens /\ action[t].state = "live" /\ started[t] \in Nat
      BY <2>2 DEF TableInv, ActionsAssumption
    <3>2. started[t] = 0
      BY <3>1 DEF TableInv, EffectsUsed
    <3>3. \A i \in Taps : tap'[i].at \in {"do", "start"} => tap'[i].token # t
      BY <1>1, <3>1 DEF Consumed
    <3>4. QED
      BY <3>2, <3>3
  <2>3. QED
    BY <2>1, <2>2
<1>7. QED
  BY <1>2, <1>4, <1>5, <1>6

(* A tap goes on, or leaves.                                               *)
LEMMA TapIs ==
  ASSUME NEW i \in Taps, NEW at \in Places, ActionsAssumption, tap \in [Taps -> TapRec]
  PROVE  /\ Leaves(i) => /\ tap' \in [Taps -> TapRec] /\ tap'[i] = NoTap /\ NoTap.at = "none"
                         /\ \A j \in Taps : j # i => tap'[j] = tap[j]
         /\ Proceeds(i, at) => /\ tap' \in [Taps -> TapRec] /\ tap'[i].at = at
                               /\ tap'[i].token = tap[i].token /\ tap'[i].user = tap[i].user
                               /\ \A j \in Taps : j # i => tap'[j] = tap[j]
<1>1. NoTap \in TapRec /\ NoTap.at = "none"
  BY DEF NoTap, TapRec, Places, ActionsAssumption
<1>2. ASSUME Proceeds(i, at)
      PROVE  /\ tap' \in [Taps -> TapRec] /\ tap'[i].at = at
             /\ tap'[i].token = tap[i].token /\ tap'[i].user = tap[i].user
             /\ \A j \in Taps : j # i => tap'[j] = tap[j]
  <2>1. tap[i] \in TapRec
    OBVIOUS
  <2>2. [tap[i] EXCEPT !.at = at] \in TapRec
    BY <2>1 DEF TapRec
  <2>3. tap' = [tap EXCEPT ![i] = [tap[i] EXCEPT !.at = at]]
    BY <1>2 DEF Proceeds
  <2>4. tap'[i] = [tap[i] EXCEPT !.at = at] /\ \A j \in Taps : j # i => tap'[j] = tap[j]
    BY <2>3
  <2>5. tap' \in [Taps -> TapRec]
    BY <2>2, <2>3
  <2>6. tap'[i].at = at /\ tap'[i].token = tap[i].token /\ tap'[i].user = tap[i].user
    BY <2>1, <2>4 DEF TapRec
  <2>7. QED
    BY <2>4, <2>5, <2>6
<1>3. QED
  BY <1>1, <1>2 DEF Leaves

(* A tap that leaves.                                                      *)
LEMMA LeavingKeeps ==
  ASSUME ActionsAssumption, TableInv, TapsInv, NEW i \in Taps, Leaves(i), started' = started, Made \subseteq Made',
         \A t \in Tokens : action[t].state = "used" => action'[t].state = "used" /\ action'[t].user = action[t].user,
         \A t \in cancelled' : t \in Tokens /\ (t \in cancelled \/ action[t].state = "live")
  PROVE  TapsInv'
<1>1. /\ tap' \in [Taps -> TapRec] /\ tap'[i].at = "none" /\ "none" \notin Past
      /\ \A j \in Taps : j # i => tap'[j] = tap[j]
  BY TapIs DEF TapsInv, Past, Places
<1>2. \A j \in Taps :
           /\ tap'[j].at # "none" => tap'[j].token \in Made
           /\ tap'[j].at \in Past =>
                tap[j].at \in Past /\ tap'[j].token = tap[j].token /\ tap'[j].user = tap[j].user
           /\ tap'[j].at \in {"do", "start"} => tap[j].at \in {"do", "start"}
           /\ tap'[j].at = "confirm" => tap'[j].new \in Made'
  BY <1>1 DEF TapsInv, TapsOfMade
<1>3. QED
  BY <1>1, <1>2, TapsKeep

(* Nothing of the table changes.                                           *)
LEMMA TableStays ==
  ASSUME ActionsAssumption, TableInv, UNCHANGED <<action, started, cancelled>>
  PROVE  TableInv'
BY DEF TableInv, Numbered, Made, EffectsUsed, Linked, OnePerToken, CancelReachable, Live

LEMMA RestStays ==
  ASSUME RestTypes, UNCHANGED <<allowed, enabled, revision, budget>>
  PROVE  RestTypes'
BY DEF RestTypes

(* The table keeps what is consumed when a button is made.                 *)
LEMMA ButtonKeepsUsed ==
  ASSUME ActionsAssumption, TableInv, Room, NEW u \in Users, NEW k \in Kinds, NEW l \in 0..MaxToken,
         NEW r \in 0..MaxChanges, Button(u, k, l, r)
  PROVE  /\ Made \subseteq Made'
         /\ \A t \in Tokens : action[t].state = "used" =>
              action'[t].state = "used" /\ action'[t].user = action[t].user
<1>1. NextToken \notin Made /\ NextToken \in Tokens
  BY NextIsNew DEF TableInv, Room
<1>2. /\ Made' = Made \cup {NextToken}
      /\ \A t \in Tokens : t # NextToken =>
           /\ action'[t].user = action[t].user
           /\ action'[t].state # action[t].state => action[t].state = "live"
  BY ButtonIs
<1>3. \A t \in Tokens : action[t].state = "used" => t # NextToken
  BY <1>1 DEF Made
<1>4. QED
  BY <1>2, <1>3

-----------------------------------------------------------------------------
LEMMA ActionsAtFirst ==
  ASSUME ActionsAssumption, ActionsInit
  PROVE  ActionsInv
<1> USE DEF ActionsInit
<1>1. NoAction \in TokenRec /\ NoAction.state = "none" /\ NoAction.kind = "none"
  BY DEF NoAction, TokenRec, Kinds, ActionsAssumption
<1>2. NoTap \in TapRec /\ NoTap.at = "none"
  BY DEF NoTap, TapRec, Places, ActionsAssumption
<1>3. Made = {} /\ Live(action) = {}
  BY <1>1 DEF Made, Live
<1>4. Cardinality(Live(action)) <= TokenLimit /\ Numbered
  <2>1. Cardinality({}) = 0
    BY FS_EmptySet
  <2>2. QED
    BY <1>3, <2>1 DEF Numbered, ActionsAssumption
<1>5. TableInv
  BY <1>1, <1>3, <1>4 DEF TableInv, EffectsUsed, Linked, OnePerToken, CancelReachable, ActionsAssumption
<1>6. TapsInv
  BY <1>2 DEF TapsInv, TapsOfMade, Consumed, NotYet, CancelHolds, Past
<1>7. RestTypes
  BY DEF RestTypes, ActionsAssumption
<1>8. QED
  BY <1>5, <1>6, <1>7 DEF ActionsInv

LEMMA ShowsMenuKeeps ==
  ASSUME ActionsAssumption, ActionsInv, NEW u \in Users, NEW k \in Kinds, ShowsMenu(u, k)
  PROVE  ActionsInv'
<1> USE DEF ActionsInv, ShowsMenu
<1>1. 0 \in 0..MaxToken /\ 0 \in 0..MaxChanges
  BY DEF ActionsAssumption
<1>2. TableInv'
  BY <1>1, ButtonKeepsTable
<1>3. /\ Made \subseteq Made'
      /\ \A t \in Tokens : action[t].state = "used" => action'[t].state = "used" /\ action'[t].user = action[t].user
  BY <1>1, ButtonKeepsUsed
<1>4. \A i \in Taps : /\ tap[i].at # "none" => tap[i].token \in Made
                      /\ tap[i].at = "confirm" => tap[i].new \in Made'
  BY <1>3 DEF TapsInv, TapsOfMade
<1>5. tap \in [Taps -> TapRec] /\ cancelled \subseteq Tokens
  BY DEF TapsInv, TableInv
<1>6. TapsInv'
  BY <1>3, <1>4, <1>5, TapsKeep
<1>7. QED
  BY <1>2, <1>6, RestStays

LEMMA TapsButtonKeeps ==
  ASSUME ActionsAssumption, ActionsInv, NEW u \in Users, NEW t \in Tokens, TapsButton(u, t)
  PROVE  ActionsInv'
<1> USE DEF ActionsInv, TapsButton
<1>1. PICK n \in Taps : n = budget.taps
  BY DEF RestTypes, Taps, ActionsAssumption
<1> DEFINE new == [at |-> "consume", token |-> t, user |-> u, new |-> 0, attached |-> TRUE]
<1>2. new \in TapRec
  BY DEF TapRec, Places, Tokens, ActionsAssumption
<1>3. tap' = [tap EXCEPT ![n] = new] /\ tap \in [Taps -> TapRec]
  BY <1>1 DEF TapsInv
<1>4. tap' \in [Taps -> TapRec] /\ tap'[n] = new /\ \A i \in Taps : i # n => tap'[i] = tap[i]
  BY <1>2, <1>3
<1>5. new.at = "consume" /\ new.token = t /\ t \in Made /\ "consume" \notin Past
  BY DEF Made, Past
<1> HIDE DEF new
<1>6. \A i \in Taps :
           /\ tap'[i].at # "none" => tap'[i].token \in Made
           /\ tap'[i].at \in Past =>
                tap[i].at \in Past /\ tap'[i].token = tap[i].token /\ tap'[i].user = tap[i].user
           /\ tap'[i].at \in {"do", "start"} => tap[i].at \in {"do", "start"}
           /\ tap'[i].at = "confirm" => tap'[i].new \in Made
  BY <1>4, <1>5 DEF TapsInv, TapsOfMade
<1>7. TableInv' /\ Made' = Made
  BY TableStays DEF Made
<1>8. cancelled \subseteq Tokens
  BY DEF TableInv
<1>9. TapsInv'
  BY <1>4, <1>6, <1>7, <1>8, TapsKeep
<1>10. RestTypes'
  <2>1. budget' = [budget EXCEPT !.taps = budget.taps - 1] /\ budget.taps - 1 \in 0..MaxTap
    BY DEF RestTypes, ActionsAssumption
  <2>2. QED
    BY <2>1 DEF RestTypes
<1>11. QED
  BY <1>7, <1>9, <1>10

(* store.consume: a token that can be tapped, and so of no other tap       *)
LEMMA ReadsKeeps ==
  ASSUME ActionsAssumption, ActionsInv, NEW i \in Taps, Reads(i)
  PROVE  ActionsInv'
<1> USE DEF ActionsInv, Reads
<1>1. PICK t \in Tokens : t = tap[i].token
  BY DEF TapsInv, TapsOfMade, Made
<1>2. /\ action[t].state = "live" /\ action[t].user = tap[i].user
      /\ action \in [Tokens -> TokenRec] /\ action[t] \in TokenRec
  BY <1>1 DEF Valid, TableInv
<1>3. action' = [action EXCEPT ![t] = [action[t] EXCEPT !.state = "used"]]
  BY <1>1, <1>2
<1>4. /\ [action[t] EXCEPT !.state = "used"] \in TokenRec
      /\ action'[t] = [action[t] EXCEPT !.state = "used"] /\ \A x \in Tokens : x # t => action'[x] = action[x]
  BY <1>2, <1>3 DEF TokenRec
<1>5. /\ action'[t].state = "used" /\ action'[t].user = action[t].user /\ action'[t].kind = action[t].kind
      /\ action'[t].link = action[t].link /\ action'[t].over = action[t].over
  BY <1>2, <1>4 DEF TokenRec
<1>6. action' \in [Tokens -> TokenRec]
  BY <1>2, <1>3, <1>4
<1>7. TableInv'
  <2>1. \A x \in Tokens :
           /\ action'[x].kind = action[x].kind /\ action'[x].link = action[x].link /\ action'[x].over = action[x].over
           /\ action'[x].state # action[x].state => action[x].state = "live" /\ action'[x].state = "used"
    BY <1>2, <1>4, <1>5
  <2>2. OnePerToken'
    BY DEF TableInv, OnePerToken
  <2>3. QED
    BY <1>6, <2>1, <2>2, TableKeeps DEF TableInv
<1>8. TapsInv'
  <2>1. /\ tap' \in [Taps -> TapRec] /\ tap'[i].at = "do" /\ tap'[i].token = t /\ tap'[i].user = tap[i].user
        /\ \A j \in Taps : j # i => tap'[j] = tap[j]
    BY <1>1, TapIs DEF TapsInv, Places
  <2>2. "do" \in Past /\ {"do", "start"} \subseteq Past
    BY DEF Past
  <2>3. Made' = Made
    BY <1>2, <1>4, <1>5 DEF Made
  <2>4. \A j \in Taps : tap[j].at \in Past => tap[j].token # t /\ tap[j].token \in Tokens
    BY <1>2, <1>1 DEF TapsInv, Consumed, TapsOfMade, Made, Past
  <2>5. TapsOfMade'
    <3>1. t \in Made
      BY <1>2 DEF Made
    <3>2. QED
      BY <2>1, <2>3, <3>1 DEF TapsInv, TapsOfMade
  <2>6. Consumed'
    <3> SUFFICES ASSUME NEW j \in Taps, tap'[j].at \in Past
                 PROVE  /\ action'[tap'[j].token].state = "used" /\ action'[tap'[j].token].user = tap'[j].user
                        /\ \A k \in Taps : tap'[k].at \in Past /\ tap'[k].token = tap'[j].token => j = k
      BY DEF Consumed, Past
    <3>1. CASE j = i
      BY <1>2, <1>5, <2>1, <2>4, <3>1
    <3>2. CASE j # i
      <4>1. tap[j].at \in Past /\ tap'[j] = tap[j] /\ tap[j].token # t /\ action'[tap[j].token] = action[tap[j].token]
        BY <1>4, <2>1, <2>4, <3>2
      <4>2. /\ action[tap[j].token].state = "used" /\ action[tap[j].token].user = tap[j].user
            /\ \A k \in Taps : tap[k].at \in Past /\ tap[k].token = tap[j].token => j = k
        BY <4>1 DEF TapsInv, Consumed
      <4>3. QED
        BY <2>1, <4>1, <4>2
    <3>3. QED
      BY <3>1, <3>2
  <2>7. started[t] = 0 /\ t \notin cancelled
    <3>1. started[t] \in Nat
      BY DEF TableInv, ActionsAssumption
    <3>2. QED
      BY <1>2, <3>1 DEF TableInv, EffectsUsed
  <2>8. NotYet'
    BY <2>1, <2>7 DEF TapsInv, NotYet
  <2>9. CancelHolds'
    BY <2>1, <2>7 DEF TapsInv, CancelHolds
  <2>10. QED
    BY <2>1, <2>5, <2>6, <2>8, <2>9 DEF TapsInv
<1>9. QED
  BY <1>7, <1>8, RestStays

(* What is expired, used or not allowed ends there.                        *)
LEMMA ExplainsKeeps ==
  ASSUME ActionsAssumption, ActionsInv, NEW i \in Taps, Explains(i) \/ Ignores(i)
  PROVE  ActionsInv'
<1>1. Leaves(i) /\ UNCHANGED <<action, allowed, enabled, revision, started, cancelled, budget>>
  BY DEF Explains, Ignores
<1>2. TableInv' /\ Made' = Made /\ cancelled \subseteq Tokens
  BY <1>1, TableStays DEF ActionsInv, Made, TableInv
<1>3. TapsInv'
  BY <1>1, <1>2, LeavingKeeps DEF ActionsInv
<1>4. QED
  BY <1>1, <1>2, <1>3, RestStays DEF ActionsInv

(* One of the taps that have consumed a token goes on, and may start what  *)
(* the token is for, which none has started yet.                           *)
LEMMA EffectKeeps ==
  ASSUME ActionsAssumption, ActionsInv, NEW i \in Taps, tap[i].at \in {"do", "start"},
         NEW at \in Past, Proceeds(i, at), NEW n \in 0..1,
         started' = [started EXCEPT ![tap[i].token] = @ + n], at \in {"do", "start"} => n = 0,
         at = "confirm" => FALSE,
         UNCHANGED <<action, allowed, enabled, revision, cancelled, budget>>
  PROVE  ActionsInv'
<1> USE DEF ActionsInv
<1>1. {"do", "start"} \subseteq Past /\ Past \subseteq Places /\ "none" \notin Past
  BY DEF Past, Places
<1>2. PICK t \in Tokens : t = tap[i].token
  BY <1>1 DEF TapsInv, TapsOfMade, Made
<1>3. /\ action[t].state = "used" /\ action[t].user = tap[i].user /\ started[t] = 0 /\ t \in Made
      /\ \A j \in Taps : tap[j].at \in Past /\ tap[j].token = t => i = j
  BY <1>1, <1>2 DEF TapsInv, TapsOfMade, Consumed, NotYet
<1>4. t \notin cancelled
  BY <1>2 DEF TapsInv, CancelHolds
<1>5. started' = [started EXCEPT ![t] = n] /\ started \in [Tokens -> 0..MaxTap] /\ n \in 0..MaxTap
  <2>1. started[t] + n = n
    BY <1>3
  <2>2. MaxTap >= 1 /\ MaxTap \in Nat
    BY DEF Taps, ActionsAssumption
  <2>3. started \in [Tokens -> 0..MaxTap] /\ n \in 0..MaxTap
    BY <2>2 DEF TableInv
  <2>4. started' = [started EXCEPT ![t] = started[t] + n]
    BY <1>2, <2>3
  <2>5. QED
    BY <2>1, <2>3, <2>4
<1>6. started' \in [Tokens -> 0..MaxTap] /\ started'[t] = n /\ \A x \in Tokens : x # t => started'[x] = started[x]
  BY <1>5
<1>7. TableInv'
  <2>1. OnePerToken'
    BY <1>6 DEF TableInv, OnePerToken
  <2>2. \A x \in Tokens : started'[x] > 0 => started[x] > 0 \/ action[x].state = "used"
    BY <1>3, <1>6
  <2>3. QED
    BY <1>6, <2>1, <2>2, TableKeeps DEF TableInv
<1>8. /\ tap' \in [Taps -> TapRec] /\ tap'[i].at = at /\ tap'[i].token = t /\ tap'[i].user = tap[i].user
      /\ \A j \in Taps : j # i => tap'[j] = tap[j]
  BY <1>1, <1>2, TapIs DEF TapsInv
<1>9. TapsOfMade'
  <2>1. Made' = Made
    BY DEF Made
  <2>2. QED
    BY <1>3, <1>8, <2>1 DEF TapsInv, TapsOfMade
<1>10. Consumed'
  <2> SUFFICES ASSUME NEW j \in Taps, tap'[j].at \in Past
               PROVE  /\ action[tap'[j].token].state = "used" /\ action[tap'[j].token].user = tap'[j].user
                      /\ \A k \in Taps : tap'[k].at \in Past /\ tap'[k].token = tap'[j].token => j = k
    BY DEF Consumed, Past
  <2>1. tap[j].at \in Past /\ tap'[j].token = tap[j].token /\ tap'[j].user = tap[j].user
    BY <1>1, <1>2, <1>8
  <2>2. \A k \in Taps : tap'[k].at \in Past => tap[k].at \in Past /\ tap'[k].token = tap[k].token
    BY <1>1, <1>2, <1>8
  <2>3. QED
    BY <2>1, <2>2 DEF TapsInv, Consumed
<1>11. \A j \in Taps : tap'[j].at \in {"do", "start"} =>
          tap[j].at \in {"do", "start"} /\ tap'[j].token = tap[j].token /\ started'[tap[j].token] = 0
  <2> SUFFICES ASSUME NEW j \in Taps, tap'[j].at \in {"do", "start"}
               PROVE  /\ tap[j].at \in {"do", "start"} /\ tap'[j].token = tap[j].token
                      /\ started'[tap[j].token] = 0
    OBVIOUS
  <2>1. CASE j = i
    BY <1>2, <1>6, <1>8, <2>1
  <2>2. CASE j # i
    <3>1. tap[j].at \in {"do", "start"} /\ tap'[j] = tap[j]
      BY <1>8, <2>2
    <3>2. tap[j].token \in Tokens /\ tap[j].token # t /\ started[tap[j].token] = 0
      BY <1>1, <1>3, <2>2, <3>1 DEF TapsInv, TapsOfMade, Made, NotYet
    <3>3. QED
      BY <1>6, <3>1, <3>2
  <2>3. QED
    BY <2>1, <2>2
<1>12. NotYet'
  BY <1>11 DEF NotYet
<1>13. CancelHolds'
  <2>1. \A x \in cancelled : x \in Tokens /\ x # t
    BY <1>4 DEF TableInv
  <2>2. QED
    BY <1>6, <1>11, <2>1 DEF TapsInv, CancelHolds
<1>14. QED
  BY <1>7, <1>8, <1>9, <1>10, <1>12, <1>13, RestStays DEF TapsInv

(* callback: one handler for each kind, of which that of a single effect   *)
(* has it here                                                             *)
LEMMA DispatchesKeeps ==
  ASSUME ActionsAssumption, ActionsInv, NEW i \in Taps, Dispatches(i)
  PROVE  ActionsInv'
<1> DEFINE kind == action[tap[i].token].kind
           at == CASE kind = "preflight" -> "plan" [] kind = "confirm" -> "start"
                   [] kind = "cancel" -> "revoke" [] OTHER -> "result"
           n == IF kind = "effect" THEN 1 ELSE 0
<1>1. at \in Past /\ n \in 0..1 /\ (at \in {"do", "start"} => n = 0) /\ at # "confirm"
  BY DEF Past
<1>2. tap[i].at \in {"do", "start"} /\ Proceeds(i, at)
  BY DEF Dispatches
<1>3. tap[i].token \in Tokens /\ started \in [Tokens -> 0..MaxTap] /\ started[tap[i].token] + 0 = started[tap[i].token]
  BY <1>2 DEF ActionsInv, TapsInv, TapsOfMade, Made, TableInv, ActionsAssumption
<1>4. started' = [started EXCEPT ![tap[i].token] = @ + n]
  BY <1>3 DEF Dispatches
<1> HIDE DEF at, n
<1>5. QED
  BY <1>1, <1>2, <1>4, EffectKeeps DEF Dispatches

(* confirm                                                                 *)
LEMMA StartsRunKeeps ==
  ASSUME ActionsAssumption, ActionsInv, NEW i \in Taps, StartsRun(i)
  PROVE  ActionsInv'
<1>1. "result" \in Past /\ 1 \in 0..1
  BY DEF Past
<1>2. QED
  BY <1>1, EffectKeeps DEF StartsRun

(* preflight: the confirmation, then its cancel button                     *)
LEMMA PlansKeeps ==
  ASSUME ActionsAssumption, ActionsInv, NEW i \in Taps, Plans(i)
  PROVE  ActionsInv'
<1> USE DEF ActionsInv
<1>1. CASE ~(tap[i].user \in allowed /\ tap[i].attached /\ Room)
  <2>1. Leaves(i) /\ UNCHANGED <<action, started, cancelled>>
    BY <1>1 DEF Plans
  <2>2. TableInv' /\ Made' = Made /\ cancelled \subseteq Tokens
    BY <2>1, TableStays DEF Made, TableInv
  <2>3. TapsInv'
    BY <2>1, <2>2, LeavingKeeps
  <2>4. QED
    BY <2>2, <2>3, RestStays DEF Plans
<1>2. CASE tap[i].user \in allowed /\ tap[i].attached /\ Room
  <2>1. /\ Button(tap[i].user, "confirm", 0, revision) /\ UNCHANGED <<started, cancelled>>
        /\ tap' = [tap EXCEPT ![i].at = "confirm", ![i].new = NextToken]
    BY <1>2 DEF Plans
  <2>2. /\ tap[i].user \in Users /\ "confirm" \in Kinds /\ 0 \in 0..MaxToken /\ revision \in 0..MaxChanges
        /\ tap[i] \in TapRec /\ tap \in [Taps -> TapRec] /\ cancelled \subseteq Tokens
    BY <1>2 DEF Kinds, RestTypes, ActionsAssumption, TapsInv, TableInv, TapRec
  <2>3. TableInv'
    BY <1>2, <2>1, <2>2, ButtonKeepsTable
  <2>4. /\ Made \subseteq Made' /\ NextToken \in Made'
        /\ \A t \in Tokens : action[t].state = "used" =>
             action'[t].state = "used" /\ action'[t].user = action[t].user
    BY <1>2, <2>1, <2>2, ButtonKeepsUsed, ButtonIs
  <2>5. PICK r \in TapRec : /\ r.at = "confirm" /\ r.new = NextToken /\ r.token = tap[i].token
                            /\ r.user = tap[i].user /\ tap' = [tap EXCEPT ![i] = r]
    <3> DEFINE r == [tap[i] EXCEPT !.at = "confirm", !.new = NextToken]
    <3>1. NextToken \in 0..MaxToken /\ "confirm" \in Places
      BY <1>2 DEF Room, Tokens, Places, ActionsAssumption
    <3>2. r \in TapRec /\ r.at = "confirm" /\ r.new = NextToken /\ r.token = tap[i].token /\ r.user = tap[i].user
      BY <2>2, <3>1 DEF TapRec
    <3>3. tap' = [tap EXCEPT ![i] = r]
      BY <2>1, <2>2
    <3>4. QED
      BY <3>2, <3>3
  <2>6. tap' \in [Taps -> TapRec] /\ tap'[i] = r /\ \A j \in Taps : j # i => tap'[j] = tap[j]
    BY <2>2, <2>5
  <2>7. tap[i].at = "plan" /\ {"plan", "confirm"} \subseteq Past
    BY DEF Plans, Past
  <2>8. \A j \in Taps :
           /\ tap'[j].at # "none" => tap'[j].token \in Made
           /\ tap'[j].at \in Past =>
                tap[j].at \in Past /\ tap'[j].token = tap[j].token /\ tap'[j].user = tap[j].user
           /\ tap'[j].at \in {"do", "start"} => tap[j].at \in {"do", "start"}
           /\ tap'[j].at = "confirm" => tap'[j].new \in Made'
    BY <2>4, <2>5, <2>6, <2>7 DEF TapsInv, TapsOfMade
  <2>9. TapsInv'
    BY <2>1, <2>2, <2>4, <2>6, <2>8, TapsKeep
  <2>10. QED
    BY <2>3, <2>9, RestStays DEF Plans
<1>3. QED
  BY <1>1, <1>2

LEMMA OffersCancelKeeps ==
  ASSUME ActionsAssumption, ActionsInv, NEW i \in Taps, OffersCancel(i) \/ RefusesStart(i)
  PROVE  ActionsInv'
<1> USE DEF ActionsInv
<1>1. Leaves(i) /\ UNCHANGED <<allowed, enabled, revision, started, cancelled, budget>>
  BY DEF OffersCancel, RefusesStart
<1>2. cancelled \subseteq Tokens
  BY DEF TableInv
<1>3. CASE UNCHANGED action
  <2>1. TableInv' /\ Made' = Made
    BY <1>1, <1>3, TableStays DEF Made
  <2>2. TapsInv'
    BY <1>1, <1>2, <1>3, <2>1, LeavingKeeps
  <2>3. QED
    BY <1>1, <2>1, <2>2, RestStays
<1>4. CASE ~ UNCHANGED action
  <2>1. PICK k \in Kinds, l \in 0..MaxToken :
           Room /\ Button(tap[i].user, k, l, 0) /\ (k = "cancel" => l \in Made)
    <3>1. CASE OffersCancel(i)
      <4>1. tap[i].at = "confirm" /\ tap[i].new \in Made /\ Made \subseteq 0..MaxToken
        BY <3>1 DEF OffersCancel, TapsInv, TapsOfMade, Made, Tokens
      <4>2. Room /\ Button(tap[i].user, "cancel", tap[i].new, 0)
        BY <1>4, <3>1 DEF OffersCancel
      <4>3. QED
        BY <4>1, <4>2 DEF Kinds
    <3>2. CASE RefusesStart(i)
      <4>1. Room /\ Button(tap[i].user, "preflight", 0, 0)
        BY <1>4, <3>2 DEF RefusesStart
      <4>2. "preflight" \in Kinds /\ 0 \in 0..MaxToken
        BY DEF Kinds, ActionsAssumption
      <4>3. QED
        BY <4>1, <4>2
    <3>3. QED
      BY <3>1, <3>2
  <2>2. tap[i].user \in Users /\ 0 \in 0..MaxChanges
    BY DEF TapsInv, TapRec, ActionsAssumption
  <2>3. TableInv'
    BY <1>1, <2>1, <2>2, ButtonKeepsTable
  <2>4. /\ Made \subseteq Made'
        /\ \A t \in Tokens : action[t].state = "used" =>
             action'[t].state = "used" /\ action'[t].user = action[t].user
    BY <2>1, <2>2, ButtonKeepsUsed
  <2>5. TapsInv'
    BY <1>1, <1>2, <2>4, LeavingKeeps
  <2>6. QED
    BY <1>1, <2>3, <2>5, RestStays
<1>5. QED
  BY <1>3, <1>4

(* A row of the table in which a flag changes or the token is consumed     *)
LEMMA RowIs ==
  ASSUME NEW t \in Tokens, action \in [Tokens -> TokenRec], NEW e \in TokenRec, action' = [action EXCEPT ![t] = e],
         e.kind = action[t].kind, e.user = action[t].user, e.link = action[t].link,
         e.state = action[t].state \/ (e.state = "used" /\ action[t].state = "live")
  PROVE  /\ action' \in [Tokens -> TokenRec] /\ action'[t] = e /\ Made' = Made
         /\ \A x \in Tokens : x # t => action'[x] = action[x]
         /\ \A x \in Tokens :
              /\ action'[x].kind = action[x].kind /\ action'[x].link = action[x].link
              /\ action'[x].user = action[x].user
              /\ action'[x].state # action[x].state => action[x].state = "live" /\ action'[x].state = "used"
<1>1. action' \in [Tokens -> TokenRec] /\ action'[t] = e /\ \A x \in Tokens : x # t => action'[x] = action[x]
  OBVIOUS
<1>2. \A x \in Tokens :
              /\ action'[x].kind = action[x].kind /\ action'[x].link = action[x].link
              /\ action'[x].user = action[x].user
              /\ action'[x].state # action[x].state => action[x].state = "live" /\ action'[x].state = "used"
  BY <1>1
<1>3. Made' = Made
  BY <1>2 DEF Made
<1>4. QED
  BY <1>1, <1>2, <1>3

(* action_result                                                           *)
LEMMA ResultsKeeps ==
  ASSUME ActionsAssumption, ActionsInv, NEW i \in Taps, Results(i)
  PROVE  ActionsInv'
<1> USE DEF ActionsInv, Results
<1>1. PICK t \in Tokens : t = tap[i].token
  BY DEF TapsInv, TapsOfMade, Made
<1>2. action \in [Tokens -> TokenRec] /\ action[t] \in TokenRec /\ cancelled \subseteq Tokens
  BY DEF TableInv
<1>3. PICK e \in TokenRec :
        /\ action' = [action EXCEPT ![t] = e] /\ e.kind = action[t].kind /\ e.user = action[t].user
        /\ e.link = action[t].link /\ e.state = action[t].state /\ e.over = action[t].over
  <2> DEFINE e == [action[t] EXCEPT !.result = started[t] > 0]
  <2>0. (started[t] > 0) \in BOOLEAN
    OBVIOUS
  <2>1. e \in TokenRec /\ e.kind = action[t].kind /\ e.user = action[t].user /\ e.link = action[t].link
        /\ e.state = action[t].state /\ e.over = action[t].over
    <3> DEFINE b == started[t] > 0
    <3>1. b \in BOOLEAN
      BY <2>0
    <3> HIDE DEF b
    <3>2. [action[t] EXCEPT !.result = b] \in TokenRec
      BY <1>2, <3>1 DEF TokenRec
    <3>3. [action[t] EXCEPT !.result = b].kind = action[t].kind
      BY <1>2 DEF TokenRec
    <3>4. /\ [action[t] EXCEPT !.result = b].user = action[t].user
          /\ [action[t] EXCEPT !.result = b].link = action[t].link
          /\ [action[t] EXCEPT !.result = b].state = action[t].state
          /\ [action[t] EXCEPT !.result = b].over = action[t].over
      BY <1>2 DEF TokenRec
    <3>5. e = [action[t] EXCEPT !.result = b]
      BY DEF b
    <3> HIDE DEF e
    <3>6. QED
      BY <3>2, <3>3, <3>4, <3>5
  <2>2. action' = [action EXCEPT ![t] = e]
    BY <1>1
  <2>3. QED
    BY <2>1, <2>2
<1>4. /\ action' \in [Tokens -> TokenRec] /\ Made' = Made
      /\ \A x \in Tokens :
           /\ action'[x].kind = action[x].kind /\ action'[x].link = action[x].link
           /\ action'[x].user = action[x].user
           /\ action'[x].state # action[x].state => action[x].state = "live" /\ action'[x].state = "used"
      /\ \A x \in Tokens : action'[x].over = action[x].over
  BY <1>2, <1>3, RowIs
<1>5. OnePerToken' /\ started' \in [Tokens -> 0..MaxTap]
  BY DEF TableInv, OnePerToken
<1>6. TableInv'
  <2>1. started' = started /\ cancelled' = cancelled
    OBVIOUS
  <2>2. \A x \in Tokens : started'[x] > 0 => started[x] > 0 \/ action[x].state = "used"
    BY <2>1
  <2>3. cancelled' \subseteq Tokens /\ \A x \in cancelled' : x \in cancelled \/ action'[x].state = "used"
    BY <1>2, <2>1
  <2>4. \A x \in Tokens :
          /\ action'[x].kind = action[x].kind /\ action'[x].link = action[x].link
          /\ action'[x].state # action[x].state => action[x].state = "live" /\ action'[x].state = "used"
          /\ action[x].over => action'[x].over
          /\ action'[x].over /\ ~ action[x].over /\ action[x].kind = "cancel" =>
               \A y \in Made : y < x => action[y].over \/ action[y].state # "live"
    BY <1>4
  <2>5. TableInv /\ OnePerToken' /\ started' \in [Tokens -> 0..MaxTap] /\ action' \in [Tokens -> TokenRec]
    BY <1>4, <1>5
  <2> HIDE DEF ActionsInv, Results
  <2>6. QED
    BY <2>2, <2>3, <2>4, <2>5, TableKeeps
<1>7. TapsInv'
  BY <1>2, <1>4, LeavingKeeps
<1>8. QED
  BY <1>6, <1>7, RestStays

(* cancel_action                                                           *)
LEMMA CancelsKeeps ==
  ASSUME ActionsAssumption, ActionsInv, NEW i \in Taps, Cancels(i)
  PROVE  ActionsInv'
<1> USE DEF ActionsInv
<1>1. Leaves(i) /\ UNCHANGED <<allowed, enabled, revision, started, budget>>
  BY DEF Cancels
<1>2. CASE UNCHANGED <<action, cancelled>>
  <2>1. TableInv' /\ Made' = Made /\ cancelled \subseteq Tokens
    BY <1>1, <1>2, TableStays DEF Made, TableInv
  <2>2. TapsInv'
    BY <1>1, <1>2, <2>1, LeavingKeeps
  <2>3. QED
    BY <1>1, <2>1, <2>2, RestStays
<1>3. CASE ~ UNCHANGED <<action, cancelled>>
  <2>1. PICK c \in Tokens : /\ action[c].state = "live" /\ action' = [action EXCEPT ![c].state = "used"]
                            /\ cancelled' = cancelled \cup {c}
    <3>1. tap[i].token \in Tokens /\ action[tap[i].token].link \in 0..MaxToken
      BY DEF Cancels, TapsInv, TapsOfMade, Made, TableInv, TokenRec
    <3>2. QED
      BY <1>3, <3>1 DEF Cancels, Tokens, ActionsAssumption
  <2>2. action \in [Tokens -> TokenRec] /\ action[c] \in TokenRec /\ cancelled \subseteq Tokens
    BY DEF TableInv
  <2>3. PICK e \in TokenRec :
          /\ action' = [action EXCEPT ![c] = e] /\ e.kind = action[c].kind /\ e.user = action[c].user
          /\ e.link = action[c].link /\ e.state = "used" /\ e.over = action[c].over
    <3> DEFINE e == [action[c] EXCEPT !.state = "used"]
    <3>1. e \in TokenRec /\ e.kind = action[c].kind /\ e.user = action[c].user /\ e.link = action[c].link
          /\ e.state = "used" /\ e.over = action[c].over
      BY <2>2 DEF TokenRec
    <3>2. action' = [action EXCEPT ![c] = e]
      BY <2>1
    <3>3. QED
      BY <3>1, <3>2
  <2>4. /\ action' \in [Tokens -> TokenRec] /\ Made' = Made /\ action'[c] = e
        /\ \A x \in Tokens :
             /\ action'[x].kind = action[x].kind /\ action'[x].link = action[x].link
             /\ action'[x].user = action[x].user
             /\ action'[x].state # action[x].state => action[x].state = "live" /\ action'[x].state = "used"
        /\ \A x \in Tokens : action'[x].over = action[x].over
    BY <2>1, <2>2, <2>3, RowIs
  <2>5. OnePerToken' /\ started' \in [Tokens -> 0..MaxTap]
    BY <1>1 DEF TableInv, OnePerToken
  <2>6. \A x \in cancelled' : x \in Tokens /\ (x \in cancelled \/ (action[x].state = "live" /\ action'[x].state = "used"))
    BY <2>1, <2>2, <2>3, <2>4
  <2>7. TableInv'
    BY <1>1, <2>4, <2>5, <2>6, TableKeeps DEF TableInv
  <2>8. TapsInv'
    <3>1. \A x \in Tokens : action[x].state = "used" => action'[x].state = "used" /\ action'[x].user = action[x].user
      BY <2>4
    <3>2. QED
      BY <1>1, <2>4, <2>6, <3>1, LeavingKeeps
  <2>9. QED
    BY <1>1, <2>7, <2>8, RestStays
<1>4. QED
  BY <1>2, <1>3

(* cancel_rollback_actions                                                 *)
LEMMA CancelsAllKeeps ==
  ASSUME ActionsAssumption, ActionsInv, NEW u \in Users, CancelsAll(u)
  PROVE  ActionsInv'
<1> USE DEF ActionsInv
<1> DEFINE all == {t \in Live(action) : action[t].kind = "confirm" /\ Valid(u, t)}
<1>1. /\ action' = [t \in Tokens |-> IF t \in all THEN [action[t] EXCEPT !.state = "used"] ELSE action[t]]
      /\ cancelled' = cancelled \cup all
      /\ UNCHANGED <<allowed, enabled, revision, tap, started, budget>>
  BY DEF CancelsAll
<1>2. action \in [Tokens -> TokenRec] /\ cancelled \subseteq Tokens
  BY DEF TableInv
<1>3. all \subseteq Tokens /\ \A t \in all : action[t].state = "live"
  BY DEF Live
<1> HIDE DEF all
<1>4. \A t \in Tokens : [action[t] EXCEPT !.state = "used"] \in TokenRec
  BY <1>2 DEF TokenRec
<1>5. action' \in [Tokens -> TokenRec]
  BY <1>1, <1>2, <1>4
<1>6. \A t \in Tokens :
        /\ action'[t].kind = action[t].kind /\ action'[t].link = action[t].link
        /\ action'[t].user = action[t].user /\ action'[t].over = action[t].over
        /\ action'[t].state = IF t \in all THEN "used" ELSE action[t].state
  BY <1>1, <1>2 DEF TokenRec
<1>7. TableInv'
  <2>1. OnePerToken' /\ started' \in [Tokens -> 0..MaxTap]
    BY <1>1 DEF TableInv, OnePerToken
  <2>2. \A x \in cancelled' : x \in Tokens /\ (x \in cancelled \/ action'[x].state = "used")
    BY <1>1, <1>2, <1>3, <1>6
  <2>3. \A t \in Tokens : action'[t].state # action[t].state => action[t].state = "live" /\ action'[t].state = "used"
    BY <1>3, <1>6
  <2>4. QED
    BY <1>1, <1>5, <1>6, <2>1, <2>2, <2>3, TableKeeps, SMTT(30)
<1>8. Made' = Made
  BY <1>3, <1>6 DEF Made
<1>9. TapsInv'
  <2>1. \A x \in Tokens : action[x].state = "used" => action'[x].state = "used" /\ action'[x].user = action[x].user
    BY <1>6
  <2>2. \A x \in cancelled' : x \in Tokens /\ (x \in cancelled \/ action[x].state = "live")
    BY <1>1, <1>2, <1>3
  <2>3. tap' \in [Taps -> TapRec] /\ started' = started
    BY <1>1 DEF TapsInv
  <2>4. \A i \in Taps : /\ tap'[i].at # "none" => tap'[i].token \in Made
                        /\ tap'[i].at = "confirm" => tap'[i].new \in Made'
    BY <1>1, <1>8 DEF TapsInv, TapsOfMade
  <2>5. QED
    BY <1>1, <1>8, <2>1, <2>2, <2>3, <2>4, TapsKeep
<1>10. QED
  BY <1>1, <1>7, <1>9, RestStays

(* A confirmation expires at any time, its cancel button after it.         *)
LEMMA ExpiresKeeps ==
  ASSUME ActionsAssumption, ActionsInv, NEW t \in Tokens, Expires(t)
  PROVE  ActionsInv'
<1> USE DEF ActionsInv, Expires
<1>2. action \in [Tokens -> TokenRec] /\ action[t] \in TokenRec /\ cancelled \subseteq Tokens
  BY DEF TableInv
<1>3. PICK e \in TokenRec :
        /\ action' = [action EXCEPT ![t] = e] /\ e.kind = action[t].kind /\ e.user = action[t].user
        /\ e.link = action[t].link /\ e.state = action[t].state /\ e.over
  <2> DEFINE e == [action[t] EXCEPT !.over = TRUE]
  <2>1. e \in TokenRec /\ e.kind = action[t].kind /\ e.user = action[t].user /\ e.link = action[t].link
        /\ e.state = action[t].state /\ e.over = TRUE
    BY <1>2 DEF TokenRec
  <2>2. action' = [action EXCEPT ![t] = e]
    OBVIOUS
  <2>3. QED
    BY <2>1, <2>2
<1>4. /\ action' \in [Tokens -> TokenRec] /\ Made' = Made /\ action'[t] = e
      /\ \A x \in Tokens : x # t => action'[x] = action[x]
      /\ \A x \in Tokens :
           /\ action'[x].kind = action[x].kind /\ action'[x].link = action[x].link
           /\ action'[x].user = action[x].user
           /\ action'[x].state # action[x].state => action[x].state = "live" /\ action'[x].state = "used"
  BY <1>2, <1>3, RowIs
<1>5. OnePerToken' /\ started' \in [Tokens -> 0..MaxTap]
  BY DEF TableInv, OnePerToken
<1>6. TableInv'
  <2>1. \A x \in Tokens :
          /\ action[x].over => action'[x].over
          /\ action'[x].over /\ ~ action[x].over /\ action[x].kind = "cancel" =>
               \A y \in Made : y < x => action[y].over \/ action[y].state # "live"
    <3> SUFFICES ASSUME NEW x \in Tokens
                 PROVE  /\ action[x].over => action'[x].over
                        /\ action'[x].over /\ ~ action[x].over /\ action[x].kind = "cancel" =>
                             \A y \in Made : y < x => action[y].over \/ action[y].state # "live"
      OBVIOUS
    <3>1. CASE x = t
      BY <1>3, <1>4, <3>1
    <3>2. CASE x # t
      BY <1>4, <3>2
    <3>3. QED
      BY <3>1, <3>2
  <2>2. QED
    BY <1>2, <1>4, <1>5, <2>1, TableKeeps DEF TableInv
<1>7. TapsInv'
  <2>1. \A x \in Tokens : action[x].state = "used" => action'[x].state = "used" /\ action'[x].user = action[x].user
    BY <1>4
  <2>2. tap' \in [Taps -> TapRec] /\ tap' = tap /\ started' = started /\ cancelled' = cancelled
    BY DEF TapsInv
  <2>3. \A i \in Taps : /\ tap'[i].at # "none" => tap'[i].token \in Made
                        /\ tap'[i].at = "confirm" => tap'[i].new \in Made'
    BY <1>4, <2>2 DEF TapsInv, TapsOfMade
  <2>4. QED
    BY <1>2, <1>4, <2>1, <2>2, <2>3, TapsKeep
<1>8. QED
  BY <1>6, <1>7, RestStays

(* A change of the configuration, the end of the session, of the process   *)
LEMMA OthersKeep ==
  ASSUME ActionsAssumption, ActionsInv, Configures \/ Detaches \/ TapsDie
  PROVE  ActionsInv'
<1> USE DEF ActionsInv
<1>1. UNCHANGED <<action, started, cancelled>>
  BY DEF Configures, Detaches, TapsDie
<1>2. TableInv' /\ Made' = Made /\ cancelled \subseteq Tokens
  BY <1>1, TableStays DEF Made, TableInv
<1>3. tap \in [Taps -> TapRec] /\ NoTap \in TapRec /\ NoTap.at = "none"
  BY DEF TapsInv, NoTap, TapRec, Places, ActionsAssumption
<1>4. /\ tap' \in [Taps -> TapRec]
      /\ \A i \in Taps : \/ tap'[i].at = "none"
                         \/ /\ tap'[i].at = tap[i].at /\ tap'[i].token = tap[i].token
                            /\ tap'[i].user = tap[i].user /\ tap'[i].new = tap[i].new
  <2>1. CASE UNCHANGED tap
    BY <1>3, <2>1
  <2>2. CASE tap' = [i \in Taps |-> NoTap]
    BY <1>3, <2>2
  <2>3. CASE tap' = [i \in Taps |-> [tap[i] EXCEPT !.attached = FALSE]]
    <3>1. \A i \in Taps : [tap[i] EXCEPT !.attached = FALSE] \in TapRec
      BY <1>3 DEF TapRec
    <3>2. \A i \in Taps : /\ tap'[i].at = tap[i].at /\ tap'[i].token = tap[i].token
                          /\ tap'[i].user = tap[i].user /\ tap'[i].new = tap[i].new
      BY <1>3, <2>3 DEF TapRec
    <3>3. QED
      BY <2>3, <3>1, <3>2
  <2>4. QED
    BY <2>1, <2>2, <2>3 DEF Configures, Detaches, TapsDie
<1>5. TapsInv'
  <2>1. "none" \notin Past
    BY DEF Past
  <2>2. \A i \in Taps :
           /\ tap'[i].at # "none" => tap'[i].token \in Made
           /\ tap'[i].at \in Past =>
                tap[i].at \in Past /\ tap'[i].token = tap[i].token /\ tap'[i].user = tap[i].user
           /\ tap'[i].at \in {"do", "start"} => tap[i].at \in {"do", "start"}
           /\ tap'[i].at = "confirm" => tap'[i].new \in Made'
    <3> SUFFICES ASSUME NEW i \in Taps
                 PROVE  /\ tap'[i].at # "none" => tap'[i].token \in Made
                        /\ tap'[i].at \in Past =>
                             tap[i].at \in Past /\ tap'[i].token = tap[i].token /\ tap'[i].user = tap[i].user
                        /\ tap'[i].at \in {"do", "start"} => tap[i].at \in {"do", "start"}
                        /\ tap'[i].at = "confirm" => tap'[i].new \in Made'
      OBVIOUS
    <3>1. CASE tap'[i].at = "none"
      BY <2>1, <3>1
    <3>2. CASE tap'[i].at # "none"
      BY <1>2, <1>4, <3>2 DEF TapsInv, TapsOfMade
    <3>3. QED
      BY <3>1, <3>2
  <2>3. QED
    BY <1>1, <1>2, <1>4, <2>2, TapsKeep
<1>6. RestTypes'
  <2>1. CASE Configures
    <3>1. revision + 1 \in 0..MaxChanges
      BY <2>1 DEF Configures, RestTypes, ActionsAssumption
    <3>2. allowed' \subseteq Users /\ enabled' \in BOOLEAN
      BY <2>1 DEF Configures, RestTypes
    <3>3. QED
      BY <2>1, <3>1, <3>2 DEF Configures, RestTypes
  <2>2. CASE Detaches \/ TapsDie
    <3>1. budget' = [budget EXCEPT !.crashes = budget.crashes - 1] /\ budget.crashes - 1 \in 0..Losses
      BY <2>2 DEF Detaches, TapsDie, RestTypes, ActionsAssumption
    <3>2. UNCHANGED <<allowed, enabled, revision>>
      BY <2>2 DEF Detaches, TapsDie
    <3>3. QED
      BY <3>1, <3>2 DEF RestTypes
  <2>3. QED
    BY <2>1, <2>2
<1>7. QED
  BY <1>2, <1>5, <1>6

LEMMA ActionsKept ==
  ASSUME ActionsAssumption, ActionsInv, [ActionsNext]_avars
  PROVE  ActionsInv'
<1>1. ASSUME NEW u \in Users, \/ \E k \in Kinds : ShowsMenu(u, k)
                              \/ \E t \in Tokens : TapsButton(u, t)
                              \/ CancelsAll(u)
      PROVE  ActionsInv'
  BY <1>1, ShowsMenuKeeps, TapsButtonKeeps, CancelsAllKeeps
<1>2. ASSUME NEW i \in Taps, Reads(i) \/ Explains(i) \/ Ignores(i) \/ Dispatches(i) \/ Plans(i)
      PROVE  ActionsInv'
  BY <1>2, ReadsKeeps, ExplainsKeeps, DispatchesKeeps, PlansKeeps
<1>3. ASSUME NEW i \in Taps, OffersCancel(i) \/ StartsRun(i) \/ RefusesStart(i) \/ Results(i) \/ Cancels(i)
      PROVE  ActionsInv'
  BY <1>3, OffersCancelKeeps, StartsRunKeeps, ResultsKeeps, CancelsKeeps
<1>4. ASSUME NEW t \in Tokens, Expires(t)
      PROVE  ActionsInv'
  BY <1>4, ExpiresKeeps
<1>5. CASE UNCHANGED avars
  <2>1. UNCHANGED <<action, allowed, enabled, revision, tap, started, cancelled, budget>>
    BY <1>5 DEF avars
  <2>2. TableInv'
    BY <2>1, TableStays DEF ActionsInv
  <2>3. TapsInv' /\ RestTypes'
    BY <2>1 DEF ActionsInv, TapsInv, TapsOfMade, Made, Consumed, NotYet, CancelHolds, RestTypes
  <2>4. QED
    BY <2>2, <2>3 DEF ActionsInv
<1>6. QED
  BY <1>1, <1>2, <1>3, <1>4, <1>5, OthersKeep DEF ActionsNext

(* A button has one effect at most, however often it is tapped and         *)
(* whatever dies in between; what its user was told is cancelled has none, *)
(* and it can be cancelled for as long as it can be confirmed              *)
(* (telegram_store.py, consume, cancel_action, action).                    *)
THEOREM ActionsAreSafe ==
  ASSUME ActionsAssumption
  PROVE  ActionsSpec => []ActionsSafe
<1>1. ActionsInit => ActionsInv
  BY ActionsAtFirst
<1>2. ActionsInv /\ [ActionsNext]_avars => ActionsInv'
  BY ActionsKept
<1>3. ActionsInv => ActionsSafe
  <2>1. ActionsInv => ActionsTypeOK
    BY DEF ActionsInv, TableInv, TapsInv, RestTypes, ActionsTypeOK, TokenRec, TapRec, Live
  <2>2. QED
    BY <2>1 DEF ActionsInv, TableInv, TapsInv, ActionsSafe
<1>4. QED
  BY <1>1, <1>2, <1>3, PTL DEF ActionsSpec

(* A confirmation starts a run only for the user it was shown to, while he *)
(* may start it, under the configuration that he confirmed and for a       *)
(* session that has not ended (telegram_commands.py, confirm).             *)
THEOREM StartedOnlyByRight ==
  ASSUME ActionsAssumption
  PROVE  ActionsSpec => [][StartedByRight]_avars
<1>1. ActionsInit => ActionsInv
  BY ActionsAtFirst
<1>2. ActionsInv /\ [ActionsNext]_avars => ActionsInv'
  BY ActionsKept
<1>3. ActionsInv /\ [ActionsNext]_avars => StartedByRight
  <2> SUFFICES ASSUME ActionsInv, [ActionsNext]_avars, NEW t \in Tokens,
                      action[t].kind = "confirm", started'[t] > started[t]
               PROVE  \E i \in Taps : /\ tap[i].attached /\ tap[i].token = t /\ tap[i].user = action[t].user
                                      /\ action[t].user \in allowed /\ enabled /\ action[t].rev = revision
    BY DEF StartedByRight
  <2>1. started \in [Tokens -> 0..MaxTap] /\ started[t] \in Nat
    BY DEF ActionsInv, TableInv, ActionsAssumption
  <2>2. started'[t] # started[t]
    BY <2>1
  <2>3. PICK i \in Taps : StartsRun(i) \/ Dispatches(i)
    BY <2>2 DEF ActionsNext, avars, ShowsMenu, TapsButton, CancelsAll, Reads, Explains, Ignores, Plans,
                OffersCancel, RefusesStart, Results, Cancels, Expires, Configures, Detaches, TapsDie
  <2>4. tap[i].token = t
    BY <2>1, <2>2, <2>3 DEF StartsRun, Dispatches
  <2>5. StartsRun(i)
    BY <2>1, <2>2, <2>3, <2>4 DEF Dispatches
  <2>6. tap[i].at \in Past
    BY <2>5 DEF StartsRun, Past
  <2>7. tap[i].user = action[t].user
    BY <2>4, <2>6 DEF ActionsInv, TapsInv, Consumed
  <2>8. QED
    BY <2>4, <2>5, <2>7 DEF StartsRun, Authorized
<1>4. QED
  BY <1>1, <1>2, <1>3, PTL DEF ActionsSpec

-----------------------------------------------------------------------------
(* The outbox                                                              *)

(* The rows to send are in one order.                                      *)
ByAge ==
  /\ older \subseteq Unsent \X Unsent
  /\ \A m \in Unsent : <<m, m>> \notin older
  /\ \A m, n \in Unsent : m = n \/ <<m, n>> \in older \/ <<n, m>> \in older
  /\ \A m, n, o \in Unsent : <<m, n>> \in older /\ <<n, o>> \in older => <<m, o>> \in older

(* One message at most is being sent, and one that waits may be sent once  *)
(* more.  When the one that is sent comes back there is room for it, or it *)
(* is the one too many.                                                    *)
Sendable ==
  /\ \A m \in Messages : outbox[m].state = "none" => outbox[m].attempts = 0
  /\ \A m \in Messages : outbox[m].state = "pending" => outbox[m].attempts < MaxAttempts
  /\ \A m, n \in Messages : outbox[m].state = "sending" /\ outbox[n].state = "sending" => m = n
  /\ Cardinality(Unsent) <= PendingLimit + 1

MailRec == [state: States, attempts: 0..MaxAttempts]
RowsInv == outbox \in [Messages -> MailRec] /\ ByAge /\ Sendable

AdmissionTypes ==
  /\ mailing \in BOOLEAN
  /\ events \in Seq(Notices) /\ since \in 0..Len(events)
  /\ queue \in Seq(Notices) /\ Len(queue) <= QueueLimit /\ rescan \in BOOLEAN
  /\ loop \in [at: {"idle", "got", "check", "recover"}, todo: Seq(Notices)]
  /\ sender \in [at: {"off", "recover", "on"}, todo: Seq(Notices)]
  /\ quota \in [switches: 0..Switches, faults: 0..Outages]

OutboxInv == RowsInv /\ AdmissionTypes

(* A finite set has a first member in every strict order.                  *)
LEMMA FirstOf ==
  ASSUME NEW S, IsFiniteSet(S), S # {}, NEW R,
         \A m \in S : <<m, m>> \notin R,
         \A m, n, o \in S : <<m, n>> \in R /\ <<n, o>> \in R => <<m, o>> \in R
  PROVE  \E m \in S : \A x \in S : <<x, m>> \notin R
<1> DEFINE Before(m) == {x \in S : <<x, m>> \in R}
           T == {Before(m) : m \in S}
<1>1. T \subseteq FiniteSubsetsOf(S) /\ T # {}
  <2>1. \A m \in S : Before(m) \in FiniteSubsetsOf(S)
    BY FS_Subset DEF FiniteSubsetsOf
  <2>2. T \subseteq FiniteSubsetsOf(S)
    BY <2>1
  <2>3. PICK a : a \in S
    OBVIOUS
  <2>4. Before(a) \in T
    BY <2>3
  <2>5. QED
    BY <2>2, <2>4
<1>2. PICK U \in T : \A V \in T : ~(<<V, U>> \in StrictSubsetOrdering(S))
  BY <1>1, WFMin, FS_StrictSubsetOrderingWellFounded
<1>3. PICK m \in S : U = Before(m)
  OBVIOUS
<1>4. ASSUME NEW x \in S, <<x, m>> \in R
      PROVE  FALSE
  <2>1. Before(x) \subseteq Before(m) /\ x \in Before(m) /\ x \notin Before(x)
    BY <1>4
  <2>2. <<Before(x), U>> \in StrictSubsetOrdering(S)
    BY <2>1, <1>1, <1>3 DEF StrictSubsetOrdering
  <2>3. QED
    BY <2>2, <1>2
<1>5. QED
  BY <1>4

LEMMA OldestIn ==
  ASSUME OutboxAssumption, RowsInv, NEW S, S \subseteq Unsent, S # {}
  PROVE  Oldest(S) \in S
<1>1. IsFiniteSet(S)
  BY FS_Subset DEF OutboxAssumption, Unsent
<1>2. \A m \in S : <<m, m>> \notin older
  BY DEF RowsInv, ByAge
<1>3. \A m, n, o \in S : <<m, n>> \in older /\ <<n, o>> \in older => <<m, o>> \in older
  BY DEF RowsInv, ByAge
<1>4. \E m \in S : \A x \in S : <<x, m>> \notin older
  BY <1>1, <1>2, <1>3, FirstOf
<1>5. QED
  BY <1>4 DEF Oldest

(* What is given up waits, and is of the first class there is.             *)
LEMMA VictimIs ==
  ASSUME OutboxAssumption, RowsInv, VictimKinds # {}
  PROVE  LET v == Oldest(PendingOf(VictimKind))
         IN  /\ v \in Pending /\ KindOf[v] = VictimKind /\ VictimKind \in {"ai_tool", "notify", "ai_text"}
             /\ \A x \in Pending : KindOf[x] = "ai_tool" => VictimKind = "ai_tool"
             /\ \A x \in Pending : KindOf[x] = "notify" => VictimKind \in {"ai_tool", "notify"}
<1>1. VictimKind \in VictimKinds /\ VictimKind \in {"ai_tool", "notify", "ai_text"}
  BY DEF VictimKind, VictimKinds
<1>2. PendingOf(VictimKind) # {} /\ PendingOf(VictimKind) \subseteq Unsent
  BY <1>1 DEF VictimKinds, PendingOf, Pending, Unsent
<1>3. Oldest(PendingOf(VictimKind)) \in PendingOf(VictimKind)
  BY <1>2, OldestIn
<1>4. \A x \in Pending : KindOf[x] \in {"ai_tool", "notify"} => KindOf[x] \in VictimKinds
  BY DEF VictimKinds, PendingOf
<1>5. QED
  BY <1>1, <1>3, <1>4 DEF PendingOf, VictimKind

LEMMA UnsentCounts ==
  ASSUME OutboxAssumption
  PROVE  /\ IsFiniteSet(Unsent) /\ Cardinality(Unsent) \in Nat
         /\ IsFiniteSet(Pending) /\ Cardinality(Pending) \in Nat
         /\ PendingLimit \in Nat /\ MaxAttempts \in Nat /\ MaxAttempts > 0
<1>1. Unsent \subseteq Messages /\ Pending \subseteq Messages /\ IsFiniteSet(Messages)
  BY DEF Unsent, Pending, OutboxAssumption
<1>2. QED
  BY <1>1, FS_Subset, FS_CardinalityType DEF OutboxAssumption

(* Rows that leave, or change while they stay in the table.                *)
LEMMA FewerRows ==
  ASSUME OutboxAssumption, RowsInv, outbox' \in [Messages -> MailRec], Unsent' \subseteq Unsent,
         older' = {pair \in older : pair[1] \in Unsent' /\ pair[2] \in Unsent'},
         \A m \in Messages : outbox'[m].state = "none" => outbox'[m].attempts = 0,
         \A m \in Messages : outbox'[m].state = "pending" => outbox'[m].attempts < MaxAttempts,
         \A m, n \in Messages : outbox'[m].state = "sending" /\ outbox'[n].state = "sending" => m = n
  PROVE  RowsInv'
<1>1. \A m, n : <<m, n>> \in older' <=> <<m, n>> \in older /\ m \in Unsent' /\ n \in Unsent'
  OBVIOUS
<1>2. older' \subseteq Unsent' \X Unsent'
  BY <1>1 DEF RowsInv, ByAge
<1>3. ByAge'
  BY <1>1, <1>2 DEF RowsInv, ByAge
<1>4. IsFiniteSet(Unsent) /\ Cardinality(Unsent) \in Nat /\ PendingLimit \in Nat
  BY UnsentCounts
<1>5. Cardinality(Unsent') <= Cardinality(Unsent) /\ Cardinality(Unsent') \in Nat
  BY <1>4, FS_Subset, FS_CardinalityType
<1>6. Cardinality(Unsent') <= PendingLimit + 1
  BY <1>4, <1>5 DEF RowsInv, Sendable
<1>7. QED
  BY <1>3, <1>6 DEF RowsInv, Sendable

(* A message comes, in the place of the rows of `out'.                     *)
LEMMA OneMoreRow ==
  ASSUME OutboxAssumption, RowsInv, NEW m \in Messages, m \notin Unsent, NEW out, out \subseteq Pending,
         outbox' \in [Messages -> MailRec], outbox'[m].state = "pending", outbox'[m].attempts = 0,
         \A x \in out : outbox'[x].state = "dropped",
         \A x \in Messages \ (out \cup {m}) : outbox'[x] = outbox[x],
         older' = Without(out) \cup ((Unsent \ out) \X {m}),
         out # {} \/ Cardinality(Pending) < PendingLimit
  PROVE  RowsInv'
<1>1. Unsent' = (Unsent \ out) \cup {m}
  BY DEF Unsent, Pending
<1>2. \A x, y : <<x, y>> \in older' <=>
        \/ <<x, y>> \in older /\ x \notin out /\ y \notin out
        \/ x \in Unsent \ out /\ y = m
  BY DEF Without
<1>3. older' \subseteq Unsent' \X Unsent'
  BY <1>1, <1>2 DEF RowsInv, ByAge, Without
<1>4. ByAge'
  <2>0. \A a, b : <<a, b>> \in older => a \in Unsent /\ b \in Unsent
    BY DEF RowsInv, ByAge
  <2>1. \A x \in Unsent' : <<x, x>> \notin older'
    <3>1. \A x \in Unsent : <<x, x>> \notin older
      BY DEF RowsInv, ByAge
    <3>2. QED
      BY <1>2, <2>0, <3>1
  <2>2. \A x, y \in Unsent' : x = y \/ <<x, y>> \in older' \/ <<y, x>> \in older'
    BY <1>1, <1>2 DEF RowsInv, ByAge
  <2>3. ASSUME NEW x \in Unsent', NEW y \in Unsent', NEW z \in Unsent', <<x, y>> \in older', <<y, z>> \in older'
        PROVE  <<x, z>> \in older'
    <3>2. y # m /\ y \in Unsent /\ <<x, y>> \in older /\ x \in Unsent \ out
      BY <1>2, <2>0, <2>3
    <3>3. CASE z = m
      BY <1>2, <3>2, <3>3
    <3>4. CASE z # m
      BY <1>2, <2>0, <2>3, <3>2, <3>4 DEF RowsInv, ByAge
    <3>5. QED
      BY <3>3, <3>4
  <2>4. QED
    BY <1>3, <2>1, <2>2, <2>3 DEF ByAge
<1>5. Cardinality(Unsent') <= PendingLimit + 1
  <2>1. IsFiniteSet(Unsent) /\ Cardinality(Unsent) \in Nat /\ PendingLimit \in Nat
        /\ IsFiniteSet(Pending) /\ Cardinality(Pending) \in Nat
    BY UnsentCounts
  <2> DEFINE rest == Unsent \ out
  <2>2. IsFiniteSet(rest) /\ Cardinality(rest) \in Nat /\ rest \subseteq Unsent
    BY <2>1, FS_Subset, FS_CardinalityType
  <2>3. Cardinality(rest) <= PendingLimit
    <3>1. CASE out # {}
      <4>1. PICK v \in out : v \in Unsent
        BY <3>1 DEF Pending, Unsent
      <4>2. rest \subseteq Unsent \ {v}
        BY <4>1
      <4>3. IsFiniteSet(Unsent \ {v}) /\ Cardinality(Unsent \ {v}) = Cardinality(Unsent) - 1
        BY <2>1, <4>1, FS_RemoveElement, Zenon
      <4>4. Cardinality(rest) <= Cardinality(Unsent \ {v})
        BY <4>2, <4>3, FS_Subset
      <4>5. Cardinality(Unsent) <= PendingLimit + 1
        BY DEF RowsInv, Sendable
      <4> HIDE DEF rest
      <4>6. QED
        BY <2>1, <2>2, <4>3, <4>4, <4>5
    <3>2. CASE Cardinality(Pending) < PendingLimit
      <4>1. CASE \A x \in Messages : outbox[x].state # "sending"
        <5>1. Unsent = Pending
          BY <4>1 DEF Unsent, Pending
        <5>2. Cardinality(rest) <= Cardinality(Pending)
          BY <2>1, <2>2, <5>1, FS_Subset
        <5> HIDE DEF rest
        <5>3. QED
          BY <2>1, <2>2, <3>2, <5>2
      <4>2. CASE \E x \in Messages : outbox[x].state = "sending"
        <5>1. PICK w \in Messages : outbox[w].state = "sending"
          BY <4>2
        <5>2. rest \subseteq Pending \cup {w} /\ w \notin Pending
          BY <5>1 DEF Unsent, Pending, RowsInv, Sendable
        <5>3. IsFiniteSet(Pending \cup {w}) /\ Cardinality(Pending \cup {w}) = Cardinality(Pending) + 1
          BY <2>1, <5>2, FS_AddElement, Zenon
        <5>4. Cardinality(rest) <= Cardinality(Pending \cup {w})
          BY <5>2, <5>3, FS_Subset
        <5> HIDE DEF rest
        <5>5. QED
          BY <2>1, <2>2, <3>2, <5>3, <5>4
      <4>3. QED
        BY <4>1, <4>2
    <3>3. QED
      BY <3>1, <3>2
  <2>4. m \notin rest
    OBVIOUS
  <2>5. Cardinality(rest \cup {m}) = Cardinality(rest) + 1
    <3> HIDE DEF rest
    <3>1. QED
      BY <2>2, <2>4, FS_AddElement, Zenon
  <2>6. Unsent' = rest \cup {m}
    BY <1>1
  <2> HIDE DEF rest
  <2>7. QED
    BY <2>1, <2>2, <2>3, <2>5, <2>6
<1>6. \A x \in Messages : outbox'[x].state \in {"none", "sending"} => outbox'[x] = outbox[x]
  OBVIOUS
<1>7. \A x \in Messages : outbox'[x].state = "pending" => outbox'[x].attempts < MaxAttempts
  <2>1. \A x \in Messages : x = m \/ x \in out \/ outbox'[x] = outbox[x]
    OBVIOUS
  <2>2. 0 < MaxAttempts
    BY UnsentCounts
  <2>3. QED
    BY <2>1, <2>2 DEF RowsInv, Sendable
<1>8. QED
  BY <1>4, <1>5, <1>6, <1>7 DEF RowsInv, Sendable

LEMMA EnqueueKeeps ==
  ASSUME OutboxAssumption, RowsInv, NEW m \in Messages, Enqueue(m)
  PROVE  /\ RowsInv' /\ DropsInOrder
         /\ \A x \in Messages : outbox[x].state = "none" /\ outbox'[x].state # "none" => x = m
<1>1. CASE Stored(m) \/ Lost(m)
  <2>1. UNCHANGED <<outbox, older>>
    BY <1>1 DEF Enqueue
  <2>2. RowsInv'
    BY <2>1 DEF RowsInv, ByAge, Sendable, Unsent
  <2>3. QED
    BY <2>1, <2>2 DEF DropsInOrder
<1>2. CASE ~(Stored(m) \/ Lost(m))
  <2>1. /\ ~Busy(m) /\ outbox[m].state = "none" /\ outbox \in [Messages -> MailRec]
        /\ outbox[m].attempts = 0 /\ m \notin Unsent /\ m \notin Pending
    BY <1>2 DEF Enqueue, RowsInv, Sendable, Stored, Unsent, Pending
  <2> DEFINE came == [outbox[m] EXCEPT !.state = "pending"]
             gone == Ended("dropped")
  <2>2. came \in MailRec /\ came.state = "pending" /\ came.attempts = 0
    BY <2>1 DEF MailRec, States
  <2>3. gone \in MailRec /\ gone.state = "dropped"
    BY UnsentCounts DEF Ended, MailRec, States
  <2>4. CASE Full
    <3>1. MayEvict(m)
      BY <1>2, <2>1, <2>4 DEF Lost
    <3> DEFINE k == VictimKind
               v == Oldest(PendingOf(k))
    <3>2. VictimKinds # {}
      BY <3>1 DEF MayEvict
    <3>3. /\ v \in Pending /\ KindOf[v] = k /\ k \in {"ai_tool", "notify", "ai_text"}
          /\ \A x \in Pending : KindOf[x] = "ai_tool" => k = "ai_tool"
          /\ \A x \in Pending : KindOf[x] = "notify" => k \in {"ai_tool", "notify"}
      BY <3>2, VictimIs
    <3>4. outbox' = Added([outbox EXCEPT ![v] = gone], m) /\ older' = Without({v}) \cup ((Unsent \ {v}) \X {m})
      BY <1>2, <2>4 DEF Enqueue
    <3>5. KindOf[m] = "ai_tool" => k = "ai_tool"
      BY <3>1 DEF MayEvict
    <3> HIDE DEF k, v, gone
    <3>6. v # m /\ v \in Messages
      BY <2>1, <3>3 DEF Pending
    <3>7. outbox' = [[outbox EXCEPT ![v] = gone] EXCEPT ![m] = came]
      <4> DEFINE mid == [outbox EXCEPT ![v] = gone]
      <4>1. mid[m] = outbox[m]
        BY <2>1, <3>6
      <4>2. outbox' = [mid EXCEPT ![m] = [mid[m] EXCEPT !.state = "pending"]]
        BY <3>4 DEF Added
      <4> HIDE DEF mid
      <4>3. outbox' = [mid EXCEPT ![m] = came]
        BY <4>1, <4>2
      <4>4. QED
        BY <4>3 DEF mid
    <3> HIDE DEF came
    <3>8. /\ outbox' \in [Messages -> MailRec] /\ outbox'[m] = came /\ outbox'[v] = gone
          /\ \A x \in Messages \ {v, m} : outbox'[x] = outbox[x]
      BY <2>1, <2>2, <2>3, <3>6, <3>7
    <3>9. RowsInv'
      <4>1. PICK out : out = {v}
        OBVIOUS
      <4>2. /\ out \subseteq Pending /\ out # {}
            /\ \A x \in out : outbox'[x].state = "dropped"
            /\ \A x \in Messages \ (out \cup {m}) : outbox'[x] = outbox[x]
        BY <2>3, <3>3, <3>8, <4>1
      <4>3. older' = Without(out) \cup ((Unsent \ out) \X {m})
        BY <3>4, <4>1
      <4>4. QED
        BY <2>1, <2>2, <3>8, <4>2, <4>3, OneMoreRow
    <3>10. \A x \in Messages : outbox[x].state = "pending" /\ outbox'[x].state = "dropped" => x = v
      BY <2>1, <3>8
    <3>11. \A x \in Messages : outbox[x].state = "none" /\ outbox'[x].state # "none" => x = m
      BY <3>3, <3>8 DEF Pending
    <3>12. Class(v) < 4 /\ \A x \in Pending : Class(x) >= Class(v)
      <4>1. /\ k = "ai_tool" => Class(v) = 1
            /\ k = "notify" => Class(v) = 2
            /\ k = "ai_text" => Class(v) = 3
        BY <3>3 DEF Class
      <4>2. \A x : /\ Class(x) \in 1..4
                   /\ Class(x) = 1 => KindOf[x] = "ai_tool"
                   /\ Class(x) = 2 => KindOf[x] = "notify"
        BY DEF Class
      <4>3. QED
        BY <3>3, <4>1, <4>2
    <3>13. Class(m) = 1 => Class(v) = 1
      BY <3>3, <3>5 DEF Class
    <3>14. QED
      BY <3>9, <3>10, <3>11, <3>12, <3>13 DEF DropsInOrder
  <2>5. CASE ~Full
    <3>1. outbox' = Added(outbox, m) /\ older' = older \cup (Unsent \X {m})
      BY <1>2, <2>5 DEF Enqueue
    <3>2. outbox' = [outbox EXCEPT ![m] = came]
      BY <3>1 DEF Added
    <3> HIDE DEF came
    <3>3. /\ outbox' \in [Messages -> MailRec] /\ outbox'[m] = came
          /\ \A x \in Messages \ {m} : outbox'[x] = outbox[x]
      BY <2>1, <2>2, <3>2
    <3>4. Cardinality(Pending) < PendingLimit
      BY <2>5, UnsentCounts DEF Full
    <3>5. Without({}) = older
      BY DEF Without
    <3>6. older' = Without({}) \cup ((Unsent \ {}) \X {m})
      BY <3>1, <3>5
    <3>7. \A x \in Messages \ ({} \cup {m}) : outbox'[x] = outbox[x]
      BY <3>3
    <3>8. RowsInv'
      BY <2>1, <2>2, <3>3, <3>4, <3>6, <3>7, OneMoreRow
    <3>9. QED
      BY <2>1, <2>2, <3>3, <3>8 DEF DropsInOrder
  <2>6. QED
    BY <2>4, <2>5
<1>3. QED
  BY <1>1, <1>2

(* What a step does to the rows, and never to those that were not stored.  *)
Stays == \A x \in Messages : outbox[x].state = "none" => outbox'[x].state = "none"

LEMMA ReopensKeeps ==
  ASSUME OutboxAssumption, RowsInv, Reopens
  PROVE  RowsInv' /\ DropsInOrder /\ Stays
<1>1. /\ outbox' = [m \in Messages |-> IF outbox[m].state = "sending" THEN Ended("done") ELSE outbox[m]]
      /\ older' = Without({m \in Messages : outbox[m].state = "sending"})
  BY DEF Reopens
<1>2. Ended("done") \in MailRec /\ Ended("done").state = "done"
  BY UnsentCounts DEF Ended, MailRec, States
<1>3. /\ outbox' \in [Messages -> MailRec]
      /\ \A m \in Messages : IF outbox[m].state = "sending" THEN outbox'[m].state = "done" ELSE outbox'[m] = outbox[m]
  BY <1>1, <1>2 DEF RowsInv
<1>4. Unsent' = {m \in Unsent : outbox[m].state # "sending"}
  BY <1>3 DEF Unsent
<1>5. older' = {pair \in older : pair[1] \in Unsent' /\ pair[2] \in Unsent'}
  <2>1. older \subseteq Unsent \X Unsent /\ Unsent \subseteq Messages
    BY DEF RowsInv, ByAge, Unsent
  <2>2. QED
    BY <1>1, <1>4, <2>1 DEF Without
<1>6. \A m \in Messages : outbox'[m].state \in {"none", "pending"} => outbox'[m] = outbox[m]
  BY <1>3
<1>7. RowsInv'
  BY <1>3, <1>4, <1>5, <1>6, FewerRows DEF RowsInv, Sendable
<1>8. QED
  BY <1>3, <1>7 DEF DropsInOrder, Stays

LEMMA SendsOldestKeeps ==
  ASSUME OutboxAssumption, RowsInv, SendsOldest
  PROVE  RowsInv' /\ DropsInOrder /\ Stays
<1>0. PICK due \in (SUBSET Pending) \ {{}} :
        outbox' = [outbox EXCEPT ![FirstTaken(due)] = [state |-> "sending", attempts |-> @.attempts + 1]]
  BY DEF SendsOldest
<1> DEFINE urgent == {m \in due : KindOf[m] \in {"reply", "ai_approval"}}
           S == IF urgent # {} THEN urgent ELSE due
<1>1. S # {} /\ S \subseteq Pending
  BY <1>0
<1>a. FirstTaken(due) = Oldest(S)
  BY DEF FirstTaken
<1>2. PICK m : m = FirstTaken(due) /\ m = Oldest(S)
  BY <1>a
<1>3. m \in Pending /\ m \in Messages
  BY <1>1, <1>2, OldestIn DEF Pending, Unsent
<1> DEFINE e == [state |-> "sending", attempts |-> outbox[m].attempts + 1]
<1>4. outbox[m].state = "pending" /\ outbox[m] \in MailRec /\ outbox[m].attempts < MaxAttempts
  BY <1>3 DEF RowsInv, Sendable, Pending
<1>5. e \in MailRec /\ e.state = "sending"
  BY <1>4, UnsentCounts DEF MailRec, States
<1>6. outbox' = [outbox EXCEPT ![m] = e] /\ older' = older
  BY <1>0, <1>2 DEF SendsOldest
<1> HIDE DEF e, S, urgent
<1>7. /\ outbox' \in [Messages -> MailRec] /\ outbox'[m] = e
      /\ \A x \in Messages \ {m} : outbox'[x] = outbox[x]
  BY <1>3, <1>5, <1>6 DEF RowsInv
<1>8. Unsent' = Unsent
  BY <1>3, <1>5, <1>7 DEF Unsent, Pending
<1>9. older' = {pair \in older : pair[1] \in Unsent' /\ pair[2] \in Unsent'}
  BY <1>6, <1>8 DEF RowsInv, ByAge
<1>10. \A x \in Messages : outbox'[x].state \in {"none", "pending"} => outbox'[x] = outbox[x]
  BY <1>5, <1>7
<1>11. \A x \in Messages : outbox'[x].state = "sending" => x = m
  BY <1>7 DEF SendsOldest
<1>12. RowsInv'
  BY <1>7, <1>8, <1>9, <1>10, <1>11, FewerRows DEF RowsInv, Sendable
<1>13. QED
  BY <1>4, <1>5, <1>7, <1>12 DEF DropsInOrder, Stays

LEMMA RecordsAnswerKeeps ==
  ASSUME OutboxAssumption, RowsInv, NEW m \in Messages, RecordsAnswer(m)
  PROVE  RowsInv' /\ DropsInOrder /\ Stays
<1>1. outbox[m].state = "sending" /\ outbox[m] \in MailRec
  BY DEF RecordsAnswer, RowsInv
<1>2. CASE outbox' = [outbox EXCEPT ![m] = Ended("done")] /\ older' = Without({m})
  <2> DEFINE e == Ended("done")
  <2>1. e \in MailRec /\ e.state = "done"
    BY UnsentCounts DEF Ended, MailRec, States
  <2>2. outbox' = [outbox EXCEPT ![m] = e]
    BY <1>2
  <2> HIDE DEF e
  <2>3. /\ outbox' \in [Messages -> MailRec] /\ outbox'[m] = e
        /\ \A x \in Messages \ {m} : outbox'[x] = outbox[x]
    BY <2>1, <2>2 DEF RowsInv
  <2>4. Unsent' = Unsent \ {m}
    BY <2>1, <2>3 DEF Unsent
  <2>5. older' = {pair \in older : pair[1] \in Unsent' /\ pair[2] \in Unsent'}
    <3>1. older \subseteq Unsent \X Unsent
      BY DEF RowsInv, ByAge
    <3>2. QED
      BY <1>2, <2>4, <3>1 DEF Without
  <2>6. \A x \in Messages : outbox'[x].state \in {"none", "pending", "sending"} => outbox'[x] = outbox[x]
    BY <2>1, <2>3
  <2>7. RowsInv'
    BY <2>3, <2>4, <2>5, <2>6, FewerRows DEF RowsInv, Sendable
  <2>8. QED
    BY <1>1, <2>1, <2>3, <2>7 DEF DropsInOrder, Stays
<1>3. CASE MayRetry(m) /\ outbox' = [outbox EXCEPT ![m].state = "pending"] /\ older' = older
  <2> DEFINE e == [outbox[m] EXCEPT !.state = "pending"]
  <2>1. e \in MailRec /\ e.state = "pending" /\ e.attempts < MaxAttempts
    BY <1>1, <1>3, UnsentCounts DEF MailRec, States, MayRetry
  <2>2. outbox' = [outbox EXCEPT ![m] = e]
    BY <1>3
  <2> HIDE DEF e
  <2>3. /\ outbox' \in [Messages -> MailRec] /\ outbox'[m] = e
        /\ \A x \in Messages \ {m} : outbox'[x] = outbox[x]
    BY <2>1, <2>2 DEF RowsInv
  <2>4. Unsent' = Unsent
    BY <1>1, <2>1, <2>3 DEF Unsent
  <2>5. older' = {pair \in older : pair[1] \in Unsent' /\ pair[2] \in Unsent'}
    BY <1>3, <2>4 DEF RowsInv, ByAge
  <2>6. \A x \in Messages : outbox'[x].state \in {"none", "sending"} => outbox'[x] = outbox[x]
    BY <2>1, <2>3
  <2>7. \A x \in Messages : outbox'[x].state = "pending" => outbox'[x].attempts < MaxAttempts
    BY <2>1, <2>3 DEF RowsInv, Sendable
  <2>8. RowsInv'
    BY <2>3, <2>4, <2>5, <2>6, <2>7, FewerRows DEF RowsInv, Sendable
  <2>9. QED
    BY <1>1, <2>1, <2>3, <2>8 DEF DropsInOrder, Stays
<1>4. QED
  BY <1>2, <1>3 DEF RecordsAnswer

(* Where notifications are admitted                                        *)

LEMMA TodoIs ==
  ASSUME NEW S, NEW s \in Seq(S), s # <<>>
  PROVE  Tail(s) \in Seq(S) /\ Head(s) \in S
  OBVIOUS

LEMMA AdmitKeeps ==
  ASSUME OutboxAssumption, RowsInv, NEW m \in Messages, Admit(m)
  PROVE  RowsInv' /\ DropsInOrder /\ (mailing \/ Stays)
<1>1. CASE mailing
  BY <1>1, EnqueueKeeps DEF Admit
<1>2. CASE ~mailing
  <2>1. UNCHANGED <<outbox, older>>
    BY <1>2 DEF Admit
  <2>2. RowsInv'
    BY <2>1 DEF RowsInv, ByAge, Sendable, Unsent
  <2>3. QED
    BY <2>1, <2>2 DEF DropsInOrder, Stays
<1>3. QED
  BY <1>1, <1>2

LEMMA RowsAlone ==
  ASSUME RowsInv, UNCHANGED <<outbox, older>>
  PROVE  RowsInv' /\ DropsInOrder /\ Stays
<1>1. RowsInv'
  BY DEF RowsInv, ByAge, Sendable, Unsent
<1>2. QED
  BY <1>1 DEF DropsInOrder, Stays

NoticesSafe == OutboxInv' /\ DropsInOrder /\ NothingAfterDisable

LEMMA CommitsKeeps ==
  ASSUME OutboxAssumption, OutboxInv, NEW m \in Messages, Commits(m)
  PROVE  NoticesSafe
<1>1. RowsInv' /\ DropsInOrder /\ Stays
  BY RowsAlone DEF OutboxInv, Commits
<1>2. events \in Seq(Notices) /\ queue \in Seq(Notices) /\ m \in Notices
  BY DEF OutboxInv, AdmissionTypes, Commits
<1>3. events' \in Seq(Notices) /\ Len(events') = Len(events) + 1 /\ Len(events) \in Nat
  BY <1>2 DEF Commits
<1>4. since' \in 0..Len(events')
  BY <1>3 DEF OutboxInv, AdmissionTypes, Commits
<1>5. queue' \in Seq(Notices) /\ Len(queue') <= QueueLimit /\ rescan' \in BOOLEAN
  <2>1. /\ queue \in Seq(Notices) /\ Len(queue) <= QueueLimit /\ rescan \in BOOLEAN /\ QueueLimit \in Nat
        /\ Offers(m)
    BY DEF OutboxInv, AdmissionTypes, OutboxAssumption, Commits
  <2>2. CASE Len(queue) < QueueLimit
    <3>1. queue' = Append(queue, m) /\ rescan' = rescan
      BY <2>1, <2>2 DEF Offers
    <3>2. QED
      BY <1>2, <2>1, <2>2, <3>1
  <2>3. CASE ~(Len(queue) < QueueLimit)
    BY <2>1, <2>3 DEF Offers
  <2>4. QED
    BY <2>2, <2>3
<1>6. QED
  BY <1>1, <1>3, <1>4, <1>5 DEF NoticesSafe, OutboxInv, AdmissionTypes, Commits, NothingAfterDisable, Stays, Notices

LEMMA SinceIs ==
  ASSUME OutboxInv
  PROVE  Since \in Seq(Notices)
<1>1. events \in Seq(Notices) /\ since \in Nat /\ Len(events) \in Nat /\ since <= Len(events)
  BY DEF OutboxInv, AdmissionTypes
<1>2. \A i \in since + 1 .. Len(events) : events[i] \in Notices
  BY <1>1
<1>3. QED
  BY <1>1, <1>2, SubSeqProperties DEF Since

LEMMA LoopKeeps ==
  ASSUME OutboxAssumption, OutboxInv, LoopSteps
  PROVE  NoticesSafe
<1>1. CASE LoopTakes
  <2>1. RowsInv' /\ DropsInOrder /\ Stays
    BY <1>1, RowsAlone DEF OutboxInv, LoopTakes
  <2>2. queue \in Seq(Notices) /\ queue # <<>>
    BY <1>1 DEF OutboxInv, AdmissionTypes, LoopTakes
  <2>3. queue' \in Seq(Notices) /\ Len(queue') <= QueueLimit
    BY <1>1, <2>2, TodoIs DEF OutboxInv, AdmissionTypes, LoopTakes, OutboxAssumption
  <2>4. <<Head(queue)>> \in Seq(Notices) /\ <<>> \in Seq(Notices)
    BY <2>2, TodoIs
  <2>5. loop' \in [at: {"idle", "got", "check", "recover"}, todo: Seq(Notices)]
    BY <1>1, <2>4 DEF LoopTakes
  <2>6. QED
    BY <1>1, <2>1, <2>3, <2>5 DEF NoticesSafe, OutboxInv, AdmissionTypes, LoopTakes, NothingAfterDisable, Stays, Notices
<1>2. CASE LoopAdmits
  <2>1. loop.todo \in Seq(Notices) /\ loop.todo # <<>>
    BY <1>2 DEF OutboxInv, AdmissionTypes, LoopAdmits
  <2>2. Tail(loop.todo) \in Seq(Notices) /\ Head(loop.todo) \in Messages
    BY <2>1, TodoIs DEF Notices
  <2>3. RowsInv' /\ DropsInOrder /\ (mailing \/ Stays)
    BY <1>2, <2>2, AdmitKeeps DEF LoopAdmits, OutboxInv
  <2>4. loop' \in [at: {"idle", "got", "check", "recover"}, todo: Seq(Notices)]
    BY <1>2, <2>2 DEF LoopAdmits
  <2>5. QED
    BY <1>2, <2>3, <2>4 DEF NoticesSafe, OutboxInv, AdmissionTypes, LoopAdmits, NothingAfterDisable, Stays, Notices
<1>3. CASE LoopRefused \/ LoopChecks \/ LoopEnds
  <2>1. RowsInv' /\ DropsInOrder /\ Stays
    BY <1>3, RowsAlone DEF OutboxInv, LoopRefused, LoopChecks, LoopEnds
  <2>2. Since \in Seq(Notices) /\ <<>> \in Seq(Notices)
    BY SinceIs
  <2>3. loop' \in [at: {"idle", "got", "check", "recover"}, todo: Seq(Notices)]
    <3>1. CASE loop' = [at |-> "idle", todo |-> <<>>] \/ loop' = [at |-> "recover", todo |-> Since]
      <4>1. PICK none \in Seq(Notices) : none = <<>>
        BY <2>2
      <4>2. loop' = [at |-> "idle", todo |-> none] \/ loop' = [at |-> "recover", todo |-> Since]
        BY <3>1, <4>1
      <4>3. QED
        BY <2>2, <4>2
    <3>2. CASE loop' = [loop EXCEPT !.at = "idle"]
      BY <3>2 DEF OutboxInv, AdmissionTypes
    <3>3. QED
      BY <1>3, <3>1, <3>2 DEF LoopRefused, LoopChecks, LoopEnds
  <2>4. rescan' \in BOOLEAN
    BY <1>3 DEF LoopRefused, LoopChecks, LoopEnds, OutboxInv, AdmissionTypes
  <2>5. UNCHANGED <<mailing, since, events, queue, sender, quota>>
    BY <1>3 DEF LoopRefused, LoopChecks, LoopEnds
  <2>6. QED
    BY <2>1, <2>3, <2>4, <2>5 DEF NoticesSafe, OutboxInv, AdmissionTypes, NothingAfterDisable, Stays, Notices
<1>4. QED
  BY <1>1, <1>2, <1>3 DEF LoopSteps

LEMMA RecoveryKeeps ==
  ASSUME OutboxAssumption, OutboxInv, RecoverySteps
  PROVE  NoticesSafe
<1> DEFINE SenderRec == [at: {"off", "recover", "on"}, todo: Seq(Notices)]
<1>1. CASE SenderStarts
  <2>1. RowsInv' /\ DropsInOrder /\ Stays
    BY <1>1, ReopensKeeps DEF OutboxInv, SenderStarts
  <2>2. sender' \in SenderRec
    BY <1>1, SinceIs DEF SenderStarts
  <2>3. QED
    BY <1>1, <2>1, <2>2 DEF NoticesSafe, OutboxInv, AdmissionTypes, SenderStarts, NothingAfterDisable, Stays, Notices
<1>2. CASE SenderAdmits
  <2>1. sender.todo \in Seq(Notices) /\ sender.todo # <<>> /\ sender \in SenderRec
    BY <1>2 DEF OutboxInv, AdmissionTypes, SenderAdmits
  <2>2. Tail(sender.todo) \in Seq(Notices) /\ Head(sender.todo) \in Messages
    BY <2>1, TodoIs DEF Notices
  <2>3. RowsInv' /\ DropsInOrder /\ (mailing \/ Stays)
    BY <1>2, <2>2, AdmitKeeps DEF SenderAdmits, OutboxInv
  <2>4. sender' \in SenderRec
    BY <1>2, <2>1, <2>2 DEF SenderAdmits
  <2>5. QED
    BY <1>2, <2>3, <2>4 DEF NoticesSafe, OutboxInv, AdmissionTypes, SenderAdmits, NothingAfterDisable, Stays, Notices
<1>3. CASE SenderReady
  <2>1. RowsInv' /\ DropsInOrder /\ Stays
    BY <1>3, RowsAlone DEF OutboxInv, SenderReady
  <2>2. sender' \in SenderRec
    BY <1>3 DEF SenderReady, OutboxInv, AdmissionTypes
  <2>3. QED
    BY <1>3, <2>1, <2>2 DEF NoticesSafe, OutboxInv, AdmissionTypes, SenderReady, NothingAfterDisable, Stays, Notices
<1>4. QED
  BY <1>1, <1>2, <1>3 DEF RecoverySteps

LEMMA SenderKeeps ==
  ASSUME OutboxAssumption, OutboxInv, SenderSteps
  PROVE  NoticesSafe
<1>1. RowsInv' /\ DropsInOrder /\ Stays
  BY SendsOldestKeeps, RecordsAnswerKeeps DEF SenderSteps, OutboxInv
<1>2. UNCHANGED <<mailing, since, events, queue, rescan, loop, sender, quota>>
  BY DEF SenderSteps, SendsOldest, RecordsAnswer
<1>3. QED
  BY <1>1, <1>2 DEF NoticesSafe, OutboxInv, AdmissionTypes, NothingAfterDisable, Stays, Notices

LEMMA SwitchKeeps ==
  ASSUME OutboxAssumption, OutboxInv, TurnsOff \/ TurnsOn \/ SenderEnds \/ OutboxDies
  PROVE  NoticesSafe
<1>1. RowsInv' /\ DropsInOrder /\ Stays
  BY RowsAlone, ReopensKeeps DEF OutboxInv, TurnsOff, TurnsOn, SenderEnds, OutboxDies
<1>2. <<>> \in Seq(Notices) /\ Len(<<>>) = 0 /\ Len(events) \in Nat
  BY DEF OutboxInv, AdmissionTypes
<1>3. sender' \in [at: {"off", "recover", "on"}, todo: Seq(Notices)]
  <2>1. sender' = [at |-> "off", todo |-> <<>>] \/ sender' = [at |-> "recover", todo |-> <<>>]
    BY DEF TurnsOff, TurnsOn, SenderEnds, OutboxDies
  <2>2. PICK none \in Seq(Notices) : none = <<>>
    BY <1>2
  <2>3. sender' = [at |-> "off", todo |-> none] \/ sender' = [at |-> "recover", todo |-> none]
    BY <2>1, <2>2
  <2>4. QED
    BY <2>3
<1>4. quota' \in [switches: 0..Switches, faults: 0..Outages]
  <2>1. quota \in [switches: 0..Switches, faults: 0..Outages] /\ Switches \in Nat /\ Outages \in Nat
    BY DEF OutboxInv, AdmissionTypes, OutboxAssumption
  <2>2. CASE TurnsOff
    BY <2>1, <2>2 DEF TurnsOff
  <2>3. CASE TurnsOn \/ UNCHANGED quota
    BY <2>1, <2>3 DEF TurnsOn
  <2>4. CASE quota.faults > 0 /\ quota' = [quota EXCEPT !.faults = @ - 1]
    BY <2>1, <2>4
  <2>5. QED
    BY <2>2, <2>3, <2>4 DEF SenderEnds, OutboxDies
<1>5. mailing' \in BOOLEAN /\ events' = events /\ since' \in 0..Len(events')
  <2>1. events' = events /\ mailing \in BOOLEAN /\ since \in 0..Len(events)
    BY DEF OutboxInv, AdmissionTypes, TurnsOff, TurnsOn, SenderEnds, OutboxDies
  <2>2. mailing' \in BOOLEAN /\ (since' = since \/ since' = Len(events))
    BY <2>1 DEF TurnsOff, TurnsOn, SenderEnds, OutboxDies
  <2>3. QED
    BY <1>2, <2>1, <2>2
<1>6. /\ queue' \in Seq(Notices) /\ Len(queue') <= QueueLimit /\ rescan' \in BOOLEAN
      /\ loop' \in [at: {"idle", "got", "check", "recover"}, todo: Seq(Notices)]
  <2>1. \/ UNCHANGED <<queue, rescan, loop>>
        \/ queue' = <<>> /\ rescan' = FALSE /\ loop' = [at |-> "idle", todo |-> <<>>]
    BY DEF TurnsOff, TurnsOn, SenderEnds, OutboxDies
  <2>2. PICK none \in Seq(Notices) : none = <<>> /\ Len(none) = 0
    BY <1>2
  <2>3. \/ UNCHANGED <<queue, rescan, loop>>
        \/ queue' = none /\ rescan' = FALSE /\ loop' = [at |-> "idle", todo |-> none]
    BY <2>1, <2>2
  <2>4. QED
    <3>1. CASE UNCHANGED <<queue, rescan, loop>>
      BY <3>1 DEF OutboxInv, AdmissionTypes
    <3>2. CASE queue' = none /\ rescan' = FALSE /\ loop' = [at |-> "idle", todo |-> none]
      <4>1. QueueLimit \in Nat
        BY DEF OutboxAssumption
      <4>2. loop' \in [at: {"idle", "got", "check", "recover"}, todo: Seq(Notices)]
        BY <3>2
      <4>3. rescan' \in BOOLEAN
        BY <3>2
      <4>4. queue' \in Seq(Notices) /\ Len(queue') <= QueueLimit
        BY <2>2, <3>2, <4>1
      <4>5. QED
        BY <4>2, <4>3, <4>4
    <3>3. QED
      BY <2>3, <3>1, <3>2
<1>7. QED
  BY <1>1, <1>3, <1>4, <1>5, <1>6 DEF NoticesSafe, OutboxInv, AdmissionTypes, NothingAfterDisable, Stays, Notices

LEMMA PostsKeeps ==
  ASSUME OutboxAssumption, OutboxInv, NEW m \in Messages, Posts(m)
  PROVE  NoticesSafe
<1>1. /\ RowsInv' /\ DropsInOrder
      /\ \A x \in Messages : outbox[x].state = "none" /\ outbox'[x].state # "none" => x = m
  BY EnqueueKeeps DEF Posts, OutboxInv
<1>2. NothingAfterDisable
  BY <1>1 DEF Posts, NothingAfterDisable, Notices
<1>3. QED
  BY <1>1, <1>2 DEF NoticesSafe, OutboxInv, AdmissionTypes, Posts, Notices

LEMMA OutboxKept ==
  ASSUME OutboxAssumption, OutboxInv, [OutboxNext]_ovars
  PROVE  NoticesSafe
<1>1. CASE UNCHANGED ovars
  <2>1. RowsInv' /\ DropsInOrder /\ Stays
    BY <1>1, RowsAlone DEF ovars, OutboxInv
  <2>2. QED
    BY <1>1, <2>1 DEF ovars, NoticesSafe, OutboxInv, AdmissionTypes, NothingAfterDisable, Stays, Notices
<1>2. CASE OutboxNext
  BY <1>2, CommitsKeeps, PostsKeeps, LoopKeeps, RecoveryKeeps, SenderKeeps, SwitchKeeps DEF OutboxNext
<1>3. QED
  BY <1>1, <1>2

LEMMA OutboxAtFirst ==
  ASSUME OutboxAssumption, OutboxInit
  PROVE  OutboxInv
<1>1. AdmissionTypes
  <2>0. <<>> \in Seq(Notices) /\ Len(<<>>) = 0
    OBVIOUS
  <2>1. PICK none \in Seq(Notices) : none = <<>> /\ Len(none) = 0
    BY <2>0
  <2>2. /\ events = none /\ queue = none /\ loop = [at |-> "idle", todo |-> none]
        /\ sender = [at |-> "recover", todo |-> none]
    BY <2>1 DEF OutboxInit
  <2>3. mailing = TRUE /\ since = 0 /\ rescan = FALSE /\ quota = [switches |-> Switches, faults |-> Outages]
    BY DEF OutboxInit
  <2>4. QED
    <3>1. Switches \in Nat /\ Outages \in Nat /\ QueueLimit \in Nat
      BY DEF OutboxAssumption
    <3>2. quota \in [switches: 0..Switches, faults: 0..Outages]
      BY <2>3, <3>1
    <3>3. /\ loop \in [at: {"idle", "got", "check", "recover"}, todo: Seq(Notices)]
          /\ sender \in [at: {"off", "recover", "on"}, todo: Seq(Notices)]
      BY <2>2
    <3>4. since \in 0..Len(events) /\ Len(queue) <= QueueLimit
      BY <2>1, <2>2, <2>3, <3>1
    <3>5. QED
      BY <2>2, <2>3, <3>2, <3>3, <3>4 DEF AdmissionTypes
<1>2. outbox \in [Messages -> MailRec] /\ \A m \in Messages : outbox[m].state = "none" /\ outbox[m].attempts = 0
  <2>1. [state |-> "none", attempts |-> 0] \in MailRec
    BY UnsentCounts DEF MailRec, States
  <2>2. QED
    BY <2>1 DEF OutboxInit
<1>3. Unsent = {} /\ older = {}
  BY <1>2 DEF Unsent, OutboxInit
<1>4. Cardinality(Unsent) <= PendingLimit + 1
  BY <1>3, FS_EmptySet, UnsentCounts
<1>5. QED
  BY <1>1, <1>2, <1>3, <1>4 DEF OutboxInv, RowsInv, ByAge, Sendable

(* The outbox keeps within its limit, but for the message that comes back  *)
(* (TelegramStore.enqueue, take, sent).                                    *)
THEOREM OutboxIsSafe ==
  ASSUME OutboxAssumption
  PROVE  OutboxSpec => []OutboxSafe
<1>1. OutboxInit => OutboxInv
  BY OutboxAtFirst
<1>2. OutboxInv /\ [OutboxNext]_ovars => OutboxInv'
  BY OutboxKept DEF NoticesSafe
<1>3. OutboxInv => OutboxSafe
  <2> SUFFICES ASSUME OutboxInv
               PROVE  OutboxSafe
    OBVIOUS
  <2>1. older \subseteq Messages \X Messages
    BY DEF OutboxInv, RowsInv, ByAge, Unsent
  <2>2. OutboxTypeOK
    BY <2>1 DEF OutboxTypeOK, OutboxInv, RowsInv, AdmissionTypes, MailRec
  <2>3. Pending \subseteq Unsent
    BY DEF Pending, Unsent
  <2>4. Cardinality(Pending) <= Cardinality(Unsent)
    BY <2>3, UnsentCounts, FS_Subset
  <2>5. PendingBounded
    BY <2>4, UnsentCounts DEF PendingBounded, OutboxInv, RowsInv, Sendable
  <2>6. QED
    BY <2>2, <2>5 DEF OutboxSafe
<1>4. QED
  BY <1>1, <1>2, <1>3, PTL DEF OutboxSpec

(* A full outbox gives up the least important of what waits, and nothing   *)
(* is admitted for a slot that is off, whatever the loop and the session   *)
(* had begun before (TelegramStore.enqueue, notify_run).                   *)
THEOREM OutboxStepsSafe ==
  ASSUME OutboxAssumption
  PROVE  OutboxSpec => [][DropsInOrder /\ NothingAfterDisable]_ovars
<1>1. OutboxInit => OutboxInv
  BY OutboxAtFirst
<1>2. OutboxInv /\ [OutboxNext]_ovars => OutboxInv' /\ DropsInOrder /\ NothingAfterDisable
  BY OutboxKept DEF NoticesSafe
<1>3. QED
  BY <1>1, <1>2, PTL DEF OutboxSpec
=============================================================================

------------------------------- MODULE AiChat -------------------------------
(***************************************************************************)
(* One headless AI session (services/ai_chat.py).  A single owner task     *)
(* takes messages from the inbox and is the only one that changes turns    *)
(* and approvals; readers, timers and requests only post to it.  Claude is *)
(* one resident process that answers the prompts it was fed in order and   *)
(* asks for tool approvals; Codex and agy are one process per turn.        *)
(***************************************************************************)
EXTENDS Naturals, Sequences, FiniteSets

CONSTANTS
  Cli,            \* "claude", "codex" or "agy"
  Prompts,        \* request ids of messages a user sends
  Asks,           \* tool approvals the CLI may request
  KeyOf(_),       \* the rule an approval falls under, or "compound"
  Deciders,       \* approvals a user decides; the others are left alone
  QueueLimit, ApprovalLimit,  \* QUEUE_LIMIT, MAX_PENDING_APPROVALS
  MaxInterrupts,  \* bound: interrupts a user sends
  MayClose, MayExit  \* whether the session is closed, the resident CLI exits

VARIABLES
  inbox, pending, turn, marked, stale,   \* the owner's queue and turn
  phase,          \* "open"; "closing" or "over" once the loop has returned; "final"
  prompt, ends,       \* turn -> its prompt; turn -> how and by whose result
  approvals, rules, timers, graces,      \* memory of the owner; armed timers
  rows, overdue,      \* the durable approvals; deadlines that have passed
  answer,             \* what submit answered to a request id
  cli,                \* resident CLI: alive, prompts to do, answers it was given
  process, attempt,      \* per-turn process tasks; how often one was started
  decider, delivered,  \* decisions taken; those the session was told of
  interrupts

ChatAssumption == QueueLimit \in Nat

turns == <<turn, marked, stale, prompt, ends>>
asks == <<approvals, rules, rows>>
chatvars == <<inbox, pending, turns, phase, asks, timers, graces, overdue,
          answer, cli, process, attempt, decider, delivered, interrupts>>

Resident == Cli = "claude"
Decisions == {"allow_once", "allow_session", "deny"}
Post(act, arg) == inbox' = Append(inbox, [act |-> act, arg |-> arg])
Serving == phase = "open" /\ inbox # <<>>
Count == Len(prompt)

ChatInit ==
  /\ inbox = <<>> /\ pending = <<>> /\ turn = 0 /\ marked = FALSE /\ stale = 0
  /\ phase = "open" /\ prompt = <<>> /\ ends = <<>>
  /\ approvals = {} /\ rules = {} /\ timers = {} /\ graces = {}
  /\ rows = [a \in Asks |-> "none"] /\ overdue = {}
  /\ answer = [r \in Prompts |-> "none"]
  /\ cli = [alive |-> Resident, todo |-> <<>>, told |-> [a \in Asks |-> <<>>]]
  /\ process = <<>> /\ attempt = <<>>
  /\ decider = [a \in Asks |-> "idle"] /\ delivered = {} /\ interrupts = 0

Refused == phase \in {"closing", "final"} \/ Len(pending) >= QueueLimit
Known(r) == answer[r] # "none"

\* A message for the session: the same request id has the same answer.
Submit(r) ==
  /\ answer[r] \in {"none", "sent", "queued"}
  /\ IF Known(r) THEN UNCHANGED <<answer, pending, inbox>>
     ELSE IF Refused
          THEN answer' = [answer EXCEPT ![r] = "refused"] /\ UNCHANGED <<pending, inbox>>
          ELSE /\ answer' = [answer EXCEPT ![r] =
                               IF turn # 0 \/ pending # <<>> THEN "queued" ELSE "sent"]
               /\ pending' = Append(pending, r)
               /\ Post("wake", 0)
  /\ UNCHANGED <<turns, phase, asks, timers, graces, overdue, cli, process, attempt,
                 decider, delivered, interrupts>>

\* The next prompt starts a turn when none runs.
Startable(now, queue) == now = 0 /\ queue # <<>>
Fed(c, n) == IF Resident /\ c.alive THEN [c EXCEPT !.todo = Append(@, n)] ELSE c
Pump(now, mark, queue, c) ==
  IF Startable(now, queue)
  THEN /\ turn' = Count + 1 /\ marked' = FALSE
       /\ prompt' = Append(prompt, Head(queue)) /\ pending' = Tail(queue)
       /\ cli' = Fed(c, Count + 1)
       /\ process' = Append(process, IF Resident THEN "none" ELSE "starting")
       /\ attempt' = Append(attempt, 1)
  ELSE /\ turn' = now /\ marked' = mark /\ pending' = queue /\ cli' = c
       /\ UNCHANGED <<prompt, process, attempt>>

After(queue) == Pump(0, FALSE, queue, cli)

\* A turn reaches its terminal event: what it is and whose result it reports.
Finishes(n, kind, by) ==
  ends' = IF n = 0 THEN ends ELSE Append(ends, [turn |-> n, kind |-> kind, by |-> by])

Respond(c, a, what) == IF c.alive THEN [c EXCEPT !.told[a] = Append(@, what)] ELSE c

\* Pending rows expire; the approvals whose row changed are answered with a denial.
ChangedAll == approvals
Changed == {a \in Asks : rows[a] = "pending"}
ExpireAll ==
  /\ rows' = [a \in Asks |-> IF approvals # {} /\ rows[a] = "pending" THEN "expired" ELSE rows[a]]
  /\ approvals' = approvals \ Changed
  /\ timers' = timers \ (approvals \cap Changed)
Denied(c) == [c EXCEPT !.told = [a \in Asks |->
                IF c.alive /\ a \in approvals \cap Changed THEN Append(@[a], "deny") ELSE @[a]]]

Take(act) == Serving /\ Head(inbox).act = act /\ inbox' = Tail(inbox)
Arg == Head(inbox).arg

OnWake ==
  /\ Take("wake") /\ Pump(turn, marked, pending, cli)
  /\ UNCHANGED <<stale, ends, phase, asks, timers, graces, overdue, answer, decider, delivered, interrupts>>

\* A result of the resident CLI ends the turn that runs now.
Swallowed == stale > 0 /\ turn = 0
OnResult ==
  /\ Take("result")
  /\ IF Swallowed \/ turn = 0
     THEN /\ stale' = IF Swallowed THEN stale - 1 ELSE stale
          /\ UNCHANGED <<turn, marked, prompt, ends, pending, cli, process, attempt>>
     ELSE /\ Finishes(turn, IF marked THEN "interrupted" ELSE Arg.kind, Arg.by)
          /\ After(pending) /\ UNCHANGED stale
  /\ UNCHANGED <<phase, asks, timers, graces, overdue, answer, decider, delivered, interrupts>>

\* A process of a turn is done: a number that is no longer current is ignored.
Current(n) == turn # 0 /\ turn = n
OnTurnDone ==
  /\ Take("turn_done")
  /\ IF Current(Arg.by)
     THEN Finishes(turn, Arg.kind, Arg.by) /\ After(pending)
     ELSE UNCHANGED <<turn, marked, prompt, ends, pending, cli, process, attempt>>
  /\ UNCHANGED <<stale, phase, asks, timers, graces, overdue, answer, decider, delivered, interrupts>>

\* An interrupt drops the queue, denies what is pending and stops the turn.
OnInterrupt ==
  /\ Serving /\ Head(inbox).act = "interrupt"
  /\ pending' = <<>> /\ ExpireAll /\ cli' = Denied(cli)
  /\ IF turn = 0 THEN inbox' = Tail(inbox) /\ UNCHANGED <<turn, marked, ends, graces, process>>
     ELSE IF Resident
     THEN /\ inbox' = Tail(inbox) /\ marked' = TRUE /\ graces' = IF marked THEN graces ELSE graces \cup {turn}
          /\ UNCHANGED <<turn, ends, process>>
     ELSE /\ process' = [process EXCEPT ![turn] = "gone"]
          /\ inbox' = IF process[turn] = "gone" THEN Tail(inbox)   \* its callback has posted
                      ELSE Append(Tail(inbox), [act |-> "turn_done",
                                                arg |-> [kind |-> "interrupted", by |-> turn]])
          /\ Finishes(turn, "interrupted", turn) /\ turn' = 0 /\ marked' = FALSE
          /\ UNCHANGED graces
  /\ UNCHANGED <<stale, prompt, phase, rules, overdue, answer, attempt, decider, delivered, interrupts>>

OnGrace ==
  /\ Take("interrupt_grace")
  /\ IF Current(Arg) /\ marked
     THEN /\ stale' = stale + 1 /\ Finishes(turn, "interrupted", 0)
          /\ After(pending)
     ELSE UNCHANGED <<turn, marked, prompt, ends, pending, cli, process, attempt, stale>>
  /\ UNCHANGED <<phase, asks, timers, graces, overdue, answer, decider, delivered, interrupts>>

\* A tool request: allowed by a rule, denied when too many wait, else pending.
RuleAllows(a) == KeyOf(a) # "compound" /\ KeyOf(a) \in rules
OnRequest ==
  /\ Take("approval_request")
  /\ LET a == Arg
         verdict == IF RuleAllows(a) THEN "ruled"
                    ELSE IF Cardinality(approvals) >= ApprovalLimit THEN "denied" ELSE "pending"
     IN /\ rows' = [rows EXCEPT ![a] = verdict]
        /\ IF verdict = "pending"
           THEN approvals' = approvals \cup {a} /\ timers' = timers \cup {a} /\ cli' = cli
           ELSE /\ cli' = Respond(cli, a, IF verdict = "ruled" THEN "allow" ELSE "deny")
                /\ UNCHANGED <<approvals, timers>>
  /\ UNCHANGED <<pending, turns, phase, rules, graces, overdue, answer, process, attempt,
                 decider, delivered, interrupts>>

\* A decision that has won its row is told to the CLI.
NewRule(a, how) == IF how = "allow_session" /\ KeyOf(a) # "compound" THEN {KeyOf(a)} ELSE {}
OnDecided ==
  /\ Take("approval_decided")
  /\ LET a == Arg.ask IN
     IF a \in approvals
     THEN /\ approvals' = approvals \ {a} /\ timers' = timers \ {a}
          /\ rules' = rules \cup NewRule(a, Arg.how)
          /\ cli' = Respond(cli, a, IF Arg.how = "deny" THEN "deny" ELSE "allow")
     ELSE UNCHANGED <<approvals, timers, rules, cli>>
  /\ UNCHANGED <<pending, turns, phase, rows, graces, overdue, answer, process, attempt,
                 decider, delivered, interrupts>>

\* The deadline message: the row decides who answers.
Won(a) == rows[a] = "pending"
OnExpire ==
  /\ Take("approval_expire")
  /\ IF Arg \in approvals /\ Won(Arg)
     THEN /\ rows' = [rows EXCEPT ![Arg] = "expired"]
          /\ approvals' = approvals \ {Arg} /\ cli' = Respond(cli, Arg, "deny")
     ELSE UNCHANGED <<rows, approvals, cli>>
  /\ UNCHANGED <<pending, turns, phase, rules, timers, graces, overdue, answer, process,
                 attempt, decider, delivered, interrupts>>

\* The session ends: closed, the resident CLI exited, or idle for hours.
Over(now, kind) ==
  /\ phase' = now /\ ExpireAll /\ cli' = Denied(cli)
  /\ Finishes(turn, kind, 0) /\ turn' = 0 /\ marked' = FALSE
  /\ UNCHANGED <<stale, prompt, pending, rules, graces, overdue, answer, process, attempt,
                 decider, delivered, interrupts>>
OnClose == Take("close") /\ Over("closing", "interrupted")
OnExit == Take("proc_exit") /\ Over("over", "failed")
Idle ==
  /\ Resident /\ phase = "open" /\ inbox = <<>> /\ pending = <<>> /\ turn = 0 /\ approvals = {}
  /\ Count > 0   \* bound: a session nobody used is of no interest
  /\ phase' = "over"
  /\ UNCHANGED <<inbox, pending, turns, asks, timers, graces, overdue, answer, cli, process,
                 attempt, decider, delivered, interrupts>>

\* finalize: timers and tracked tasks are cancelled; stop_input and the lifecycle
\* end the resident process.  The task of a turn is reached through self.turn only.
Reached == IF turn # 0 THEN {turn} ELSE {}
Shut(c) == [c EXCEPT !.alive = FALSE, !.todo = <<>>]
Finalize ==
  /\ phase \in {"closing", "over"} /\ phase' = "final"
  /\ inbox' = <<>> /\ pending' = <<>> /\ approvals' = {} /\ timers' = {} /\ graces' = {}
  /\ rows' = [a \in Asks |-> IF rows[a] = "pending" THEN "expired" ELSE rows[a]]
  /\ cli' = Shut(cli)
  /\ process' = [n \in DOMAIN process |-> IF n \in Reached THEN "gone" ELSE process[n]]
  /\ UNCHANGED <<turns, rules, overdue, answer, attempt, decider, delivered, interrupts>>

Owner == \/ OnWake \/ OnResult \/ OnTurnDone \/ OnInterrupt \/ OnGrace \/ OnRequest
         \/ OnDecided \/ OnExpire \/ OnClose \/ OnExit \/ Finalize

\* Timers: an approval's deadline passes before its timer posts.
Deadline(a) ==
  /\ a \in timers /\ a \notin overdue /\ overdue' = overdue \cup {a}
  /\ UNCHANGED <<inbox, pending, turns, phase, asks, timers, graces, answer, cli, process,
                 attempt, decider, delivered, interrupts>>
ExpireTimer(a) ==
  /\ a \in timers /\ a \in overdue /\ timers' = timers \ {a} /\ Post("approval_expire", a)
  /\ UNCHANGED <<pending, turns, phase, asks, graces, overdue, answer, cli, process, attempt,
                 decider, delivered, interrupts>>
GraceTimer(n) ==
  /\ n \in graces /\ graces' = graces \ {n} /\ phase = "open" /\ Post("interrupt_grace", n)
  /\ UNCHANGED <<pending, turns, phase, asks, timers, overdue, answer, cli, process, attempt,
                 decider, delivered, interrupts>>

\* A decision: the row is settled first, and only the winner tells the session.
Settle(a, how) ==
  /\ a \in Deciders /\ decider[a] = "idle" /\ rows[a] = "pending"
  /\ IF a \in overdue
     THEN /\ rows' = [rows EXCEPT ![a] = "expired"]
          /\ decider' = [decider EXCEPT ![a] = "late"]
     ELSE /\ rows' = [rows EXCEPT ![a] = IF how = "deny" THEN "denied" ELSE "allowed"]
          /\ decider' = [decider EXCEPT ![a] = how]
  /\ UNCHANGED <<inbox, pending, turns, phase, approvals, rules, timers, graces, overdue,
                 answer, cli, process, attempt, delivered, interrupts>>
Tell(a) ==
  /\ decider[a] \in Decisions /\ a \notin delivered
  /\ delivered' = delivered \cup {a}
  /\ IF phase = "final" THEN UNCHANGED inbox
     ELSE Post("approval_decided", [ask |-> a, how |-> decider[a]])
  /\ UNCHANGED <<pending, turns, phase, asks, timers, graces, overdue, answer, cli, process,
                 attempt, decider, interrupts>>

UserInterrupt ==
  /\ interrupts < MaxInterrupts /\ phase = "open" /\ interrupts' = interrupts + 1
  /\ Post("interrupt", 0)
  /\ UNCHANGED <<pending, turns, phase, asks, timers, graces, overdue, answer, cli, process,
                 attempt, decider, delivered>>
UserClose ==
  /\ MayClose /\ phase = "open" /\ ~\E i \in DOMAIN inbox : inbox[i].act = "close"
  /\ Post("close", 0)
  /\ UNCHANGED <<pending, turns, phase, asks, timers, graces, overdue, answer, cli, process,
                 attempt, decider, delivered, interrupts>>

\* The resident CLI works on the oldest prompt it was fed, asks, reports, exits.
Asked == {a \in Asks : rows[a] # "none" \/ \E i \in DOMAIN inbox :
                       inbox[i].act = "approval_request" /\ inbox[i].arg = a}
Waiting == {a \in Asked : cli.told[a] = <<>>}
Working == cli.alive /\ cli.todo # <<>> /\ phase = "open"
CliAsks(a) ==
  /\ Working /\ a \notin Asked /\ Post("approval_request", a)
  /\ UNCHANGED <<pending, turns, phase, asks, timers, graces, overdue, answer, cli, process,
                 attempt, decider, delivered, interrupts>>
CliReports(kind) ==
  /\ Working /\ Waiting = {}
  /\ Post("result", [kind |-> kind, by |-> Head(cli.todo)])
  /\ cli' = [cli EXCEPT !.todo = Tail(@)]
  /\ UNCHANGED <<pending, turns, phase, asks, timers, graces, overdue, answer, process,
                 attempt, decider, delivered, interrupts>>
CliExits ==
  /\ MayExit /\ cli.alive /\ phase = "open" /\ cli' = Shut(cli)
  /\ Post("proc_exit", 0)
  /\ UNCHANGED <<pending, turns, phase, asks, timers, graces, overdue, answer, process,
                 attempt, decider, delivered, interrupts>>

\* A process of one turn (_process_turn, _run_process).
TaskDone(n, kind) ==
  /\ process' = [process EXCEPT ![n] = "gone"]
  /\ IF phase = "final" THEN UNCHANGED inbox
     ELSE Post("turn_done", [kind |-> kind, by |-> n])
TaskStarts(n) ==
  /\ process[n] = "starting"
  /\ \/ process' = [process EXCEPT ![n] = "running"] /\ UNCHANGED inbox
     \/ TaskDone(n, "failed")
  /\ UNCHANGED <<pending, turns, phase, asks, timers, graces, overdue, answer, cli, attempt,
                 decider, delivered, interrupts>>
\* agy: a first attempt that fails without a word is tried again with the prompt in argv.
TaskEnds(n, kind) ==
  /\ process[n] = "running"
  /\ IF Cli = "agy" /\ attempt[n] = 1 /\ kind = "fast"
     THEN /\ attempt' = [attempt EXCEPT ![n] = 2]
          /\ process' = [process EXCEPT ![n] = "starting"] /\ UNCHANGED inbox
     ELSE TaskDone(n, IF kind = "fast" THEN "failed" ELSE kind) /\ UNCHANGED attempt
  /\ UNCHANGED <<pending, turns, phase, asks, timers, graces, overdue, answer, cli,
                 decider, delivered, interrupts>>

TaskOver(n) == \E kind \in {"completed", "failed", "fast"} : TaskEnds(n, kind)

Finished == phase = "final" /\ UNCHANGED chatvars

ChatNext ==
  \/ Owner \/ Idle \/ UserInterrupt \/ UserClose \/ CliExits \/ Finished
  \/ \E r \in Prompts : Submit(r)
  \/ \E a \in Asks : \/ Deadline(a) \/ ExpireTimer(a) \/ Tell(a) \/ CliAsks(a)
                     \/ \E how \in Decisions : Settle(a, how)
  \/ \E n \in graces : GraceTimer(n)
  \/ \E kind \in {"completed", "failed"} : CliReports(kind)
  \/ \E n \in DOMAIN process : \/ TaskStarts(n) \/ TaskOver(n)

ChatSpec == ChatInit /\ [][ChatNext]_chatvars

-----------------------------------------------------------------------------
Values(f) == {f[i] : i \in DOMAIN f}
AnswersTo(a) == Values(cli.told[a])
Endings(n) == {i \in DOMAIN ends : ends[i].turn = n}

\* Every variable has its type, and the queue of prompts is bounded.
ChatTypeOK ==
  /\ pending \in Seq(Prompts) /\ Len(pending) <= QueueLimit
  /\ turn \in 0..Count /\ marked \in BOOLEAN /\ stale \in Nat
  /\ phase \in {"open", "closing", "over", "final"}
  /\ approvals \subseteq Asks /\ timers \subseteq Asks /\ overdue \subseteq Asks
  /\ rows \in [Asks -> {"none", "pending", "ruled", "allowed", "denied", "expired"}]
  /\ answer \in [Prompts -> {"none", "sent", "queued", "refused"}]
  /\ process \in Seq({"none", "starting", "running", "gone"}) /\ Len(process) = Count

\* A turn has one terminal event (_finish_turn), turns end in the order they
\* started, no turn is left without an end when the session is over, and no
\* request id was run twice.
OneEnding ==
  /\ \A i, j \in DOMAIN ends : i < j => ends[i].turn < ends[j].turn
  /\ \A n \in 1..Count : n # turn => Endings(n) # {}
  /\ phase # "open" => turn = 0
  /\ \A m, n \in 1..Count : prompt[m] = prompt[n] => m = n

\* The CLI is told at most once what became of a tool request, and it is told
\* what the durable row says (settle_approval decides, expiry and user race).
AnswerMatchesRow ==
  \A a \in Asks :
    /\ Len(cli.told[a]) <= 1
    /\ "allow" \in AnswersTo(a) => rows[a] \in {"allowed", "ruled"}
    /\ "deny" \in AnswersTo(a) => rows[a] \in {"denied", "expired"}

\* A request is allowed without a question only if the user allowed the same
\* kind of request for the session; a compound command never is.
RulesAreGranted ==
  \A a \in Asks : rows[a] = "ruled" =>
    /\ KeyOf(a) # "compound"
    /\ \E b \in Deciders \ {a} : KeyOf(b) = KeyOf(a) /\ decider[b] = "allow_session"

\* While the session is open only the current turn has a process.
ProcessOfTurn ==
  phase = "open" => \A n \in 1..Count : process[n] \in {"starting", "running"} => n = turn

\* A turn that reports a result reports its own.
ResultOfTurn == \A i \in DOMAIN ends : ends[i].by \in {0, ends[i].turn}

\* Once a session is over no process of it is left (POST .../close closes the
\* session and its process group).
NothingLeft == phase = "final" => ~cli.alive /\ \A n \in 1..Count : process[n] \in {"none", "gone"}

\* An approval that is shown as pending is answered, by the user or by its
\* deadline, unless the session ends first (or the decision came between the
\* deadline and its timer: see the README).
Awaiting(a) == a \in approvals /\ decider[a] # "late"
Answered(a) == cli.told[a] # <<>> \/ phase # "open" \/ ~cli.alive \/ decider[a] = "late"

\* With one process per turn every accepted prompt is run to its end, unless
\* an interrupt drops it or the session is over.
Accepted(r) == answer[r] \in {"sent", "queued"}
RunToItsEnd(r) == (\E i \in DOMAIN ends : prompt[ends[i].turn] = r) \/ interrupts > 0 \/ phase # "open"

\* Turns and approvals end once and as the user decided.  (A resident CLI may
\* report a prompt that was interrupted as the next turn; a process started
\* while the session closes may survive it: see the README.)
ChatSafe ==
  /\ ChatTypeOK /\ OneEnding /\ ProcessOfTurn /\ AnswerMatchesRow /\ RulesAreGranted
  /\ IF Resident THEN NothingLeft ELSE ResultOfTurn
=============================================================================

-------------------------- MODULE TelegramActions --------------------------
(***************************************************************************)
(* services/telegram_commands.py: the buttons of the main bot.  Each has a *)
(* token of the table tg_actions, good for one tap of one user; a tap of a *)
(* confirmation starts a run, under permissions that are read again while  *)
(* the run is recorded.  Taps overlap, the session may end and the process *)
(* die at every step.                                                      *)
(***************************************************************************)
EXTENDS Naturals, FiniteSets, FiniteSetsExt

CONSTANTS
  Users,       \* users of the chat
  MaxToken,    \* bound: tokens are numbered in the order of their creation
  TokenLimit,  \* 16 unconsumed tokens of a chat
  MaxTap,      \* bound: taps
  MaxChanges,  \* bound: changes of the configuration
  Losses       \* bound: ends of the session, or of the process

Tokens == 1..MaxToken
Taps == 1..MaxTap

ActionsAssumption ==
  /\ Users # {} /\ IsFiniteSet(Users) /\ MaxToken \in Nat /\ TokenLimit \in Nat \ {0}
  /\ MaxTap \in Nat /\ MaxChanges \in Nat /\ Losses \in Nat

VARIABLES
  action,     \* tg_actions: token -> [kind, user, state, over, link, rev, result]
  allowed,    \* users who may run the task now
  enabled,    \* control.enabled
  revision,   \* of the configuration
  tap,        \* tap -> its handler: [at, token, user, new, attached]
  started,    \* history: token -> runs, or other effects, that it started
  cancelled,  \* history: confirmations that a user was told are cancelled
  budget

avars == <<action, allowed, enabled, revision, tap, started, cancelled, budget>>

Kinds == {"none", "menu", "preflight", "effect", "confirm", "cancel"}
Places == {"none", "consume", "do", "plan", "confirm", "cancel", "start", "result", "revoke"}
NoAction == [kind |-> "none", user |-> CHOOSE u \in Users : TRUE, state |-> "none", over |-> FALSE,
             link |-> 0, rev |-> 0, result |-> FALSE]
NoTap == [at |-> "none", token |-> 0, user |-> CHOOSE u \in Users : TRUE,
          new |-> 0, attached |-> FALSE]

ActionsTypeOK ==
  /\ action \in [Tokens -> [kind: Kinds, user: Users, state: {"none", "live", "used", "gone"},
                            over: BOOLEAN, link: 0..MaxToken, rev: 0..MaxChanges, result: BOOLEAN]]
  /\ allowed \subseteq Users /\ enabled \in BOOLEAN /\ revision \in 0..MaxChanges
  /\ tap \in [Taps -> [at: Places, token: 0..MaxToken, user: Users, new: 0..MaxToken,
                  attached: BOOLEAN]]
  /\ started \in [Tokens -> 0..MaxTap] /\ cancelled \subseteq Tokens
  /\ budget \in [taps: 0..MaxTap, crashes: 0..Losses]
  /\ Cardinality({t \in Tokens : action[t].state = "live"}) <= TokenLimit

ActionsInit ==
  /\ action = [t \in Tokens |-> NoAction]
  /\ allowed = Users /\ enabled = TRUE /\ revision = 0
  /\ tap = [i \in Taps |-> NoTap]
  /\ started = [t \in Tokens |-> 0] /\ cancelled = {}
  /\ budget = [taps |-> MaxTap, crashes |-> Losses]

-----------------------------------------------------------------------------
(* store.action: a new token, for which the oldest unconsumed one may go   *)
Live(a) == {t \in Tokens : a[t].state = "live"}
Made == {t \in Tokens : action[t].state # "none"}
NextToken == Cardinality(Made) + 1
Room == NextToken \in Tokens

Evicted == IF Cardinality(Live(action)) < TokenLimit THEN {} ELSE {Min(Live(action))}

Button(u, kind, link, rev) ==
  action' = [t \in Tokens |->
    IF t = NextToken THEN [NoAction EXCEPT !.kind = kind, !.user = u, !.state = "live", !.link = link, !.rev = rev]
    ELSE IF t \in Evicted THEN [action[t] EXCEPT !.state = "gone"] ELSE action[t]]

Leaves(i) == tap' = [tap EXCEPT ![i] = NoTap]
Proceeds(i, at) == tap' = [tap EXCEPT ![i].at = at]

-----------------------------------------------------------------------------
(* The user opens a menu, which offers an operation or another action      *)
ShowsMenu(u, kind) ==
  /\ kind \in {"preflight", "effect"} /\ Room
  /\ Button(u, kind, 0, 0)
  /\ UNCHANGED <<allowed, enabled, revision, tap, started, cancelled, budget>>

(* A button may be tapped by anybody who sees it, and twice                *)
TapsButton(u, t) ==
  /\ budget.taps > 0 /\ action[t].state # "none"
  /\ tap' = [tap EXCEPT ![budget.taps] = [at |-> "consume", token |-> t, user |-> u, new |-> 0,
                                           attached |-> TRUE]]
  /\ budget' = [budget EXCEPT !.taps = @ - 1]
  /\ UNCHANGED <<action, allowed, enabled, revision, started, cancelled>>

(* store.consume                                                           *)
Valid(u, t) == action[t].state = "live" /\ ~action[t].over /\ action[t].user = u

Reads(i) ==
  /\ tap[i].at = "consume"
  /\ Valid(tap[i].user, tap[i].token)
  /\ action' = [action EXCEPT ![tap[i].token].state = "used"]
  /\ Proceeds(i, "do")
  /\ UNCHANGED <<allowed, enabled, revision, started, cancelled, budget>>

(* The answer says that it has expired, was started or was dealt with      *)
Explains(i) ==
  /\ tap[i].at = "consume" /\ ~Valid(tap[i].user, tap[i].token)
  /\ Leaves(i)
  /\ UNCHANGED <<action, allowed, enabled, revision, started, cancelled, budget>>

(* callback: the role, then one handler for each kind                      *)
Ignores(i) ==
  /\ tap[i].at = "do" /\ tap[i].user \notin allowed
  /\ Leaves(i)
  /\ UNCHANGED <<action, allowed, enabled, revision, started, cancelled, budget>>

Dispatches(i) ==
  /\ tap[i].at = "do" /\ tap[i].user \in allowed
  /\ LET kind == action[tap[i].token].kind IN
       Proceeds(i, CASE kind = "preflight" -> "plan" [] kind = "confirm" -> "start"
                 [] kind = "cancel" -> "revoke" [] OTHER -> "result")
  /\ started' = [started EXCEPT ![tap[i].token] = IF action[tap[i].token].kind = "effect" THEN @ + 1 ELSE @]
  /\ UNCHANGED <<action, allowed, enabled, revision, cancelled, budget>>

(* preflight: the plan is made for a revision; permissions are read again  *)
(* after it, and the two buttons are separate transactions                 *)
Plans(i) ==
  /\ tap[i].at = "plan"
  /\ IF tap[i].user \in allowed /\ tap[i].attached /\ Room
       THEN /\ Button(tap[i].user, "confirm", 0, revision)
            /\ tap' = [tap EXCEPT ![i].at = "confirm", ![i].new = NextToken]
       ELSE Leaves(i) /\ UNCHANGED action
  /\ UNCHANGED <<allowed, enabled, revision, started, cancelled, budget>>

OffersCancel(i) ==
  /\ tap[i].at = "confirm"
  /\ IF tap[i].attached /\ Room THEN Button(tap[i].user, "cancel", tap[i].new, 0) ELSE UNCHANGED action
  /\ Leaves(i)
  /\ UNCHANGED <<allowed, enabled, revision, started, cancelled, budget>>

(* confirm: runs.start under the lock of the configuration, where          *)
(* authorize and the revision of the plan are checked                      *)
AuthorizedBefore(i) == i \in Taps

Authorized(i) ==
  /\ tap[i].attached /\ enabled /\ tap[i].user \in allowed
  /\ action[tap[i].token].rev = revision
StartsRun(i) ==
  /\ tap[i].at = "start" /\ Authorized(i)
  /\ started' = [started EXCEPT ![tap[i].token] = @ + 1]
  /\ Proceeds(i, "result")
  /\ UNCHANGED <<action, allowed, enabled, revision, cancelled, budget>>

(* A plan that has changed, or has expired and is offered again            *)
RefusesStart(i) ==
  /\ tap[i].at = "start"
  /\ Leaves(i)
  /\ IF Authorized(i) /\ Room THEN Button(tap[i].user, "preflight", 0, 0) ELSE UNCHANGED action
  /\ UNCHANGED <<allowed, enabled, revision, started, cancelled, budget>>

(* action_result                                                           *)
Results(i) ==
  /\ tap[i].at = "result"
  /\ action' = [action EXCEPT ![tap[i].token].result = started[tap[i].token] > 0]
  /\ Leaves(i)
  /\ UNCHANGED <<allowed, enabled, revision, started, cancelled, budget>>

CancelsUnread(i) ==
  LET c == action[tap[i].token].link IN
  /\ tap[i].at = "revoke"
  /\ IF c # 0 /\ action[c].state \in {"live", "used"}
       THEN action' = [action EXCEPT ![c].state = "used"] /\ cancelled' = cancelled \cup {c}
       ELSE UNCHANGED <<action, cancelled>>
  /\ Leaves(i)
  /\ UNCHANGED <<allowed, enabled, revision, started, budget>>

(* cancel_action: only an unconsumed confirmation is cancelled             *)
Cancels(i) ==
  LET c == action[tap[i].token].link IN
  /\ tap[i].at = "revoke"
  /\ IF c # 0 /\ action[c].state = "live"
       THEN action' = [action EXCEPT ![c].state = "used"] /\ cancelled' = cancelled \cup {c}
       ELSE UNCHANGED <<action, cancelled>>
  /\ Leaves(i)
  /\ UNCHANGED <<allowed, enabled, revision, started, budget>>

(* /cancelrollback: every confirmation of the user that has not expired    *)
CancelsAll(u) ==
  LET all == {t \in Live(action) : action[t].kind = "confirm" /\ Valid(u, t)} IN
  /\ all # {}
  /\ action' = [t \in Tokens |-> IF t \in all THEN [action[t] EXCEPT !.state = "used"] ELSE action[t]]
  /\ cancelled' = cancelled \cup all
  /\ UNCHANGED <<allowed, enabled, revision, tap, started, budget>>

-----------------------------------------------------------------------------
(* Tokens live 300 s, a confirmation no longer than its plan               *)
Expires(t) ==
  /\ action[t].state = "live" /\ ~action[t].over
  /\ action[t].kind = "confirm" \/ \A x \in Made : x < t => action[x].over \/ action[x].state # "live"
  /\ action' = [action EXCEPT ![t].over = TRUE]
  /\ UNCHANGED <<allowed, enabled, revision, tap, started, cancelled, budget>>

(* A change of the access list, and disable                                *)
Configures ==
  /\ revision < MaxChanges /\ revision' = revision + 1
  /\ \/ \E u \in Users : allowed' = (allowed \ {u}) \cup ({u} \ allowed) /\ enabled' = enabled
     \/ enabled' = FALSE /\ allowed' = allowed
  /\ UNCHANGED <<action, tap, started, cancelled, budget>>

(* The session ends: its handlers are detached; the process dies           *)
Detaches ==
  /\ budget.crashes > 0
  /\ tap' = [i \in Taps |-> [tap[i] EXCEPT !.attached = FALSE]]
  /\ budget' = [budget EXCEPT !.crashes = @ - 1]
  /\ UNCHANGED <<action, allowed, enabled, revision, started, cancelled>>

TapsDie ==
  /\ budget.crashes > 0
  /\ tap' = [i \in Taps |-> NoTap]
  /\ budget' = [budget EXCEPT !.crashes = @ - 1]
  /\ UNCHANGED <<action, allowed, enabled, revision, started, cancelled>>

ActionsNext ==
  \/ \E u \in Users : (\E k \in Kinds : ShowsMenu(u, k)) \/ (\E t \in Tokens : TapsButton(u, t)) \/ CancelsAll(u)
  \/ \E i \in Taps : Reads(i) \/ Explains(i) \/ Ignores(i) \/ Dispatches(i) \/ Plans(i) \/ OffersCancel(i)
                     \/ StartsRun(i) \/ RefusesStart(i) \/ Results(i) \/ Cancels(i)
  \/ \E t \in Tokens : Expires(t)
  \/ Configures \/ Detaches \/ TapsDie

ActionsSpec == ActionsInit /\ [][ActionsNext]_avars

-----------------------------------------------------------------------------
(* A button starts one run, or has one other effect, however often it is   *)
(* tapped and whatever dies in between (consume, request_id).              *)
OnePerToken == \A t \in Tokens : started[t] <= 1

(* A run starts only for the user who was shown the button, with the       *)
(* permissions and the configuration of that moment, and never for a       *)
(* handler that has outlived its session (authorize).                      *)
StartedByRight ==
  \A t \in Tokens : action[t].kind = "confirm" /\ started'[t] > started[t] =>
    \E i \in Taps : /\ tap[i].attached /\ tap[i].token = t /\ tap[i].user = action[t].user
                    /\ action[t].user \in allowed /\ enabled /\ action[t].rev = revision

(* Nothing starts from a confirmation that its user was told is cancelled, *)
(* though the two taps overlap (cancel_action, cancel_rollback_actions).   *)
CancelHolds == \A t \in cancelled : started[t] = 0 /\ \A i \in Taps : tap[i].at \in {"do", "start"} => tap[i].token # t

(* While a confirmation is valid its cancel button has neither been        *)
(* evicted by newer buttons nor expired (action).                          *)
CancelReachable ==
  \A t \in Tokens : action[t].kind = "cancel" /\ (action[t].state = "gone" \/ action[t].over)
    => action[action[t].link].state # "live" \/ action[action[t].link].over

(* A tap has one effect at most, and what was cancelled has none; it can   *)
(* be cancelled for as long as it can be confirmed.                        *)
ActionsSafe == ActionsTypeOK /\ OnePerToken /\ CancelHolds /\ CancelReachable
=============================================================================

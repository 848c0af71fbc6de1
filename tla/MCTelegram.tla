----------------------------- MODULE MCTelegram -----------------------------
(***************************************************************************)
(* The parts of the Telegram control for TLC, each by itself: they share   *)
(* no variable.  `part' names the one that moves in a behaviour; the       *)
(* others stay in their initial state.                                     *)
(***************************************************************************)
EXTENDS TelegramUpdates, TelegramSlots, TelegramActions, TelegramOutbox, TLC

VARIABLES
  part,
  open, from, changes, offered, again, reader, mailer, mail, ages, mailLeft,
  buttons, users, switch, plan, chain, effects, revoked, tapsLeft,
  role, group, runs, tunnels, screen, shown, column, fresh

(* Three updates, the first two of one chat, the last one a tap, and a     *)
(* queue of one; the main slot, one of the AI slots, and two bots          *)
Chats == <<"c1", "c1", "c2">>
SlotOrder == <<"main", "ai">>

(* Messages of every kind and room for two of them *)
MessageKind ==
  [n |-> "notify", r |-> "reply", t |-> "ai_tool", u |-> "ai_tool", x |-> "ai_text"]

(* Two notifications with deaths of the process *)
Late == INSTANCE TelegramOutbox WITH
  Messages <- {"n", "m"}, KindOf <- [n |-> "notify", m |-> "notify"], PendingLimit <- 2, QueueLimit <- 1,
  MaxAttempts <- 2, Switches <- 1, Outages <- 1,
  mailing <- open, since <- from, events <- changes, queue <- offered, rescan <- again, loop <- reader, sender <- mailer,
  outbox <- mail, older <- ages, quota <- mailLeft

(* One user and three taps: confirmations and their cancel buttons.  Two   *)
(* users and a change of the configuration; and one tap with more buttons, *)
(* which evict each other                                                  *)
Actions == INSTANCE TelegramActions WITH
  Users <- {"ann", "bob"}, MaxToken <- 2, TokenLimit <- 2, MaxTap <- 2, MaxChanges <- 1, Losses <- 1,
  action <- buttons, allowed <- users, enabled <- switch, revision <- plan, tap <- chain, started <- effects,
  cancelled <- revoked, budget <- tapsLeft
Crowd == INSTANCE TelegramActions WITH
  Users <- {"ann"}, MaxToken <- 4, TokenLimit <- 2, MaxTap <- 1, MaxChanges <- 0, Losses <- 0,
  action <- buttons, allowed <- users, enabled <- switch, revision <- plan, tap <- chain, started <- effects,
  cancelled <- revoked, budget <- tapsLeft

(* Pages of two entries, two pages of everything, and every group of permissions *)
Menu == INSTANCE TelegramMenu WITH
  ReleaseOf <- <<1, 1, 1, 2, 3>>, PageSize <- 2, TokenLimit <- 16, Families <- {{1}, 1..5},
  RunSets <- {[tasks |-> {}, mine |-> {}], [tasks |-> {1, 2, 3}, mine |-> {1, 2, 3}]}, Tunnels <- {1},
  Lists <- [projects |-> 3, items |-> 3, related |-> 3, repos |-> 2, profiles |-> 2], Depth <- 1

(* The owner, with the numbers of the code *)
ManyCommands == [t \in 1..23 |-> IF t <= 14 THEN 1 ELSE t - 13]
Panels == INSTANCE TelegramMenu WITH
  ReleaseOf <- ManyCommands, PageSize <- 8, TokenLimit <- 16, Families <- {},
  RunSets <- {[tasks |-> {}, mine |-> {}], [tasks |-> 1..9, mine |-> {1}]}, Tunnels <- {0, 5},
  Lists <- [projects |-> 9, items |-> 9, related |-> 9, repos |-> 9, profiles |-> 9], Depth <- 1

ASSUME InstancesAssumption ==
  /\ UpdatesAssumption /\ SlotsAssumption /\ OutboxAssumption /\ Late!OutboxAssumption
  /\ ActionsAssumption /\ Actions!ActionsAssumption /\ Crowd!ActionsAssumption
  /\ Menu!MenuAssumption /\ Panels!MenuAssumption

notices == <<open, from, changes, offered, again, reader, mailer, mail, ages, mailLeft>>
taps == <<buttons, users, switch, plan, chain, effects, revoked, tapsLeft>>
panel == <<role, group, runs, tunnels, screen, shown, column, fresh>>
vars == <<part, uvars, svars, avars, ovars, notices, taps, panel>>

Init ==
  /\ part \in {"updates", "slots", "outbox", "notices", "actions", "buttons", "crowd", "menu", "panels"}
  /\ UpdatesInit /\ SlotsInit /\ ActionsInit /\ OutboxInit /\ Late!OutboxInit
  /\ IF part = "crowd" THEN Crowd!ActionsInit ELSE Actions!ActionsInit
  /\ IF part = "panels" THEN Panels!MenuInit ELSE Menu!MenuInit
  /\ part \notin {"menu", "panels"} => role = "owner" /\ runs.tasks = {} /\ tunnels = 1

Next ==
  /\ UNCHANGED part
  /\ \/ part = "updates" /\ UpdatesNext /\ UNCHANGED <<svars, avars, ovars, notices, taps, panel>>
     \/ part = "slots" /\ SlotsNext /\ UNCHANGED <<uvars, avars, ovars, notices, taps, panel>>
     \/ part = "outbox" /\ OutboxNext /\ UNCHANGED <<uvars, svars, avars, notices, taps, panel>>
     \/ part = "notices" /\ Late!OutboxNext /\ UNCHANGED <<uvars, svars, avars, ovars, taps, panel>>
     \/ part = "actions" /\ Actions!ActionsNext /\ UNCHANGED <<uvars, svars, avars, ovars, notices, panel>>
     \/ part = "buttons" /\ ActionsNext /\ UNCHANGED <<uvars, svars, ovars, notices, taps, panel>>
     \/ part = "crowd" /\ Crowd!ActionsNext /\ UNCHANGED <<uvars, svars, avars, ovars, notices, panel>>
     \/ part = "menu" /\ Menu!MenuNext /\ UNCHANGED <<uvars, svars, avars, ovars, notices, taps>>
     \/ part = "panels" /\ Panels!MenuNext /\ UNCHANGED <<uvars, svars, avars, ovars, notices, taps>>

Spec == Init /\ [][Next]_vars

-----------------------------------------------------------------------------
(* The menus (TelegramMenu, TelegramCommands): what a panel offers is not  *)
(* refused, every list can be paged through whole, Back leads to the main  *)
(* menu from everywhere; with the limits of the code the buttons of a      *)
(* panel do not evict each other, and where they do, or where several      *)
(* users see them, they are as good as ActionsSafe says.  The outbox keeps *)
(* within its limit with deaths, too.                                      *)
MenuSafe ==
  /\ part = "menu" => Menu!MenuSafe
  /\ part = "panels" => Panels!PanelWhole
  /\ part = "crowd" => Crowd!ActionsSafe
  /\ part = "actions" => Actions!ActionsSafe
  /\ part = "notices" => Late!OutboxSafe

(* What no step does: change the end of an update; drop a message while    *)
(* one of a lower class could go, or admit a notification for a slot that  *)
(* is off; lead Back to another page than the one the user came from;      *)
(* start a run of a user who may no longer start it, from a plan that has  *)
(* changed or for a session that has ended.                                *)
TelegramSteps ==
  [][/\ part = "updates" => FinalStays
     /\ part = "outbox" => DropsInOrder /\ NothingAfterDisable
     /\ part = "actions" => Actions!StartedByRight
     /\ part = "buttons" => StartedByRight
     /\ part = "menu" => Menu!BackReturns]_vars
=============================================================================

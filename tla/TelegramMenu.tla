---------------------------- MODULE TelegramMenu ----------------------------
(***************************************************************************)
(* The menu of the main bot: services/telegram_menu.py, the pages of       *)
(* services/telegram_commands.py and services/telegram_work_items.py.  A   *)
(* button carries the screen it leads to; what is shown depends on the     *)
(* permissions when the panel is drawn, what a tap does on those of the    *)
(* moment.  The tokens of the buttons are those of TelegramActions.        *)
(***************************************************************************)
EXTENDS Integers, Sequences, SequencesExt

CONSTANTS
  ReleaseOf,   \* command -> the release configuration it belongs to
  PageSize,    \* 8 entries on a page
  TokenLimit,  \* 16 unconsumed buttons of a chat
  Families,    \* sets of commands a group may be given
  RunSets,     \* sets of active runs: [tasks, mine], mine started in this chat
  Tunnels,     \* custom tunnels that may be open
  Lists,       \* work items: [projects, items, related, repos, profiles], sizes
  Depth        \* bound: related items opened from one another

Commands == DOMAIN ReleaseOf
Releases == {ReleaseOf[t] : t \in Commands}

MenuAssumption ==
  /\ PageSize \in Nat \ {0} /\ TokenLimit \in Nat /\ Depth \in Nat /\ Tunnels \subseteq Nat
  /\ ReleaseOf \in Seq(1..Len(ReleaseOf))

VARIABLES
  role,     \* of the user: owner, group or none
  group,    \* permissions of his group
  runs,     \* the active runs
  tunnels,  \* open custom tunnels
  screen,   \* the page that the panel shows
  shown,    \* the buttons of the panel, as screens
  column,   \* TelegramWorkItems.state: 1 + the page of the list the user was in, or 0
  fresh     \* nothing has changed since the user typed a command

mvars == <<role, group, runs, tunnels, screen, shown, column, fresh>>

(* A screen is the kind and the payload of a button                        *)
At(page) == [page |-> page, task |-> 0, release |-> 0, rollback |-> FALSE, number |-> 0, above |-> 0,
             item |-> 0, path |-> <<>>, from |-> ""]
MainPage == At("main")

-----------------------------------------------------------------------------
(* role, allowed and visible                                               *)
Owner == role = "owner"
Allowed(operation, t) ==
  \/ Owner
  \/ role = "group" /\ t \in group.tasks
     /\ CASE operation = "stop" -> group.stop /\ t \in runs.mine
          [] operation = "status" -> group.status
          [] operation = "rollback" -> group.rollback
          [] OTHER -> group.run

Visible(t, rollback) ==
  IF rollback THEN Allowed("rollback", t)
  ELSE \/ Owner
       \/ role = "group" /\ t \in group.tasks /\ (group.run \/ group.rollback \/ group.status \/ group.stop)

SystemEntries ==
  (IF Owner \/ group.status THEN <<At("status")>> ELSE <<>>)
    \o (IF Owner \/ group.stop THEN <<At("stops")>> ELSE <<>>)
    \o (IF Owner \/ group.rollback THEN <<[At("tasks") EXCEPT !.rollback = TRUE]>> ELSE <<>>)

(* The lists, in their order, and their pages                              *)
UpTo(n) == [i \in 1..n |-> i]
Ascending(set) == SelectSeq(UpTo(Len(ReleaseOf)), LAMBDA t : t \in set)
CommandsOf(r, rollback) == Ascending({t \in Commands : ReleaseOf[t] = r /\ Visible(t, rollback)})
ReleasesFor(rollback) == Ascending({r \in Releases : CommandsOf(r, rollback) # <<>>})
Stoppable == Ascending({t \in runs.tasks : Allowed("stop", t)})

LastPage(list) == IF list = <<>> THEN 0 ELSE (Len(list) - 1) \div PageSize
Clamp(n, list) == IF n > LastPage(list) THEN LastPage(list) ELSE n
OnPage(list, n) ==
  SubSeq(list, n * PageSize + 1, IF (n + 1) * PageSize > Len(list) THEN Len(list) ELSE (n + 1) * PageSize)

Turns(s, list) ==
  LET n == Clamp(s.number, list)
      Turn(m) == IF m >= 0 /\ m * PageSize < Len(list) THEN <<[s EXCEPT !.number = m]>> ELSE <<>>
  IN  Turn(n - 1) \o Turn(n + 1)

Entries(s, screens) == OnPage(screens, Clamp(s.number, screens)) \o Turns(s, screens)

-----------------------------------------------------------------------------
(* The button Back: what a page names, or fallback_navigation              *)
OfTask(s, page) == [At(page) EXCEPT !.task = s.task, !.rollback = s.rollback, !.number = s.number,
                                    !.above = s.above]
OfItem(s, page) == [At(page) EXCEPT !.item = s.item]
ToCommands(s, rollback) ==
  [At("commands") EXCEPT !.release = ReleaseOf[s.task], !.rollback = rollback, !.number = s.number,
                         !.above = s.above]

FallbackForgets(s) ==
  CASE s.page \in {"preflight", "cancel"} -> OfTask(s, "task")
    [] s.page = "related" -> OfItem(s, "related")
    [] OTHER -> MainPage

Fallback(s) ==
  CASE s.page \in {"preflight", "cancel"} -> OfTask(s, "task")
    [] s.page = "columns" -> At("projects")
    [] s.page = "column" -> At("columns")
    [] s.page = "air" -> OfItem(s, "ai")
    [] s.page \in {"aip", "aicancel"} -> OfItem(s, "air")
    [] s.page = "detail" /\ s.path # <<>> -> [At("related") EXCEPT !.item = Last(s.path).item,
                                                !.number = Last(s.path).number, !.path = Front(s.path)]
    [] s.page = "detail" -> IF column # 0 THEN [At("column") EXCEPT !.number = column - 1]
                               ELSE At("columns")
    [] s.page \in {"full", "related", "ai", "aic", "cp"} -> OfItem(s, "detail")
    [] s.page = "tunnel" \/ (s.page = "effect" /\ s.from = "services") -> At("services")
    [] OTHER -> MainPage

Back(s) ==
  CASE s.page = "error" -> Fallback([s EXCEPT !.page = s.from])
    [] s.page = "tasks" -> IF s.rollback THEN At("system") ELSE MainPage
    [] s.page = "commands" -> [At("tasks") EXCEPT !.rollback = s.rollback, !.number = s.above]
    [] s.page \in {"task", "cancel"} -> ToCommands(s, s.rollback)
    [] s.page = "offsets" -> IF s.rollback THEN ToCommands(s, TRUE) ELSE OfTask(s, "task")
    [] s.page = "preflight" -> OfTask(s, "cancel")
    [] s.page \in {"progress", "stop"} -> OfTask(s, "task")
    [] s.page = "stopped" -> At("stops")
    [] s.page \in {"stops", "status"} -> At("system")
    [] OTHER -> Fallback(s)

Navigation(s) ==
  <<Back(s)>> \o (IF Back(s) = MainPage \/ s.page = "columns" THEN <<>> ELSE <<MainPage>>)

-----------------------------------------------------------------------------
(* The entries of a panel                                                  *)
ShowsTasks == (group.run \/ group.rollback) /\ \E t \in Commands : Visible(t, FALSE)

MainEntries ==
  (IF Owner \/ ShowsTasks THEN <<At("tasks")>> ELSE <<>>)
    \o (IF Owner \/ group.status \/ group.stop \/ group.rollback THEN <<At("system")>> ELSE <<>>)
    \o (IF Owner THEN <<At("projects"), At("services"), At("mcp")>> ELSE <<>>)

TaskEntries(s) ==
  IF s.task \in runs.tasks
    THEN (IF Allowed("stop", s.task) THEN <<OfTask(s, "stop")>> ELSE <<>>)
           \o (IF Allowed("status", s.task) THEN <<OfTask(s, "progress")>> ELSE <<>>)
    ELSE (IF Allowed("run", s.task) THEN <<OfTask(s, "preflight"), OfTask(s, "preflight")>> ELSE <<>>)
           \o (IF Allowed("rollback", s.task) THEN <<OfTask(s, "offsets")>> ELSE <<>>)

Effect(from) == [At("effect") EXCEPT !.from = from]
ServiceEntries ==  \* VPN, two services, a button for each tunnel, a new tunnel, refresh
  [i \in 1..(3 + tunnels) |-> Effect("services")] \o <<At("tunnel"), At("services")>>

RelatedOf(s) == IF s.item = 1 THEN [i \in 1..Lists.related |-> i + 1] ELSE <<1>>

WorkItemLists(s) ==
  CASE s.page = "projects" ->
         Entries(s, [p \in 1..Lists.projects |-> At("columns")])
    [] s.page = "columns" -> [i \in 1..5 |-> At("column")]
    [] s.page = "column" ->
         Entries(s, [i \in 1..Lists.items |-> [At("detail") EXCEPT !.item = i]])
    [] OTHER -> <<>>

WorkItem(s) ==
  CASE s.page \in {"detail", "full"} ->
         <<[OfItem(s, "full") EXCEPT !.path = s.path], [OfItem(s, "related") EXCEPT !.path = s.path],
           OfItem(s, "ai"), OfItem(s, "cp")>>
    [] s.page = "related" ->
         Entries(s, [i \in DOMAIN RelatedOf(s) |->
           [At("detail") EXCEPT !.item = RelatedOf(s)[i],
                                !.path = Append(s.path, [item |-> s.item, number |-> s.number])]])
    [] OTHER -> <<>>

Analysis(s) ==
  CASE s.page = "ai" -> OnPage([r \in 1..Lists.repos |-> OfItem(s, "air")], 0)
    [] s.page = "air" -> OnPage([p \in 1..Lists.profiles |-> OfItem(s, "aip")], 0)
    [] s.page = "aip" -> <<OfItem(s, "aic"), OfItem(s, "aicancel")>>
    [] s.page = "cp" -> <<OfItem(s, "cp"), OfItem(s, "cp")>>
    [] OTHER -> <<>>

Body(s) ==
  CASE s.page = "main" -> MainEntries
    [] s.page = "tasks" ->
         LET list == ReleasesFor(s.rollback)
         IN  Entries(s, [i \in DOMAIN list |-> [At("commands") EXCEPT !.release = list[i],
                           !.rollback = s.rollback, !.above = Clamp(s.number, list)]])
    [] s.page = "commands" ->
         LET list == CommandsOf(s.release, s.rollback)
         IN  Entries(s, [i \in DOMAIN list |->
               [At(IF s.rollback THEN "offsets" ELSE "task") EXCEPT !.task = list[i],
                  !.rollback = s.rollback, !.above = s.above, !.number = Clamp(s.number, list)]])
    [] s.page \in {"task", "cancel"} -> TaskEntries(s)
    [] s.page = "offsets" -> [i \in 1..5 |-> [OfTask(s, "preflight") EXCEPT !.release = 1]]
    [] s.page = "preflight" -> <<[Effect("main") EXCEPT !.task = s.task], OfTask(s, "cancel")>>
    [] s.page = "system" -> SystemEntries
    [] s.page = "stops" -> Entries(s, [i \in DOMAIN Stoppable |-> [At("stopped") EXCEPT !.task = Stoppable[i]]])
    [] s.page = "services" -> ServiceEntries
    [] s.page = "mcp" -> <<Effect("mcp"), At("mcp")>>
    [] OTHER -> WorkItemLists(s) \o WorkItem(s) \o Analysis(s)

Panel(s) == Body(s) \o (IF s.page = "main" THEN <<>> ELSE Navigation(s))

-----------------------------------------------------------------------------
(* What the handler of a button refuses                                    *)
Refused(s) ==
  CASE s.page = "commands" -> CommandsOf(s.release, s.rollback) = <<>>
    [] s.page \in {"task", "cancel"} -> ~Visible(s.task, FALSE)
    [] s.page = "offsets" -> ~Allowed("rollback", s.task)
    [] s.page = "preflight" -> ~Allowed(IF s.release = 1 THEN "rollback" ELSE "run", s.task)
    [] s.page = "progress" -> ~Allowed("status", s.task)
    [] s.page \in {"stop", "stopped"} -> ~Allowed("stop", s.task)
    [] OTHER -> FALSE

(* It answers nothing to whoever has no right to the page at all           *)
Ignored(s) ==
  \/ role = "none"
  \/ s.page = "system" /\ SystemEntries = <<>>
  \/ s.page = "status" /\ ~Owner /\ ~group.status
  \/ ~Owner /\ s.page \in {"projects", "columns", "column", "detail", "full", "related", "ai", "air", "aip",
                           "aic", "aicancel", "cp", "services", "mcp", "tunnel"}
  \/ ~Owner /\ s.page = "effect" /\ s.from # "main"

Draws(s) ==
  LET to == IF Refused(s) THEN [s EXCEPT !.page = "error", !.from = s.page] ELSE s IN
  /\ screen' = to /\ shown' = Panel(to)
  /\ column' = CASE to.page = "columns" -> 1
                 [] to.page = "column" -> 1 + Clamp(to.number, UpTo(Lists.items))
                 [] OTHER -> column

-----------------------------------------------------------------------------
NoGroup == [run |-> FALSE, rollback |-> FALSE, status |-> FALSE, stop |-> FALSE, tasks |-> {}]
Groups == [run: BOOLEAN, rollback: BOOLEAN, status: BOOLEAN, stop: BOOLEAN, tasks: Families]
Group(r) == IF r = "group" THEN Groups ELSE {NoGroup}  \* what resolve_acl gives with the role

MenuInit ==
  /\ role \in {"owner", "group"} /\ group \in Group(role)
  /\ runs \in RunSets /\ tunnels \in Tunnels
  /\ screen = MainPage /\ shown = MainEntries /\ column = 0 /\ fresh = TRUE

(* callback: a tap of a button of the panel                                *)
Taps(i) ==
  /\ ~Ignored(shown[i]) /\ Len(shown[i].path) <= Depth
  /\ Draws(shown[i])
  /\ UNCHANGED <<role, group, runs, tunnels, fresh>>

(* dispatch: a command the user types                                      *)
Types ==
  /\ \E s \in {MainPage, At("tasks"), [At("tasks") EXCEPT !.rollback = TRUE], At("stops"), At("projects"),
               At("services"), At("mcp"), [At("detail") EXCEPT !.item = 1]}
              \cup {[At("task") EXCEPT !.task = t] : t \in Commands} :
       ~Ignored(s) /\ Draws(s)
  /\ fresh' = TRUE
  /\ UNCHANGED <<role, group, runs, tunnels>>

(* The owner changes the access list; a run starts or ends; tunnels        *)
Changes ==
  /\ fresh /\ fresh' = FALSE
  /\ \/ role' \in {"owner", "group", "none"} \ {role} /\ group' \in Group(role')
        /\ UNCHANGED runs
     \/ runs' \in RunSets \ {runs} /\ UNCHANGED <<role, group>>
  /\ UNCHANGED <<tunnels, screen, shown, column>>

MenuNext == (\E i \in DOMAIN shown : Taps(i)) \/ Types \/ Changes
MenuSpec == MenuInit /\ [][MenuNext]_mvars

-----------------------------------------------------------------------------
(* What a panel shows can be done: as long as no permission has changed,   *)
(* no button of it is refused or ignored by its handler.  (The way back to *)
(* a system menu that a user may not open is the subject of BackWorks.)    *)
NothingRefused ==
  fresh => \A i \in DOMAIN shown : ~Refused(shown[i]) /\ (Ignored(shown[i]) => shown[i] = At("system"))

(* docs/capabilities/telegram-menu-next.md:42: every page has a Back, which *)
(* leads to the page above.                                                *)
BackWorks == fresh /\ screen # MainPage => ~Ignored(Back(screen))

(* Back, pressed again and again, ends at the main menu from every screen, *)
(* also from that of an error.                                             *)
Previous(s) ==
  LET b == Back(s) IN IF Refused(b) THEN [b EXCEPT !.page = "error", !.from = b.page] ELSE b
BackReachesMain ==
  LET home[n \in 0..(9 + 2 * Depth)] ==
        IF n = 0 THEN screen ELSE IF home[n - 1] = MainPage THEN MainPage ELSE Previous(home[n - 1])
  IN  home[9 + 2 * Depth] = MainPage

(* Back leads to the list the user came from, on the same page of it, and  *)
(* from a confirmation to the actions it was chosen from.                  *)
Enters(pairs) ==
  /\ fresh /\ <<screen.page, screen'.page>> \in pairs /\ screen' # Back(screen)
  /\ \E i \in DOMAIN shown : screen' = shown[i]
Below == {<<"tasks", "commands">>, <<"commands", "task">>, <<"commands", "offsets">>, <<"task", "preflight">>,
          <<"task", "progress">>, <<"task", "stop">>, <<"column", "detail">>, <<"related", "detail">>,
          <<"air", "aip">>}
BackReturns == Enters(Below) => Body(Back(screen))' = Body(screen)

(* The same line: a work item opened from the related items of another one *)
(* leads back to these.                                                    *)
RelatedReturns ==
  [][Enters({<<"detail", "full">>, <<"detail", "related">>}) => Back(Back(screen))' = Back(screen)]_mvars

(* A panel creates no more buttons than a chat may keep: none of them has  *)
(* been evicted by the others before it is shown (TelegramStore.action).   *)
PanelWhole == Len(shown) <= TokenLimit

(* The pages of a list show each of its entries, and every page has a way  *)
(* to the next one.                                                        *)
EverythingListed ==
  \A rollback \in BOOLEAN :
    \A list \in {CommandsOf(r, rollback) : r \in Releases} \cup {ReleasesFor(rollback), Stoppable} :
      /\ UNION {Range(OnPage(list, n)) : n \in 0..LastPage(list)} = Range(list)
      /\ \A n \in 0..LastPage(list) : n < LastPage(list) =>
           \E j \in DOMAIN Turns([MainPage EXCEPT !.number = n], list) :
             Turns([MainPage EXCEPT !.number = n], list)[j].number = n + 1

(* A panel offers what it can do, all of it, and a way back.               *)
MenuSafe == NothingRefused /\ BackReachesMain /\ EverythingListed /\ PanelWhole
=============================================================================

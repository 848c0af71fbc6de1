------------------------------ MODULE VpnRuns ------------------------------
(***************************************************************************)
(* services/vpn.py with adapters/vpn_browser.py: the runs that bring the   *)
(* VPN up, one at a time.  A run climbs a ladder (open the client, restart *)
(* it, press its button, log in with a browser of our own) beside a        *)
(* monitor of the network, and may be cancelled, time out, or be closed    *)
(* with the backend at any of its awaits.  The login has a worker process, *)
(* and a Chrome that outlives both when they are killed; a file names it.  *)
(***************************************************************************)
EXTENDS Naturals, FiniteSetsExt

CONSTANTS
  Callers,      \* calls of start, each made once
  Request,      \* caller -> the request id it gives
  Kinds,        \* what they ask for: [relogin, top], top the last rung they allow
  Window,       \* the settings allow to press the button of the client
  Timed,        \* whether a run may be out of time (max_run_s)
  Reused,       \* whether the pid of a Chrome that ended may go to another process
  MaxTries,     \* bound: codes asked for in one login (3 in the code)
  MaxFlips,     \* bound: changes of the network of its own
  MaxRestarts,  \* bound: deaths and exits of the backend
  Nobody

VpnAssumption ==
  /\ Callers \cap {Nobody, "clear", "none", "look", "done"} = {} /\ Nobody # "clear"
  /\ Request \in [Callers -> STRING]
  /\ Kinds \subseteq [relogin: BOOLEAN, top: 0..3] /\ {Window, Timed, Reused} \subseteq BOOLEAN
  /\ MaxTries \in Nat /\ MaxFlips \in Nat /\ MaxRestarts \in Nat

VARIABLES
  life,      \* of the backend
  gate,      \* VpnService._gate: the caller inside, "clear", or Nobody
  record,    \* caller -> the run that it started, with the place of its task
  current,   \* _active
  task,      \* _task, by its run
  worker,    \* caller -> the worker of its login
  browser,   \* caller -> the process with the pid of its Chrome
  held,      \* ChromeRegistry.records
  kept,      \* chrome-processes.json
  clean,     \* ChromeRegistry.cleanup under way
  link,      \* the VPN has an address
  left       \* what is left of the bounds

vars == <<life, gate, record, current, task, worker, browser, held, kept, clean, link, left>>
login == <<worker, browser, held, kept, clean>>
service == <<life, gate, current, task>>

Live == {"queued", "running", "cancelling"}
Final == {"succeeded", "failed", "cancelled"}
Rungs == <<"open", "restart", "window", "login">>
InLogin == {"exchange", "mfa", "settle", "clean"}
InScope == {"probe", "wait", "open", "restart", "window", "login"} \cup InLogin

(* pend: the task will be interrupted at its await, for the reasons why;   *)
(* rung: what it waits for; net: what the monitor has read; res: how the   *)
(* exchange with the worker ended; told: the worker has named its Chrome;  *)
(* cut: the clean-up of the login did not come to its end                  *)
None == [state |-> "none", pc |-> "idle", relogin |-> FALSE, top |-> 0, ip |-> FALSE, pend |-> FALSE, why |-> {},
         rung |-> 0, net |-> "off", tries |-> 0, res |-> "none", told |-> FALSE, logged |-> FALSE, cut |-> FALSE]
Resting == [at |-> "none", todo |-> {}, spared |-> {}]

RunRecord == [state: Live \cup Final \cup {"none", "lost"},
              pc: InScope \cup {"idle", "starting", "queued", "ending", "over"},
              relogin: BOOLEAN, top: 0..3, ip: BOOLEAN, pend: BOOLEAN,
              why: SUBSET {"timeout", "cancel"}, rung: 0..4, net: {"off", "idle", "up", "down"},
              tries: 0..MaxTries, res: {"none", "ok", "failed", "cancelled"},
              told: BOOLEAN, logged: BOOLEAN, cut: BOOLEAN]

VpnTypeOK ==
  /\ life \in {"starting", "serving", "closing", "pressing", "down"}
  /\ gate \in Callers \cup {"clear", Nobody}
  /\ record \in [Callers -> RunRecord]
  /\ current \in Callers \cup {Nobody} /\ task \in Callers \cup {Nobody}
  /\ worker \in [Callers -> {"none", "up", "stopping", "gone"}]
  /\ browser \in [Callers -> {"none", "up", "spared", "down", "foreign", "hurt"}]
  /\ held \subseteq Callers /\ kept \subseteq Callers
  /\ clean \in [at: {"none", "look", "done"} \cup Callers, todo: SUBSET Callers, spared: SUBSET Callers]
  /\ link \in BOOLEAN
  /\ left \in [flips: 0..MaxFlips, restarts: 0..MaxRestarts]

Init ==
  /\ life = "serving" /\ gate = Nobody
  /\ record = [c \in Callers |-> None]
  /\ current = Nobody /\ task = Nobody
  /\ worker = [c \in Callers |-> "none"] /\ browser = [c \in Callers |-> "none"]
  /\ held = {} /\ kept = {} /\ clean = Resting
  /\ link \in BOOLEAN
  /\ left = [flips |-> MaxFlips, restarts |-> MaxRestarts]

-----------------------------------------------------------------------------
(* A request that is known returns its run; one that finds another run     *)
(* live is refused                                                         *)
Serves == life \in {"serving", "closing", "pressing"}   \* the slots of Telegram call start until the end
Known(c) == \E d \in Callers : Request[d] = Request[c] /\ record[d].state \notin {"none", "lost"}
Busy == current # Nobody /\ record[current].state \in Live
Turn == gate = Nobody

Start(c) ==
  /\ Serves /\ record[c].pc = "idle" /\ Turn
  /\ IF Known(c) \/ Busy
       THEN /\ record' = [record EXCEPT ![c].pc = "over"]
            /\ UNCHANGED gate
       ELSE /\ record' = [record EXCEPT ![c].pc = "starting"]
            /\ gate' = c
  /\ UNCHANGED <<life, current, task, login, link, left>>

(* After store.read: its failure leaves nothing behind *)
Begin(c) ==
  /\ record[c].pc = "starting"
  /\ gate' = Nobody
  /\ \/ /\ record' = [record EXCEPT ![c].pc = "over"]
        /\ UNCHANGED <<current, task>>
     \/ /\ \E k \in Kinds :
             record' = [record EXCEPT ![c] = [None EXCEPT !.state = "queued", !.pc = "queued",
                                                          !.relogin = k.relogin, !.top = k.top]]
        /\ current' = c /\ task' = c
  /\ UNCHANGED <<life, login, link, left>>

(* clear_browser_profile: the files are removed by a thread *)
Clear ==
  /\ life = "serving" /\ gate = Nobody /\ ~Busy
  /\ gate' = "clear"
  /\ UNCHANGED <<life, record, current, task, login, link, left>>
ClearOver ==
  /\ gate = "clear"
  /\ gate' = Nobody
  /\ UNCHANGED <<life, record, current, task, login, link, left>>

-----------------------------------------------------------------------------
(* The task of a run.  A task that was cancelled goes no further           *)
Runs(c, pc) == life # "starting" /\ record[c].pc = pc /\ ~record[c].pend
Becomes(c, r) == record' = [record EXCEPT ![c] = r]

(* The monitor is cancelled with the end of the run; its locals are gone *)
Ended(r, state) == [r EXCEPT !.state = state, !.pc = "ending", !.net = "off", !.pend = FALSE,
                             !.why = {}, !.rung = 0, !.tries = 0, !.res = "none"]

(* The rungs that a run takes; what it does after rung n - 1: it judges by *)
(* the address that it, or its monitor, has found                          *)
Takes(r) == {n \in 1..4 : /\ n < 4 => ~r.relogin /\ r.top >= IF n = 3 THEN 2 ELSE n
                          /\ n > 1 => ~r.ip
                          /\ n = 3 => Window
                          /\ n = 4 => r.top >= 3}
Climb(r, n) ==
  LET next == {m \in Takes(r) : m >= n}
  IN IF next # {} THEN [r EXCEPT !.pc = Rungs[Min(next)], !.rung = Min(next)]
                  ELSE Ended(r, IF r.ip THEN "succeeded" ELSE "failed")

Run(c) ==
  /\ Runs(c, "queued")
  /\ Becomes(c, [record[c] EXCEPT !.state = "running", !.pc = "probe", !.net = "idle"])
  /\ UNCHANGED <<service, login, link, left>>

Probe(c) ==
  /\ Runs(c, "probe")
  /\ IF link /\ ~record[c].relogin
       THEN Becomes(c, Ended([record[c] EXCEPT !.ip = TRUE], "succeeded"))
       ELSE \/ Becomes(c, Climb(record[c], 1))
            \/ Becomes(c, Ended(record[c], "failed"))    \* no client
  /\ UNCHANGED <<service, login, link, left>>

(* VpnClient.open, and restart, which disconnects the client first: it     *)
(* reconnects or not                                                       *)
OpenClient(c) ==
  /\ Runs(c, "open") \/ Runs(c, "restart")
  /\ \/ Becomes(c, [record[c] EXCEPT !.pc = "wait"])
     \/ Becomes(c, Ended(record[c], "failed"))
  /\ link' \in BOOLEAN
  /\ UNCHANGED <<service, login, left>>

(* WindowAutomation.connect, after open: no permission or no window, no    *)
(* button, or one that it presses                                          *)
PressButton(c) ==
  /\ Runs(c, "window")
  /\ \/ Becomes(c, Ended(record[c], "failed"))
     \/ Becomes(c, Climb(record[c], 4))
     \/ Becomes(c, [record[c] EXCEPT !.pc = "wait"])
  /\ link' \in BOOLEAN
  /\ UNCHANGED <<service, login, left>>

(* _wait_connected: the address, or none at the deadline; the last rungs   *)
(* take it over what the monitor has found                                 *)
Waited(c) ==
  /\ Runs(c, "wait")
  /\ \E found \in {FALSE, link} :
       LET r == record[c] IN
       Becomes(c, Climb([r EXCEPT !.ip = found \/ (@ /\ r.rung <= 2)],
                        IF r.rung = 4 THEN 5 ELSE r.rung + 1))
  /\ UNCHANGED <<service, login, link, left>>

(* _network_monitor: it reads, and then writes; a relogin is not over      *)
(* because the old connection still stands                                 *)
Reported(r) == IF r.relogin THEN r.ip ELSE r.net = "up"
MonitorReads(c) ==
  /\ record[c].net = "idle" /\ record[c].state = "running"
  /\ Becomes(c, [record[c] EXCEPT !.net = IF link THEN "up" ELSE "down"])
  /\ UNCHANGED <<service, login, link, left>>
MonitorWrites(c) ==
  /\ record[c].net \in {"up", "down"}
  /\ Becomes(c, [record[c] EXCEPT !.ip = Reported(record[c]), !.net = "idle"])
  /\ UNCHANGED <<service, login, link, left>>

(* The end of a run, after on_complete; another may have begun meanwhile   *)
Released(was, c) == IF was = c THEN Nobody ELSE was
Over(c) ==
  /\ Runs(c, "ending")
  /\ record' = [record EXCEPT ![c].pc = "over"]
  /\ current' = Released(current, c) /\ task' = Released(task, c)
  /\ UNCHANGED <<life, gate, login, link, left>>

-----------------------------------------------------------------------------
(* ProcessLoginRunner.run *)
LoginFails(c) ==     \* no password, no client, no worker
  /\ Runs(c, "login")
  /\ Becomes(c, Ended(record[c], "failed"))
  /\ UNCHANGED <<service, login, link, left>>
Spawn(c) ==
  /\ Runs(c, "login")
  /\ Becomes(c, [record[c] EXCEPT !.pc = "exchange"])
  /\ worker' = [worker EXCEPT ![c] = "up"]
  /\ UNCHANGED <<service, browser, held, kept, clean, link, left>>

(* The worker launches Chrome, and names it: ChromeRegistry.record         *)
Launch(c) ==
  /\ worker[c] = "up" /\ browser[c] = "none"
  /\ browser' = [browser EXCEPT ![c] = "up"]
  /\ UNCHANGED <<service, record, worker, held, kept, clean, link, left>>
Loaded == IF held = {} THEN kept ELSE held
Added(c) == Loaded \cup {c}
Named(c) ==
  /\ Runs(c, "exchange") /\ worker[c] = "up" /\ browser[c] # "none" /\ ~record[c].told
  /\ held' = Added(c) /\ kept' = Added(c)
  /\ Becomes(c, [record[c] EXCEPT !.told = TRUE])
  /\ UNCHANGED <<service, worker, browser, clean, link, left>>

NeedMfa(c) ==
  /\ Runs(c, "exchange") /\ record[c].told /\ record[c].tries < MaxTries
  /\ Becomes(c, [record[c] EXCEPT !.pc = "mfa", !.tries = @ + 1])
  /\ UNCHANGED <<service, login, link, left>>
(* From the seed, or by submit_mfa for the run that waits *)
SubmitMfa(c) ==
  /\ Runs(c, "mfa") /\ current = c /\ record[c].state \in {"running", "cancelling"}
  /\ Becomes(c, [record[c] EXCEPT !.pc = "exchange"])
  /\ UNCHANGED <<service, login, link, left>>

(* The exchange ends, with the worker or before it.  Its Chrome may stay   *)
Gone(b) == IF b = "up" THEN {"up", "down"} ELSE {b}
Leaves(c) ==
  \/ UNCHANGED <<worker, browser>>
  \/ /\ worker' = [worker EXCEPT ![c] = "gone"]
     /\ \E b \in Gone(browser[c]) : browser' = [browser EXCEPT ![c] = b]

(* The worker has handed the address of the login to the client, again and *)
(* again, and says done                                                    *)
Delivered(c) ==
  /\ Runs(c, "exchange") /\ record[c].told
  /\ Becomes(c, [record[c] EXCEPT !.pc = "settle", !.res = "ok"])
  /\ link' \in BOOLEAN
  /\ Leaves(c)
  /\ UNCHANGED <<service, held, kept, clean, left>>

(* An error, one code too many, none in time, or the worker has broken off *)
ExchangeFails(c) ==
  /\ Runs(c, "exchange") \/ Runs(c, "mfa")
  /\ Becomes(c, [record[c] EXCEPT !.pc = "settle", !.res = "failed"])
  /\ Leaves(c)
  /\ UNCHANGED <<service, held, kept, clean, link, left>>

(* The worker is told to stop; the supervisor and the registry end it and  *)
(* its Chrome side by side                                                 *)
Sweeping == [at |-> "look", todo |-> Loaded, spared |-> {}]
Stop(c) ==
  /\ Runs(c, "settle")
  /\ Becomes(c, [record[c] EXCEPT !.pc = "clean"])
  /\ worker' = [worker EXCEPT ![c] = IF @ = "up" THEN "stopping" ELSE @]
  /\ held' = Loaded /\ clean' = Sweeping
  /\ UNCHANGED <<service, browser, kept, link, left>>

WorkerEnds(c) ==
  /\ worker[c] = "stopping" \/ (worker[c] = "up" /\ record[c].pc \in {"ending", "over"})
  /\ worker' = [worker EXCEPT ![c] = "gone"]
  /\ \E b \in Gone(browser[c]) : browser' = [browser EXCEPT ![c] = b]
  /\ UNCHANGED <<service, record, held, kept, clean, link, left>>

(* cleanup, of one recorded process: a signal only for the Chrome that was *)
(* recorded, and KILL only if it still is that one                         *)
Matches(p) == browser[p] \in {"up", "spared"}
Killed(p) == CASE browser[p] = "foreign" -> "hurt" [] browser[p] \in {"up", "spared"} -> "down" [] OTHER -> browser[p]
Look ==
  /\ clean.at = "look"
  /\ \E p \in clean.todo :
       \/ /\ ~Matches(p)
          /\ clean' = [clean EXCEPT !.todo = @ \ {p}]
          /\ UNCHANGED browser
       \/ /\ Matches(p)
          /\ clean' = [clean EXCEPT !.at = p]
          /\ \E b \in {browser[p], "down"} : browser' = [browser EXCEPT ![p] = b]
       \/ /\ Matches(p)                                       \* PermissionError
          /\ clean' = [clean EXCEPT !.todo = @ \ {p}, !.spared = @ \cup {p}]
          /\ browser' = [browser EXCEPT ![p] = "spared"]
  /\ UNCHANGED <<service, record, worker, held, kept, link, left>>
LookAgain ==
  /\ clean.at \in Callers
  /\ LET p == clean.at
         next == [clean EXCEPT !.at = "look", !.todo = @ \ {p}]
     IN \/ /\ clean' = next
           /\ browser' = IF Matches(p) THEN [browser EXCEPT ![p] = Killed(p)] ELSE browser
        \/ /\ Matches(p)
           /\ clean' = [next EXCEPT !.spared = @ \cup {p}]
           /\ browser' = [browser EXCEPT ![p] = "spared"]
  /\ UNCHANGED <<service, record, worker, held, kept, link, left>>
Remaining == clean.spared
Swept ==
  /\ clean.at = "look" /\ clean.todo = {}
  /\ held' = Remaining /\ kept' = Remaining
  /\ IF life = "starting"
       THEN clean' = Resting /\ life' = "serving"
       ELSE clean' = [Resting EXCEPT !.at = "done"] /\ UNCHANGED life
  /\ UNCHANGED <<gate, record, current, task, worker, browser, link, left>>

(* A run that only its time has interrupted has failed, any other is       *)
(* cancelled                                                               *)
Verdict(r) == IF r.why = {"timeout"} THEN "failed" ELSE "cancelled"
Reaped(c) == worker[c] \in {"none", "gone"}
Cleaned(c) ==
  /\ Runs(c, "clean") /\ clean.at = "done" /\ Reaped(c)
  /\ LET r == record[c]
     IN Becomes(c, CASE r.res = "ok" -> [r EXCEPT !.logged = TRUE, !.pc = "wait"]
                     [] r.res = "failed" -> Ended(r, "failed")
                     [] r.res = "cancelled" -> Ended(r, Verdict(r)))
  /\ clean' = Resting
  /\ UNCHANGED <<service, worker, browser, held, kept, link, left>>
(* ps, the file or the supervisor fails: the registry keeps what it has    *)
CleanFails(c) ==
  /\ Runs(c, "clean")
  /\ Becomes(c, Ended([record[c] EXCEPT !.cut = TRUE], "failed"))
  /\ clean' = Resting
  /\ UNCHANGED <<service, worker, browser, held, kept, link, left>>

-----------------------------------------------------------------------------
(* What interrupts a run *)
Interrupt(r, why) == [r EXCEPT !.pend = TRUE, !.why = @ \cup {why}]

Timeout(c) ==
  /\ Timed /\ record[c].pc \in InScope /\ "timeout" \notin record[c].why
  /\ Becomes(c, Interrupt(record[c], "timeout"))
  /\ UNCHANGED <<service, login, link, left>>

(* A run that is queued never runs; the task that is cancelled is _task    *)
Cancellable(c) == record[c].state \in {"queued", "running"}
Dropped(r) == [r EXCEPT !.state = "cancelled", !.pc = "over", !.pend = FALSE]
Cancel(c) ==
  /\ Serves /\ Cancellable(c)
  /\ IF record[c].state = "queued"
       THEN /\ Becomes(c, Dropped(record[c]))
            /\ current' = Released(current, c) /\ task' = Nobody
       ELSE /\ record' = [d \in Callers |->
                 LET r == IF d = c THEN [record[d] EXCEPT !.state = "cancelling"] ELSE record[d]
                 IN IF d = task THEN Interrupt(r, "cancel") ELSE r]
            /\ UNCHANGED <<current, task>>
  /\ UNCHANGED <<life, gate, login, link, left>>

(* CancelledError at the await of a run.  In the exchange it still cleans  *)
(* up; a second one, while it does, cuts the clean-up short                *)
Interrupted(c) ==
  /\ life # "starting" /\ record[c].pend
  /\ LET r == [record[c] EXCEPT !.pend = FALSE]
     IN Becomes(c, CASE r.pc \in {"exchange", "mfa"} -> [r EXCEPT !.pc = "settle", !.res = "cancelled"]
                     [] r.pc \in {"settle", "clean"} -> Ended([r EXCEPT !.cut = TRUE], Verdict(r))
                     [] r.pc \in {"ending", "queued"} -> [r EXCEPT !.pc = "over"]
                     [] OTHER -> Ended(r, Verdict(r)))
  /\ clean' = IF record[c].pc = "clean" THEN Resting ELSE clean
  /\ UNCHANGED <<service, worker, browser, held, kept, link, left>>

(* close: it cancels the task, and once more after 4.5 s; at the end the   *)
(* loop cancels whatever is left                                           *)
Pending(d) == record[d].pc \in InScope \cup {"queued", "ending"}
Close ==
  /\ life = "serving"
  /\ life' = "closing"
  /\ IF task = Nobody \/ ~Pending(task)
       THEN UNCHANGED <<record, current>>
       ELSE /\ record' = [d \in Callers |->
                 IF d = task
                   THEN IF current = d /\ record[d].state = "queued"
                          THEN Dropped(record[d])
                          ELSE Interrupt(record[d], "cancel")
                   ELSE record[d]]
            /\ current' = IF current = task /\ record[task].state = "queued" THEN Nobody ELSE current
  /\ UNCHANGED <<gate, task, login, link, left>>
Press ==
  /\ life = "closing" /\ task # Nobody /\ Pending(task)
  /\ life' = "pressing"
  /\ Becomes(task, Interrupt(record[task], "cancel"))
  /\ UNCHANGED <<gate, current, task, login, link, left>>
Closed ==
  /\ life \in {"closing", "pressing"}
  /\ life' = "down" /\ gate' = Nobody /\ task' = Nobody
  /\ record' = [d \in Callers |-> IF Pending(d) THEN Interrupt(record[d], "cancel")
                                  ELSE IF record[d].pc = "starting" THEN [record[d] EXCEPT !.pc = "over"]
                                  ELSE record[d]]
  /\ UNCHANGED <<current, login, link, left>>

(* The backend exits or dies: its workers end with it, Chrome may not.     *)
(* The next one first cleans up what the file names                        *)
Lost(r) ==
  IF r.pc = "idle" THEN r
  ELSE [Ended(r, "lost") EXCEPT !.pc = "over", !.ip = FALSE, !.logged = FALSE, !.cut = FALSE]
Restart ==
  /\ left.restarts > 0 /\ (life = "down" => \A d \in Callers : ~Pending(d))
  /\ left' = [left EXCEPT !.restarts = @ - 1]
  /\ life' = "starting" /\ gate' = Nobody /\ current' = Nobody /\ task' = Nobody
  /\ record' = [d \in Callers |-> Lost(record[d])]
  /\ worker' = [d \in Callers |-> IF worker[d] = "none" THEN "none" ELSE "gone"]
  /\ browser' \in {b \in [Callers -> {"none", "up", "spared", "down", "foreign"}] :
                     \A d \in Callers : b[d] \in Gone(browser[d])}
  /\ held' = kept /\ clean' = [Sweeping EXCEPT !.todo = kept]
  /\ UNCHANGED <<kept, link>>

(* The network changes; Chrome ends; another process gets its pid          *)
Flip ==
  /\ left.flips > 0
  /\ left' = [left EXCEPT !.flips = @ - 1]
  /\ link' = ~link
  /\ UNCHANGED <<service, record, login>>
BrowserEnds(c) ==
  /\ browser[c] \in {"up", "spared"} \/ (Reused /\ browser[c] = "down")
  /\ browser' = [browser EXCEPT ![c] = IF @ = "down" THEN "foreign" ELSE "down"]
  /\ UNCHANGED <<service, record, worker, held, kept, clean, link, left>>

Next ==
  \/ \E c \in Callers :
       \/ Start(c) \/ Begin(c) \/ Run(c) \/ Probe(c) \/ OpenClient(c) \/ PressButton(c) \/ Waited(c)
       \/ MonitorReads(c) \/ MonitorWrites(c) \/ Over(c) \/ LoginFails(c) \/ Spawn(c) \/ Launch(c) \/ Named(c) \/ NeedMfa(c) \/ SubmitMfa(c)
       \/ Delivered(c) \/ ExchangeFails(c) \/ Stop(c) \/ WorkerEnds(c) \/ Cleaned(c) \/ CleanFails(c)
       \/ Timeout(c) \/ Cancel(c) \/ Interrupted(c) \/ BrowserEnds(c)
  \/ Clear \/ ClearOver \/ Look \/ LookAgain \/ Swept \/ Close \/ Press \/ Closed \/ Restart \/ Flip
Spec == Init /\ [][Next]_vars

-----------------------------------------------------------------------------
(* While the service serves, at most one run is under way (start): it is   *)
(* _active, so that it can be given a code, and its task is _task, so that *)
(* cancel and close reach it; a request has started one run at most.       *)
OneRun ==
  /\ life \in {"serving", "closing", "pressing"} =>
       \A c \in Callers : record[c].state \in Live => current = c /\ task = c
  /\ \A c, d \in Callers : record[c].state \in Live \cup Final /\ record[d].state \in Live \cup Final
                             /\ Request[c] = Request[d] => c = d

(* What a success means (_run, _network_monitor): the run has an address,  *)
(* which its monitor no longer takes away, and a relogin has logged in     *)
(* even though the old connection stood all the time.                      *)
SuccessIsConnected ==
  \A c \in Callers : record[c].state = "succeeded" =>
    record[c].ip /\ (record[c].relogin => record[c].logged)

(* A login whose clean-up came to its end has left no worker and no Chrome *)
(* that was named (ProcessLoginRunner.run); one that is cut short, or a    *)
(* kill of the backend, leaves a living Chrome in the file, and none of    *)
(* them is left when the next backend serves, unless it may not be killed. *)
LoginLeavesNothing ==
  \A c \in Callers :
    /\ record[c].pc \in {"ending", "over"} /\ ~record[c].cut => worker[c] \in {"none", "gone"}
    /\ record[c].told /\ browser[c] \in {"up", "spared"} => c \in kept
    /\ record[c].told /\ browser[c] = "up" =>
         life = "starting" \/ record[c].cut \/ record[c].pc \in InLogin

(* No process is signalled but the Chrome of a login (cleanup): a pid that *)
(* another process has got meanwhile is left alone.                        *)
OnlyChromeSignalled == \A c \in Callers : browser[c] # "hurt"

(* The browser profile is removed (clear_browser_profile) only while no    *)
(* login uses it, but for one whose clean-up was cut short.                *)
ProfileAlone == gate = "clear" => \A c \in Callers : worker[c] \in {"up", "stopping"} => record[c].cut

VpnSafe == VpnTypeOK /\ OneRun /\ SuccessIsConnected /\ LoginLeavesNothing /\ OnlyChromeSignalled /\ ProfileAlone

(* A run that has ended stays as it ended, and one that is being cancelled *)
(* does not succeed any more (cancel, _run).                               *)
EndStands ==
  \A c \in Callers : LET was == record[c].state IN
    /\ was \in Final => record'[c].state \in {was, "lost"}
    /\ was = "cancelling" => record'[c].state # "succeeded"
=============================================================================

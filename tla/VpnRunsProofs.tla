---------------------------- MODULE VpnRunsProofs ----------------------------
(***************************************************************************)
(* The runs of the VPN are safe for any callers, requests and settings,    *)
(* and any interruptions, deaths of the backend and ends of Chrome; the    *)
(* bypass is for any networks, gateways, configurations and bounds of its  *)
(* journal, with kills at every step and others changing the table.        *)
(***************************************************************************)
EXTENDS VpnRuns, BypassDaemon, FiniteSetTheorems, TLAPS

Serving == {"serving", "closing", "pressing"}
Moving == {"running", "cancelling"}

(* Where the task of a run stands by its state; a run that is cancelled    *)
(* has its interruption before it, or it is in the clean-up of its login.  *)
Placed(r) ==
  /\ r.pc \in {"idle", "starting"} => r.state = "none" /\ ~r.told /\ ~r.cut
  /\ r.pc = "queued" => r.state = "queued"
  /\ r.pc \in InScope => r.state \in Moving
  /\ r.pc = "ending" => r.state \in Final
  /\ r.pc = "over" => r.state \notin Moving
  /\ r.net # "off" => r.state \in Moving
  /\ r.pend => r.pc \in InScope \cup {"queued", "ending"}
  /\ r.pc \in {"settle", "clean"} => r.res # "none"
  /\ r.state = "cancelling" => r.pend \/ (r.pc \in {"settle", "clean"} /\ r.res = "cancelled")

(* A relogin takes no rung but the login, and has an address only by it.   *)
Connected(r) ==
  /\ r.state = "succeeded" => r.ip
  /\ r.relogin => r.pc \notin {"open", "restart", "window"}
  /\ r.relogin /\ (r.ip \/ r.pc = "wait") => r.logged

Records == \A c \in Callers : Placed(record[c]) /\ Connected(record[c])

(* One run is under way, in every life of the backend.                     *)
Alone ==
  /\ \A c, d \in Callers : record[c].state \in Live /\ record[d].state \in Live => c = d
  /\ \A c \in Callers : record[c].state \in Live =>
       life # "starting" /\ (life \in Serving => current = c /\ task = c)

(* Whoever is inside the gate saw no run under way, and there is none.     *)
Gated ==
  /\ gate = "clear" => life \in Serving /\ \A c \in Callers : record[c].state \notin Live
  /\ \A c \in Callers : record[c].pc = "starting" =>
       /\ gate = c /\ life \in Serving /\ ~Known(c)
       /\ \A d \in Callers : record[d].state \notin Live

Once ==
  \A c, d \in Callers : record[c].state \in Live \cup Final /\ record[d].state \in Live \cup Final
                          /\ Request[c] = Request[d] => c = d

(* The worker and the Chrome of a login.                                   *)
LoggedIn(c) ==
  /\ worker[c] \in {"up", "stopping"} => record[c].pc \in InLogin \/ record[c].cut
  /\ record[c].told => browser[c] # "none"
  /\ record[c].told /\ browser[c] \in {"up", "spared"} => c \in kept
  /\ record[c].told /\ browser[c] = "up" =>
       life = "starting" \/ record[c].cut \/ record[c].pc \in InLogin
  /\ browser[c] # "hurt"

(* A clean-up forgets no Chrome that lives: it has it before it, or has    *)
(* tried to kill it.                                                       *)
Sweeps(c) ==
  /\ c \in clean.spared => browser[c] \notin {"none", "up"}
  /\ clean.at \in Callers \cup {"look"} /\ record[c].told /\ browser[c] \in {"up", "spared"} =>
       c \in clean.todo \cup clean.spared
  /\ clean.at = "done" /\ record[c].told => browser[c] # "up"

Logins ==
  /\ held = {} \/ held = kept
  /\ clean.at # "none" => life = "starting" \/ \E c \in Callers : record[c].pc = "clean"
  /\ \A c \in Callers : LoggedIn(c) /\ Sweeps(c)

VpnInv == VpnTypeOK /\ Records /\ Alone /\ Gated /\ Once /\ Logins

-----------------------------------------------------------------------------
(* The records of a run.                                                   *)
LEMMA NoneIs == VpnAssumption => None \in RunRecord /\ Placed(None) /\ Connected(None) /\ ~None.cut
BY DEF VpnAssumption, None, RunRecord, Placed, Connected, InScope, InLogin, Live, Final, Moving

LEMMA EndedIs ==
  ASSUME VpnAssumption, NEW r \in RunRecord, NEW s \in Final \cup {"lost"}
  PROVE  /\ Ended(r, s) \in RunRecord
         /\ Ended(r, s).state = s /\ Ended(r, s).pc = "ending" /\ Ended(r, s).net = "off"
         /\ ~Ended(r, s).pend /\ Ended(r, s).ip = r.ip /\ Ended(r, s).relogin = r.relogin
         /\ Ended(r, s).told = r.told /\ Ended(r, s).logged = r.logged /\ Ended(r, s).cut = r.cut
<1>1. s \in Live \cup Final \cup {"none", "lost"} /\ {} \in SUBSET {"timeout", "cancel"}
  BY DEF Final
<1>2. 0 \in 0..MaxTries /\ 0 \in 0..4
  BY DEF VpnAssumption
<1>3. Ended(r, s) \in RunRecord
  BY <1>1, <1>2 DEF Ended, RunRecord
<1> QED
  BY <1>3 DEF Ended, RunRecord

LEMMA MinIs ==
  ASSUME NEW S \in SUBSET (1..4), S # {}
  PROVE  Min(S) \in S
<1>1. \E m \in S : \A n \in S : m =< n
  <2>1. CASE 1 \in S
    BY <2>1
  <2>2. CASE 1 \notin S /\ 2 \in S
    BY <2>2
  <2>3. CASE 1 \notin S /\ 2 \notin S /\ 3 \in S
    BY <2>3
  <2>4. CASE 1 \notin S /\ 2 \notin S /\ 3 \notin S
    <3>1. \A m \in S : m = 4
      BY <2>4
    <3>2. PICK m : m \in S
      OBVIOUS
    <3>3. m \in S /\ \A n \in S : m =< n
      BY <3>1, <3>2
    <3> QED
      BY <3>3
  <2> QED
    BY <2>1, <2>2, <2>3, <2>4
<1> QED
  BY <1>1 DEF Min

(* A run goes on to a rung that it takes, or it ends.                      *)
LEMMA ClimbIs ==
  ASSUME NEW r \in RunRecord, NEW n \in Nat
  PROVE  \/ \E m \in 1..4 : /\ m \in Takes(r) /\ m >= n
                            /\ Climb(r, n) = [r EXCEPT !.pc = Rungs[m], !.rung = m]
         \/ Climb(r, n) = Ended(r, IF r.ip THEN "succeeded" ELSE "failed")
<1>1. CASE {m \in Takes(r) : m >= n} = {}
  BY <1>1 DEF Climb
<1>2. CASE {m \in Takes(r) : m >= n} # {}
  <2>1. {m \in Takes(r) : m >= n} \in SUBSET (1..4)
    BY DEF Takes
  <2>2. PICK m : m = Min({k \in Takes(r) : k >= n})
    OBVIOUS
  <2>3. m \in 1..4 /\ m \in Takes(r) /\ m >= n
    BY <1>2, <2>1, <2>2, MinIs
  <2> QED
    BY <1>2, <2>2, <2>3 DEF Climb
<1> QED
  BY <1>1, <1>2

-----------------------------------------------------------------------------
(* A step of the task of c, or of its monitor: what it does to the record, *)
(* and to the worker and the Chrome of its login, which only ever go.      *)
Fits(was, r) ==
  /\ Placed(r) /\ Connected(r)
  /\ r.told = was.told /\ (was.cut => r.cut)
Follows(was, r) ==
  /\ Fits(was, r) /\ r.pc # "starting"
  /\ r.state \in Live => was.state \in Live
  /\ r.state \in Live \cup Final => was.state \in Live \cup Final

Fades ==
  /\ worker' \in [Callers -> {"none", "up", "stopping", "gone"}]
  /\ browser' \in [Callers -> {"none", "up", "spared", "down", "foreign", "hurt"}]
  /\ \A d \in Callers : worker'[d] \in {worker[d], "gone"} /\ browser'[d] \in Gone(browser[d])

Parts(c, r) ==
  /\ record[c].pc \in InLogin => \/ r.pc \in InLogin \/ r.cut
                                 \/ worker'[c] \notin {"up", "stopping"} /\ (r.told => browser'[c] # "up")
  /\ record[c].pc = "clean" => r.pc = "clean" \/ clean' = Resting

(* A step that starts no run.                                              *)
LEMMA GateKept ==
  ASSUME VpnInv, NEW c \in Callers, NEW r \in RunRecord, Becomes(c, r), Follows(record[c], r),
         life \in Serving => life' \in Serving, gate' = gate
  PROVE  /\ Gated' /\ Once'
         /\ \A d \in Callers : record'[d].state \in Live => record[d].state \in Live
<1>1. \A d \in Callers : record'[d] = IF d = c THEN r ELSE record[d]
  BY DEF Becomes, VpnInv, VpnTypeOK
<1>2. \A d \in Callers : /\ record'[d].state \in Live => record[d].state \in Live
                         /\ record'[d].state \in Live \cup Final => record[d].state \in Live \cup Final
                         /\ record'[d].pc = "starting" => record[d].pc = "starting"
  BY <1>1 DEF Follows
<1>3. Once'
  BY <1>2 DEF VpnInv, Once
<1>4. \A d \in Callers : Known(d)' => Known(d)
  <2>1. \A d \in Callers : record'[d].state \in Live \cup Final \cup {"none", "lost"}
    BY <1>1 DEF VpnInv, VpnTypeOK, RunRecord
  <2> QED
    BY <1>2, <2>1 DEF Known, Live, Final
<1>5. Gated'
  BY <1>2, <1>4 DEF VpnInv, Gated
<1> QED
  BY <1>2, <1>3, <1>5

LEMMA ServiceKept ==
  ASSUME VpnInv, NEW c \in Callers, NEW r \in RunRecord, Becomes(c, r), Follows(record[c], r),
         UNCHANGED service
  PROVE  Alone' /\ Gated' /\ Once'
<1>1. /\ Gated' /\ Once'
      /\ \A d \in Callers : record'[d].state \in Live => record[d].state \in Live
  BY GateKept DEF service
<1> QED
  BY <1>1 DEF VpnInv, Alone, service

LEMMA LoginsKept ==
  ASSUME VpnAssumption, VpnInv, life = "starting" => life' = "starting", UNCHANGED <<held, kept>>, Fades,
         clean' = clean \/ clean' = Resting,
         \A d \in Callers : Fits(record[d], record'[d]) /\ Parts(d, record'[d])
  PROVE  Records' /\ Logins'
<1>1. Records'
  BY DEF Records, Fits
<1>2. \A d \in Callers :
        /\ worker'[d] \in {"up", "stopping"} => worker[d] = worker'[d]
        /\ browser'[d] \in {"up", "spared", "none", "hurt"} => browser[d] = browser'[d]
        /\ browser[d] = "none" => browser'[d] = "none"
        /\ browser'[d] = browser[d] \/ browser'[d] = "down"
  BY DEF Fades, Gone, VpnInv, VpnTypeOK
<1>3. ASSUME NEW d \in Callers PROVE LoggedIn(d)' /\ Sweeps(d)'
  <2>1. /\ record'[d].told = record[d].told /\ (record[d].cut => record'[d].cut)
        /\ record[d].pc \in InLogin => \/ record'[d].pc \in InLogin \/ record'[d].cut
                                       \/ /\ worker'[d] \notin {"up", "stopping"}
                                          /\ record'[d].told => browser'[d] # "up"
    BY DEF Fits, Parts
  <2>2. LoggedIn(d) /\ Sweeps(d)
    BY DEF VpnInv, Logins
  <2>3. LoggedIn(d)'
    BY <1>2, <2>1, <2>2 DEF LoggedIn
  <2>4. CASE clean' = clean
    BY <1>2, <2>1, <2>2, <2>3, <2>4 DEF Sweeps
  <2>5. CASE clean' = Resting
    <3>1. "none" \notin Callers
      BY DEF VpnAssumption
    <3>2. clean'.at = "none" /\ clean'.spared = {} /\ clean'.todo = {}
      BY <2>5 DEF Resting
    <3> QED
      BY <2>3, <3>1, <3>2 DEF Sweeps
  <2> QED
    BY <2>4, <2>5
<1>4. clean'.at # "none" => life' = "starting" \/ \E d \in Callers : record'[d].pc = "clean"
  <2>1. CASE clean' = Resting
    BY <2>1 DEF Resting
  <2>2. CASE clean' # Resting
    BY <2>2 DEF VpnInv, Logins, Parts
  <2> QED
    BY <2>1, <2>2
<1> QED
  BY <1>1, <1>3, <1>4 DEF VpnInv, Logins

(* A step of one run.                                                      *)
LEMMA LoginKept ==
  ASSUME VpnAssumption, VpnInv, NEW c \in Callers, NEW r \in RunRecord, Becomes(c, r), Fits(record[c], r),
         life = "starting" => life' = "starting", UNCHANGED <<held, kept>>, Fades,
         Parts(c, r), clean' = clean \/ clean' = Resting
  PROVE  Records' /\ Logins'
<1>1. \A d \in Callers : record'[d] = IF d = c THEN r ELSE record[d]
  BY DEF Becomes, VpnInv, VpnTypeOK
<1>2. \A d \in Callers : Fits(record[d], record'[d])
  BY <1>1 DEF Fits, VpnInv, Records
<1>3. \A d \in Callers : d # c => Parts(d, record'[d])
  <2>1. \A d \in Callers : d # c /\ record[d].pc = "clean" => record'[d].pc = "clean"
    BY <1>1
  <2> QED
    BY <1>1, <2>1 DEF Parts
<1>4. \A d \in Callers : Fits(record[d], record'[d]) /\ Parts(d, record'[d])
  BY <1>1, <1>2, <1>3
<1> QED
  BY <1>4, LoginsKept

LEMMA MoveKeeps ==
  ASSUME VpnAssumption, VpnInv, NEW c \in Callers, NEW r \in RunRecord, Becomes(c, r), Follows(record[c], r),
         UNCHANGED service, UNCHANGED <<held, kept>>, Fades, Parts(c, r),
         clean' = clean \/ clean' = Resting, link' \in BOOLEAN, UNCHANGED left
  PROVE  VpnInv'
<1>1. Alone' /\ Gated' /\ Once'
  BY ServiceKept
<1>2. Records' /\ Logins'
  BY LoginKept DEF service, Follows
<1>3. VpnTypeOK'
  <2>1. record' \in [Callers -> RunRecord]
    BY DEF VpnInv, VpnTypeOK, Becomes
  <2>2. Resting \in [at: {"none", "look", "done"} \cup Callers, todo: SUBSET Callers, spared: SUBSET Callers]
    BY DEF Resting
  <2> QED
    BY <2>1, <2>2 DEF VpnInv, VpnTypeOK, service, Fades
<1> QED
  BY <1>1, <1>2, <1>3 DEF VpnInv

(* Most of them touch no login but its place.                              *)
LEMMA PlainKeeps ==
  ASSUME VpnAssumption, VpnInv, NEW c \in Callers, NEW r \in RunRecord, Becomes(c, r), Follows(record[c], r),
         UNCHANGED service, UNCHANGED login, link' \in BOOLEAN, UNCHANGED left,
         record[c].pc \in InLogin => r.pc \in InLogin \/ r.cut,
         record[c].pc = "clean" => r.pc = "clean"
  PROVE  VpnInv'
<1>1. Fades
  BY DEF Fades, Gone, login, VpnInv, VpnTypeOK
<1>2. Parts(c, r)
  BY DEF Parts
<1> QED
  BY <1>1, <1>2, MoveKeeps DEF login

-----------------------------------------------------------------------------
(* What a run turns into.                                                  *)
LEMMA EndFollows ==
  ASSUME VpnAssumption, NEW was \in RunRecord, Placed(was), was.pc \in InScope,
         NEW r \in RunRecord, r.told = was.told, was.cut => r.cut, r.relogin /\ r.ip => r.logged,
         NEW s \in Final, s = "succeeded" => r.ip
  PROVE  Ended(r, s) \in RunRecord /\ Follows(was, Ended(r, s)) /\ Ended(r, s).cut = r.cut
<1>1. was.state \in Live
  BY DEF Placed, Live, Moving
<1>2. s \in Final \cup {"lost"} /\ s # "cancelling" /\ s \notin Live
  BY DEF Final, Live
<1> DEFINE e == Ended(r, s)
<1>3. /\ e \in RunRecord
      /\ e.state = s /\ e.pc = "ending" /\ e.net = "off"
      /\ ~e.pend /\ e.ip = r.ip /\ e.relogin = r.relogin
      /\ e.told = r.told /\ e.logged = r.logged /\ e.cut = r.cut
  BY <1>2, EndedIs
<1> HIDE DEF e
<1>4. Placed(e) /\ Connected(e)
  BY <1>2, <1>3 DEF Placed, Connected, InScope, InLogin
<1>5. Follows(was, e)
  BY <1>1, <1>2, <1>3, <1>4 DEF Follows, Fits
<1> QED
  BY <1>3, <1>5 DEF e

LEMMA ClimbFollows ==
  ASSUME VpnAssumption, NEW was \in RunRecord, Placed(was), was.pc \in InScope,
         NEW r \in RunRecord, r.told = was.told, r.cut = was.cut, r.relogin /\ r.ip => r.logged,
         r.state = "running", ~r.pend, NEW n \in Nat
  PROVE  Climb(r, n) \in RunRecord /\ Follows(was, Climb(r, n))
<1>1. CASE Climb(r, n) = Ended(r, IF r.ip THEN "succeeded" ELSE "failed")
  <2>1. PICK s : s = IF r.ip THEN "succeeded" ELSE "failed"
    OBVIOUS
  <2>2. s \in Final /\ (s = "succeeded" => r.ip)
    BY <2>1 DEF Final
  <2>3. Climb(r, n) = Ended(r, s)
    BY <1>1, <2>1
  <2> QED
    BY <2>2, <2>3, EndFollows
<1>2. CASE \E m \in 1..4 : m \in Takes(r) /\ Climb(r, n) = [r EXCEPT !.pc = Rungs[m], !.rung = m]
  <2>1. PICK m \in 1..4 : m \in Takes(r) /\ Climb(r, n) = [r EXCEPT !.pc = Rungs[m], !.rung = m]
    BY <1>2
  <2>2. PICK p : p = Rungs[m]
    OBVIOUS
  <2>3. p \in {"open", "restart", "window", "login"} /\ (r.relogin => p = "login")
    BY <2>1, <2>2 DEF Takes, Rungs
  <2> DEFINE e == [r EXCEPT !.pc = p, !.rung = m]
  <2>4. p \in InScope \cup {"idle", "starting", "queued", "ending", "over"}
    BY <2>3 DEF InScope
  <2>5. m \in 0..4
    OBVIOUS
  <2>6. e \in RunRecord
    BY <2>4, <2>5 DEF RunRecord
  <2>7. /\ e.pc = p /\ e.state = "running" /\ ~e.pend /\ e.told = r.told /\ e.cut = r.cut
        /\ e.relogin = r.relogin /\ e.ip = r.ip /\ e.logged = r.logged
    BY <2>6 DEF RunRecord
  <2>8. Climb(r, n) = e
    BY <2>1, <2>2
  <2> HIDE DEF e
  <2>9. Placed(e) /\ Connected(e)
    BY <2>3, <2>7 DEF Placed, Connected, InScope, InLogin, Moving
  <2>10. was.state \in Live /\ "running" \in Live
    BY DEF Placed, Live, Moving
  <2>11. Follows(was, e)
    BY <2>3, <2>7, <2>9, <2>10 DEF Follows, Fits
  <2> QED
    BY <2>6, <2>8, <2>11
<1> QED
  BY <1>1, <1>2, ClimbIs

(* A run whose task can go on.                                             *)
LEMMA RunningIs ==
  ASSUME VpnInv, NEW c \in Callers
  PROVE  /\ record[c] \in RunRecord /\ Placed(record[c]) /\ Connected(record[c])
         /\ ~record[c].pend /\ record[c].pc \in InScope \ {"settle", "clean"} => record[c].state = "running"
         /\ record[c].pc \in InScope => record[c].state \in Live
<1>1. record[c] \in RunRecord /\ Placed(record[c]) /\ Connected(record[c])
  BY DEF VpnInv, VpnTypeOK, Records
<1> QED
  BY <1>1 DEF Placed, Moving, Live

-----------------------------------------------------------------------------
(* The steps of a task that leave its login alone.                         *)
LEMMA BeginsToRun == ASSUME VpnAssumption, VpnInv, NEW c \in Callers, Run(c) PROVE VpnInv'
<1> DEFINE e == [record[c] EXCEPT !.state = "running", !.pc = "probe", !.net = "idle"]
<1>1. record[c] \in RunRecord /\ Placed(record[c]) /\ Connected(record[c])
  BY RunningIs
<1>2. /\ e \in RunRecord
  BY <1>1 DEF RunRecord, InScope, Live
<1>3. /\ e.state = "running" /\ e.pc = "probe" /\ e.net = "idle" /\ e.told = record[c].told
      /\ e.pend = record[c].pend /\ e.cut = record[c].cut /\ e.relogin = record[c].relogin
      /\ e.ip = record[c].ip /\ e.logged = record[c].logged
  BY <1>1 DEF RunRecord
<1>4. Becomes(c, e) /\ record[c].pc = "queued" /\ ~record[c].pend
  BY DEF Run, Runs
<1> HIDE DEF e
<1>5. Placed(e) /\ Connected(e) /\ Follows(record[c], e)
  BY <1>1, <1>3, <1>4 DEF Placed, Connected, Follows, Fits, InScope, InLogin, Moving, Live
<1> QED
  BY <1>2, <1>4, <1>5, PlainKeeps DEF Run, InLogin, VpnInv, VpnTypeOK

LEMMA ProbeKeeps == ASSUME VpnAssumption, VpnInv, NEW c \in Callers, Probe(c) PROVE VpnInv'
<1>1. record[c] \in RunRecord /\ Placed(record[c]) /\ Connected(record[c])
  BY RunningIs
<1>2. record[c].pc = "probe" /\ record[c].state = "running" /\ record[c].pc \in InScope /\ ~record[c].pend
  BY RunningIs DEF Probe, Runs, InScope, InLogin
<1>3. /\ record[c].relogin /\ record[c].ip => record[c].logged
      /\ "failed" \in Final /\ "succeeded" \in Final /\ 1 \in Nat
  BY <1>1 DEF Connected, Final
<1>4. UNCHANGED service /\ UNCHANGED login /\ link' \in BOOLEAN /\ UNCHANGED left
  BY DEF Probe, VpnInv, VpnTypeOK
<1>5. CASE link /\ ~record[c].relogin
  <2> DEFINE e == [record[c] EXCEPT !.ip = TRUE]
  <2>1. e \in RunRecord /\ e.told = record[c].told /\ e.cut = record[c].cut /\ e.ip /\ ~e.relogin
    BY <1>1, <1>5 DEF RunRecord
  <2>2. Becomes(c, Ended(e, "succeeded"))
    BY <1>5 DEF Probe
  <2> HIDE DEF e
  <2>3. Ended(e, "succeeded") \in RunRecord /\ Follows(record[c], Ended(e, "succeeded"))
    BY <1>1, <1>2, <1>3, <2>1, EndFollows
  <2> QED
    BY <1>2, <1>4, <2>2, <2>3, PlainKeeps DEF InLogin
<1>6. CASE Becomes(c, Climb(record[c], 1))
  <2>1. Climb(record[c], 1) \in RunRecord /\ Follows(record[c], Climb(record[c], 1))
    BY <1>1, <1>2, <1>3, ClimbFollows
  <2> QED
    BY <1>2, <1>4, <1>6, <2>1, PlainKeeps DEF InLogin
<1>7. CASE Becomes(c, Ended(record[c], "failed"))
  <2>1. Ended(record[c], "failed") \in RunRecord /\ Follows(record[c], Ended(record[c], "failed"))
    BY <1>1, <1>2, <1>3, EndFollows
  <2> QED
    BY <1>2, <1>4, <1>7, <2>1, PlainKeeps DEF InLogin
<1> QED
  BY <1>5, <1>6, <1>7 DEF Probe

(* An end in failure, a place in the ladder, or a wait.                    *)
LEMMA FailsKeeps ==
  ASSUME VpnAssumption, VpnInv, NEW c \in Callers, record[c].pc \in InScope \ InLogin,
         Becomes(c, Ended(record[c], "failed")),
         UNCHANGED service, UNCHANGED login, link' \in BOOLEAN, UNCHANGED left
  PROVE  VpnInv'
<1>1. record[c] \in RunRecord /\ Placed(record[c]) /\ Connected(record[c])
  BY RunningIs
<1>2. /\ record[c].relogin /\ record[c].ip => record[c].logged
      /\ "failed" \in Final
  BY <1>1 DEF Connected, Final
<1>3. Ended(record[c], "failed") \in RunRecord /\ Follows(record[c], Ended(record[c], "failed"))
  BY <1>1, <1>2, EndFollows
<1> QED
  BY <1>3, PlainKeeps DEF InLogin

LEMMA WaitsKeeps ==
  ASSUME VpnAssumption, VpnInv, NEW c \in Callers, record[c].pc \in {"open", "restart", "window"},
         ~record[c].pend, Becomes(c, [record[c] EXCEPT !.pc = "wait"]),
         UNCHANGED service, UNCHANGED login, link' \in BOOLEAN, UNCHANGED left
  PROVE  VpnInv'
<1> DEFINE e == [record[c] EXCEPT !.pc = "wait"]
<1>1. /\ record[c] \in RunRecord /\ Placed(record[c]) /\ Connected(record[c])
      /\ record[c].state = "running"
  BY RunningIs DEF InScope, InLogin
<1>2. e \in RunRecord
  BY <1>1 DEF RunRecord, InScope
<1>3. /\ e.pc = "wait" /\ e.state = "running" /\ e.net = record[c].net /\ e.told = record[c].told
      /\ e.pend = record[c].pend /\ e.cut = record[c].cut /\ e.relogin = record[c].relogin
      /\ e.ip = record[c].ip /\ e.logged = record[c].logged
  BY <1>1 DEF RunRecord
<1> HIDE DEF e
<1>4. Placed(e) /\ Connected(e) /\ Follows(record[c], e)
  BY <1>1, <1>3 DEF Placed, Connected, Follows, Fits, InScope, InLogin, Moving, Live
<1>5. Becomes(c, e)
  BY DEF e
<1> QED
  BY <1>2, <1>4, <1>5, PlainKeeps DEF InLogin

LEMMA OpensKeeps == ASSUME VpnAssumption, VpnInv, NEW c \in Callers, OpenClient(c) PROVE VpnInv'
<1>1. record[c].pc \in {"open", "restart"} /\ ~record[c].pend
  BY DEF OpenClient, Runs
<1>2. record[c].pc \in InScope \ InLogin
  BY <1>1 DEF InScope, InLogin
<1> QED
  BY <1>1, <1>2, FailsKeeps, WaitsKeeps DEF OpenClient, login

LEMMA PressesKeeps == ASSUME VpnAssumption, VpnInv, NEW c \in Callers, PressButton(c) PROVE VpnInv'
<1>1. record[c].pc = "window" /\ ~record[c].pend
  BY DEF PressButton, Runs
<1>2. record[c].pc \in InScope \ InLogin
  BY <1>1 DEF InScope, InLogin
<1>3. CASE Becomes(c, Climb(record[c], 4))
  <2>1. record[c] \in RunRecord /\ Placed(record[c]) /\ Connected(record[c]) /\ record[c].state = "running"
    BY <1>1, RunningIs DEF InScope
  <2>2. record[c].relogin /\ record[c].ip => record[c].logged
    BY <2>1 DEF Connected
  <2>3. Climb(record[c], 4) \in RunRecord /\ Follows(record[c], Climb(record[c], 4))
    BY <1>1, <1>2, <2>1, <2>2, ClimbFollows
  <2> QED
    BY <1>1, <1>3, <2>3, PlainKeeps DEF InLogin, PressButton
<1> QED
  BY <1>1, <1>2, <1>3, FailsKeeps, WaitsKeeps DEF PressButton

LEMMA WaitedKeeps == ASSUME VpnAssumption, VpnInv, NEW c \in Callers, Waited(c) PROVE VpnInv'
<1>1. record[c] \in RunRecord /\ Placed(record[c]) /\ Connected(record[c])
  BY RunningIs
<1>2. record[c].pc = "wait" /\ record[c].state = "running" /\ record[c].pc \in InScope /\ ~record[c].pend
  BY RunningIs DEF Waited, Runs, InScope, InLogin
<1>3. PICK found \in {FALSE, link}, ip \in BOOLEAN, n \in Nat :
        Becomes(c, Climb([record[c] EXCEPT !.ip = ip], n))
  <2>1. PICK found \in {FALSE, link} :
          Becomes(c, Climb([record[c] EXCEPT !.ip = found \/ (record[c].ip /\ record[c].rung <= 2)],
                           IF record[c].rung = 4 THEN 5 ELSE record[c].rung + 1))
    BY DEF Waited
  <2>2. found \in BOOLEAN /\ record[c].rung \in 0..4 /\ record[c].ip \in BOOLEAN
    BY <1>1 DEF VpnInv, VpnTypeOK, RunRecord
  <2>3. (found \/ (record[c].ip /\ record[c].rung <= 2)) \in BOOLEAN
    OBVIOUS
  <2>4. (IF record[c].rung = 4 THEN 5 ELSE record[c].rung + 1) \in Nat
    BY <2>2
  <2> QED
    BY <2>1, <2>3, <2>4
<1> DEFINE e == [record[c] EXCEPT !.ip = ip]
<1>4. /\ e \in RunRecord /\ e.told = record[c].told /\ e.cut = record[c].cut /\ e.relogin = record[c].relogin
      /\ e.logged = record[c].logged /\ e.state = "running" /\ ~e.pend
  BY <1>1, <1>2 DEF RunRecord
<1>5. Becomes(c, Climb(e, n))
  BY <1>3
<1> HIDE DEF e
<1>6. e.relogin /\ e.ip => e.logged
  BY <1>1, <1>2, <1>4 DEF Connected
<1>7. Climb(e, n) \in RunRecord /\ Follows(record[c], Climb(e, n))
  BY <1>1, <1>2, <1>4, <1>6, ClimbFollows
<1> QED
  BY <1>2, <1>5, <1>7, PlainKeeps DEF InLogin, Waited, VpnInv, VpnTypeOK

LEMMA LoginFailsKeeps == ASSUME VpnAssumption, VpnInv, NEW c \in Callers, LoginFails(c) PROVE VpnInv'
<1>1. record[c].pc \in InScope \ InLogin
  BY DEF LoginFails, Runs, InScope, InLogin
<1> QED
  BY <1>1, FailsKeeps DEF LoginFails, VpnInv, VpnTypeOK

-----------------------------------------------------------------------------
(* The monitor, the codes, and what interrupts a run.                      *)
LEMMA MonitorKeeps ==
  ASSUME VpnAssumption, VpnInv, NEW c \in Callers, MonitorReads(c) \/ MonitorWrites(c)
  PROVE  VpnInv'
<1>1. record[c] \in RunRecord /\ Placed(record[c]) /\ Connected(record[c])
  BY RunningIs
<1>2. /\ UNCHANGED service /\ UNCHANGED login /\ link' \in BOOLEAN /\ UNCHANGED left
      /\ record[c].net # "off" /\ record[c].state \in Moving
  BY <1>1 DEF MonitorReads, MonitorWrites, VpnInv, VpnTypeOK, Placed
<1>3. PICK net \in {"idle", "up", "down"}, ip \in BOOLEAN :
        /\ Becomes(c, [record[c] EXCEPT !.ip = ip, !.net = net])
        /\ record[c].relogin => ip = record[c].ip
  <2>1. CASE MonitorReads(c)
    <3>1. PICK net \in {"up", "down"} : Becomes(c, [record[c] EXCEPT !.net = net])
      BY <2>1 DEF MonitorReads
    <3>2. [record[c] EXCEPT !.net = net] = [record[c] EXCEPT !.ip = record[c].ip, !.net = net]
      BY <1>1 DEF RunRecord
    <3>3. record[c].ip \in BOOLEAN
      BY <1>1 DEF RunRecord
    <3> QED
      BY <3>1, <3>2, <3>3
  <2>2. CASE MonitorWrites(c)
    <3>1. Reported(record[c]) \in BOOLEAN /\ (record[c].relogin => Reported(record[c]) = record[c].ip)
      BY <1>1 DEF Reported, RunRecord
    <3> QED
      BY <2>2, <3>1 DEF MonitorWrites
  <2> QED
    BY <2>1, <2>2
<1> DEFINE e == [record[c] EXCEPT !.ip = ip, !.net = net]
<1>4. e \in RunRecord
  BY <1>1 DEF RunRecord
<1>5. /\ e.pc = record[c].pc /\ e.state = record[c].state /\ e.net = net /\ e.told = record[c].told
      /\ e.pend = record[c].pend /\ e.cut = record[c].cut /\ e.relogin = record[c].relogin
      /\ e.ip = ip /\ e.logged = record[c].logged /\ e.res = record[c].res
  BY <1>1 DEF RunRecord
<1>6. Becomes(c, e)
  BY <1>3
<1> HIDE DEF e
<1>7. record[c].pc # "starting" /\ record[c].state # "succeeded"
  BY <1>1, <1>2 DEF Placed, Moving
<1>8. Placed(e) /\ Connected(e) /\ Follows(record[c], e)
  BY <1>1, <1>2, <1>3, <1>5, <1>7 DEF Placed, Connected, Follows, Fits
<1> QED
  BY <1>2, <1>4, <1>5, <1>6, <1>8, PlainKeeps

LEMMA CodesKeep ==
  ASSUME VpnAssumption, VpnInv, NEW c \in Callers, NeedMfa(c) \/ SubmitMfa(c)
  PROVE  VpnInv'
<1>1. record[c] \in RunRecord /\ Placed(record[c]) /\ Connected(record[c])
  BY RunningIs
<1>2. record[c].pc \in {"exchange", "mfa"} /\ ~record[c].pend /\ record[c].state = "running"
  BY <1>1 DEF NeedMfa, SubmitMfa, Runs, Placed, InScope, InLogin, Moving
<1>3. PICK pc \in {"exchange", "mfa"}, tries \in 0..MaxTries :
        Becomes(c, [record[c] EXCEPT !.pc = pc, !.tries = tries])
  <2>1. CASE NeedMfa(c)
    <3>1. record[c].tries + 1 \in 0..MaxTries
      BY <1>1, <2>1 DEF NeedMfa, RunRecord, VpnAssumption
    <3>2. Becomes(c, [record[c] EXCEPT !.pc = "mfa", !.tries = record[c].tries + 1])
      BY <1>1, <2>1 DEF NeedMfa, RunRecord
    <3> QED
      BY <3>1, <3>2
  <2>2. CASE SubmitMfa(c)
    <3>1. [record[c] EXCEPT !.pc = "exchange"] = [record[c] EXCEPT !.pc = "exchange", !.tries = record[c].tries]
      BY <1>1 DEF RunRecord
    <3>2. record[c].tries \in 0..MaxTries
      BY <1>1 DEF RunRecord
    <3> QED
      BY <2>2, <3>1, <3>2 DEF SubmitMfa
  <2> QED
    BY <2>1, <2>2
<1> DEFINE e == [record[c] EXCEPT !.pc = pc, !.tries = tries]
<1>4. pc \in InScope \cup {"idle", "starting", "queued", "ending", "over"}
  BY DEF InScope, InLogin
<1>5. e \in RunRecord
  BY <1>1, <1>4 DEF RunRecord
<1>6. /\ e.pc = pc /\ e.state = "running" /\ e.net = record[c].net /\ e.told = record[c].told
      /\ ~e.pend /\ e.cut = record[c].cut /\ e.relogin = record[c].relogin
      /\ e.ip = record[c].ip /\ e.logged = record[c].logged
  BY <1>1, <1>2 DEF RunRecord
<1>7. Becomes(c, e)
  BY <1>3
<1> HIDE DEF e
<1>8. Placed(e) /\ Connected(e) /\ Follows(record[c], e)
  BY <1>1, <1>2, <1>6 DEF Placed, Connected, Follows, Fits, InScope, InLogin, Moving, Live
<1> QED
  BY <1>2, <1>5, <1>6, <1>7, <1>8, PlainKeeps DEF InLogin, NeedMfa, SubmitMfa, VpnInv, VpnTypeOK

LEMMA InterruptFollows ==
  ASSUME NEW was \in RunRecord, Placed(was), Connected(was), was.pc \in InScope \cup {"queued", "ending"},
         NEW why \in {"timeout", "cancel"}
  PROVE  /\ Interrupt(was, why) \in RunRecord /\ Follows(was, Interrupt(was, why))
         /\ Interrupt(was, why).pc = was.pc
<1> DEFINE e == Interrupt(was, why)
<1>1. was.why \cup {why} \in SUBSET {"timeout", "cancel"}
  BY DEF RunRecord
<1>2. e \in RunRecord
  BY <1>1 DEF RunRecord, Interrupt
<1>3. /\ e.pc = was.pc /\ e.state = was.state /\ e.net = was.net /\ e.told = was.told
      /\ e.pend /\ e.cut = was.cut /\ e.relogin = was.relogin
      /\ e.ip = was.ip /\ e.logged = was.logged /\ e.res = was.res
  BY DEF RunRecord, Interrupt
<1> HIDE DEF e
<1>4. was.pc # "starting"
  BY DEF InScope, InLogin
<1>5. Placed(e) /\ Connected(e) /\ Follows(was, e)
  BY <1>3, <1>4 DEF Placed, Connected, Follows, Fits
<1> QED
  BY <1>2, <1>3, <1>5 DEF e

LEMMA TimeoutKeeps == ASSUME VpnAssumption, VpnInv, NEW c \in Callers, Timeout(c) PROVE VpnInv'
<1>1. record[c] \in RunRecord /\ Placed(record[c]) /\ Connected(record[c])
  BY RunningIs
<1>2. Becomes(c, Interrupt(record[c], "timeout")) /\ record[c].pc \in InScope
  BY DEF Timeout
<1>3. /\ Interrupt(record[c], "timeout") \in RunRecord /\ Follows(record[c], Interrupt(record[c], "timeout"))
      /\ Interrupt(record[c], "timeout").pc = record[c].pc
  BY <1>1, <1>2, InterruptFollows
<1> QED
  BY <1>2, <1>3, PlainKeeps DEF Timeout, VpnInv, VpnTypeOK

(* The interruption itself: into the clean-up of the login, out of it, or  *)
(* to the end.                                                             *)
LEMMA InterruptedKeeps == ASSUME VpnAssumption, VpnInv, NEW c \in Callers, Interrupted(c) PROVE VpnInv'
<1> DEFINE was == record[c]
           r == [record[c] EXCEPT !.pend = FALSE]
<1>1. was \in RunRecord /\ Placed(was) /\ Connected(was) /\ was.pend
  BY RunningIs DEF Interrupted
<1>2. /\ r \in RunRecord /\ ~r.pend
      /\ r.pc = was.pc /\ r.state = was.state /\ r.net = was.net /\ r.told = was.told
      /\ r.cut = was.cut /\ r.relogin = was.relogin /\ r.why = was.why
      /\ r.ip = was.ip /\ r.logged = was.logged /\ r.res = was.res
  BY <1>1 DEF RunRecord
<1>3. Becomes(c, CASE r.pc \in {"exchange", "mfa"} -> [r EXCEPT !.pc = "settle", !.res = "cancelled"]
                   [] r.pc \in {"settle", "clean"} -> Ended([r EXCEPT !.cut = TRUE], Verdict(r))
                   [] r.pc \in {"ending", "queued"} -> [r EXCEPT !.pc = "over"]
                   [] OTHER -> Ended(r, Verdict(r)))
  BY DEF Interrupted
<1>4. /\ UNCHANGED service /\ UNCHANGED <<worker, browser, held, kept, link, left>>
      /\ clean' = IF was.pc = "clean" THEN Resting ELSE clean
  BY DEF Interrupted
<1>5. Fades /\ link' \in BOOLEAN
  BY <1>4 DEF Fades, Gone, VpnInv, VpnTypeOK
<1>6. /\ was.pc \in InScope \cup {"queued", "ending"} /\ Verdict(r) \in Final /\ Verdict(r) # "succeeded"
      /\ r.relogin /\ r.ip => r.logged
  BY <1>1, <1>2 DEF Placed, Connected, Verdict, Final
<1> HIDE DEF r
<1>7. CASE r.pc \in {"exchange", "mfa"}
  <2> DEFINE e == [r EXCEPT !.pc = "settle", !.res = "cancelled"]
  <2>1. "settle" \in InScope
    BY DEF InScope, InLogin
  <2>2. e \in RunRecord
    BY <1>2, <2>1 DEF RunRecord
  <2>3. /\ ~e.pend /\ e.pc = "settle" /\ e.state = was.state /\ e.net = was.net /\ e.told = was.told
        /\ e.cut = was.cut /\ e.relogin = was.relogin
        /\ e.ip = was.ip /\ e.logged = was.logged /\ e.res = "cancelled"
    BY <1>2 DEF RunRecord
  <2>4. Becomes(c, e)
    BY <1>3, <1>7
  <2> HIDE DEF e
  <2>5. was.pc \in InScope
    BY <1>2, <1>7 DEF InScope, InLogin
  <2>6. Placed(e) /\ Connected(e)
    BY <1>1, <2>3, <2>5 DEF Placed, Connected, InScope, InLogin, Moving
  <2>7. Follows(was, e) /\ Parts(c, e)
    BY <1>2, <1>7, <2>3, <2>6 DEF Follows, Fits, Parts, InLogin
  <2> QED
    BY <1>2, <1>4, <1>5, <1>7, <2>2, <2>4, <2>7, MoveKeeps DEF service
<1>8. CASE r.pc \in {"settle", "clean"}
  <2> DEFINE e == [r EXCEPT !.cut = TRUE]
  <2>1. e \in RunRecord /\ e.told = was.told /\ e.cut /\ e.relogin = r.relogin /\ e.ip = r.ip /\ e.logged = r.logged
    BY <1>2 DEF RunRecord
  <2>2. Becomes(c, Ended(e, Verdict(r)))
    BY <1>3, <1>8
  <2> HIDE DEF e
  <2>3. was.pc \in InScope
    BY <1>2, <1>8 DEF InScope, InLogin
  <2>4. /\ Ended(e, Verdict(r)) \in RunRecord /\ Follows(was, Ended(e, Verdict(r)))
        /\ Ended(e, Verdict(r)).cut
    BY <1>1, <1>6, <2>1, <2>3, EndFollows
  <2>5. Parts(c, Ended(e, Verdict(r)))
    BY <1>4, <2>4 DEF Parts
  <2> QED
    BY <1>4, <1>5, <2>2, <2>4, <2>5, MoveKeeps DEF service
<1>9. CASE r.pc \in {"ending", "queued"}
  <2> DEFINE e == [r EXCEPT !.pc = "over"]
  <2>1. e \in RunRecord
    BY <1>2 DEF RunRecord
  <2>2. /\ ~e.pend /\ e.pc = "over" /\ e.state = was.state /\ e.net = was.net /\ e.told = was.told
        /\ e.cut = was.cut /\ e.relogin = was.relogin
        /\ e.ip = was.ip /\ e.logged = was.logged /\ e.res = was.res
    BY <1>2 DEF RunRecord
  <2>3. Becomes(c, e)
    BY <1>3, <1>9
  <2> HIDE DEF e
  <2>4. Placed(e) /\ Connected(e)
    BY <1>1, <1>2, <1>9, <2>2 DEF Placed, Connected, InScope, InLogin, Moving, Final
  <2>5. Follows(was, e) /\ Parts(c, e)
    BY <1>2, <1>9, <2>2, <2>4 DEF Follows, Fits, Parts, InLogin
  <2> QED
    BY <1>4, <1>5, <1>2, <1>9, <2>1, <2>3, <2>5, MoveKeeps DEF service
<1>10. CASE r.pc \notin {"exchange", "mfa", "settle", "clean", "ending", "queued"}
  <2>1. Becomes(c, Ended(r, Verdict(r)))
    BY <1>3, <1>10
  <2>2. was.pc \in InScope /\ was.pc \notin InLogin /\ was.pc # "clean"
    BY <1>2, <1>6, <1>10 DEF InLogin
  <2>3. Ended(r, Verdict(r)) \in RunRecord /\ Follows(was, Ended(r, Verdict(r)))
    BY <1>1, <1>2, <1>6, <2>2, EndFollows
  <2>4. Parts(c, Ended(r, Verdict(r)))
    BY <2>2 DEF Parts
  <2> QED
    BY <1>4, <1>5, <2>1, <2>2, <2>3, <2>4, MoveKeeps DEF service
<1> QED
  BY <1>7, <1>8, <1>9, <1>10

-----------------------------------------------------------------------------
(* The end of a login.                                                     *)
LEMMA LeavesFades ==
  ASSUME VpnInv, NEW c \in Callers, Leaves(c)
  PROVE  Fades
BY DEF Leaves, Fades, Gone, VpnInv, VpnTypeOK

LEMMA ExchangeKeeps ==
  ASSUME VpnAssumption, VpnInv, NEW c \in Callers, Delivered(c) \/ ExchangeFails(c)
  PROVE  VpnInv'
<1>1. record[c] \in RunRecord /\ Placed(record[c]) /\ Connected(record[c])
  BY RunningIs
<1>2. record[c].pc \in {"exchange", "mfa"} /\ ~record[c].pend /\ record[c].state = "running"
  BY <1>1 DEF Delivered, ExchangeFails, Runs, Placed, InScope, InLogin, Moving
<1>3. PICK res \in {"ok", "failed"} : Becomes(c, [record[c] EXCEPT !.pc = "settle", !.res = res])
  BY DEF Delivered, ExchangeFails
<1> DEFINE e == [record[c] EXCEPT !.pc = "settle", !.res = res]
<1>4. "settle" \in InScope
  BY DEF InScope, InLogin
<1>5. e \in RunRecord
  BY <1>1, <1>4 DEF RunRecord
<1>6. /\ e.pc = "settle" /\ e.state = "running" /\ e.net = record[c].net /\ e.told = record[c].told
      /\ ~e.pend /\ e.cut = record[c].cut /\ e.relogin = record[c].relogin
      /\ e.ip = record[c].ip /\ e.logged = record[c].logged /\ e.res = res
  BY <1>1, <1>2 DEF RunRecord
<1>7. Becomes(c, e)
  BY <1>3
<1> HIDE DEF e
<1>8. Placed(e) /\ Connected(e) /\ Follows(record[c], e)
  BY <1>1, <1>2, <1>6 DEF Placed, Connected, Follows, Fits, InScope, InLogin, Moving, Live
<1>9. Parts(c, e) /\ Fades
  BY <1>2, <1>6, LeavesFades DEF Parts, InLogin, Delivered, ExchangeFails
<1> QED
  BY <1>5, <1>7, <1>8, <1>9, MoveKeeps DEF Delivered, ExchangeFails, VpnInv, VpnTypeOK

LEMMA CleanedKeeps ==
  ASSUME VpnAssumption, VpnInv, NEW c \in Callers, Cleaned(c) \/ CleanFails(c)
  PROVE  VpnInv'
<1>1. record[c] \in RunRecord /\ Placed(record[c]) /\ Connected(record[c])
  BY RunningIs
<1>2. /\ record[c].pc = "clean" /\ record[c].pc \in InScope /\ ~record[c].pend
      /\ clean' = Resting /\ link' \in BOOLEAN /\ UNCHANGED service
      /\ UNCHANGED <<worker, browser, held, kept, left>>
  BY DEF Cleaned, CleanFails, Runs, InScope, InLogin, VpnInv, VpnTypeOK
<1>3. Fades
  BY <1>2 DEF Fades, Gone, VpnInv, VpnTypeOK
<1>4. record[c].relogin /\ record[c].ip => record[c].logged
  BY <1>1 DEF Connected
<1>5. CASE Cleaned(c)
  <2>1. \A r : r.told = record[c].told => Parts(c, r)
    <3>1. worker[c] \in {"none", "gone"} /\ clean.at = "done" /\ Sweeps(c)
      BY <1>5 DEF Cleaned, Reaped, VpnInv, Logins
    <3> QED
      BY <1>2, <3>1 DEF Parts, Sweeps
  <2>2. CASE record[c].res = "ok"
    <3> DEFINE e == [record[c] EXCEPT !.logged = TRUE, !.pc = "wait"]
    <3>1. "wait" \in InScope /\ record[c].state = "running"
      BY <1>1, <1>2, <2>2 DEF InScope, Placed, Moving
    <3>2. e \in RunRecord
      BY <1>1, <3>1 DEF RunRecord
    <3>3. /\ e.pc = "wait" /\ e.state = "running" /\ e.net = record[c].net /\ e.told = record[c].told
          /\ ~e.pend /\ e.cut = record[c].cut /\ e.logged
      BY <1>1, <1>2, <3>1 DEF RunRecord
    <3>4. Becomes(c, e)
      BY <1>5, <2>2 DEF Cleaned
    <3> HIDE DEF e
    <3>5. Placed(e) /\ Connected(e)
      BY <3>3 DEF Placed, Connected, InScope, InLogin, Moving
    <3>6. Follows(record[c], e)
      BY <3>1, <3>3, <3>5 DEF Follows, Fits, Live
    <3> QED
      BY <1>2, <1>3, <2>1, <3>2, <3>3, <3>4, <3>6, MoveKeeps
  <2>3. ASSUME NEW s \in {"failed", "cancelled"}, Becomes(c, Ended(record[c], s))
        PROVE  VpnInv'
    <3>1. s \in Final /\ s # "succeeded"
      BY DEF Final
    <3>2. Ended(record[c], s) \in RunRecord /\ Follows(record[c], Ended(record[c], s))
      BY <1>1, <1>2, <1>4, <3>1, EndFollows
    <3>3. Parts(c, Ended(record[c], s))
      BY <2>1, <3>2 DEF Follows, Fits
    <3> QED
      BY <1>2, <1>3, <2>3, <3>2, <3>3, MoveKeeps
  <2>4. CASE record[c].res = "failed"
    BY <1>5, <2>3, <2>4 DEF Cleaned
  <2>5. CASE record[c].res = "cancelled"
    <3>1. Verdict(record[c]) \in {"failed", "cancelled"}
      BY DEF Verdict
    <3> QED
      BY <1>5, <2>3, <2>5, <3>1 DEF Cleaned
  <2>6. record[c].res \in {"ok", "failed", "cancelled"}
    BY <1>1, <1>2 DEF RunRecord, Placed
  <2> QED
    BY <2>2, <2>4, <2>5, <2>6
<1>6. CASE CleanFails(c)
  <2> DEFINE e == [record[c] EXCEPT !.cut = TRUE]
  <2>1. /\ e \in RunRecord /\ e.told = record[c].told /\ e.cut /\ e.relogin = record[c].relogin
        /\ e.ip = record[c].ip /\ e.logged = record[c].logged
    BY <1>1 DEF RunRecord
  <2>2. Becomes(c, Ended(e, "failed")) /\ "failed" \in Final
    BY <1>6 DEF CleanFails, Final
  <2> HIDE DEF e
  <2>3. /\ Ended(e, "failed") \in RunRecord /\ Follows(record[c], Ended(e, "failed"))
        /\ Ended(e, "failed").cut
    BY <1>1, <1>2, <1>4, <2>1, <2>2, EndFollows
  <2>4. Parts(c, Ended(e, "failed"))
    BY <1>2, <2>3 DEF Parts
  <2> QED
    BY <1>2, <1>3, <2>2, <2>3, <2>4, MoveKeeps
<1> QED
  BY <1>5, <1>6

-----------------------------------------------------------------------------
(* The gate, and what starts and ends a run.                               *)
LEMMA LoginStill ==
  ASSUME VpnAssumption, VpnInv, NEW c \in Callers, NEW r \in RunRecord, Becomes(c, r), Fits(record[c], r),
         life = "starting" => life' = "starting", UNCHANGED login, record[c].pc \notin InLogin
  PROVE  /\ Records' /\ Logins'
         /\ record' \in [Callers -> RunRecord]
         /\ \A d \in Callers : record'[d] = IF d = c THEN r ELSE record[d]
<1>1. Fades
  BY DEF Fades, Gone, login, VpnInv, VpnTypeOK
<1>2. Parts(c, r)
  BY DEF Parts, InLogin
<1>3. Records' /\ Logins'
  BY <1>1, <1>2, LoginKept DEF login
<1> QED
  BY <1>3 DEF Becomes, VpnInv, VpnTypeOK

LEMMA StartKeeps == ASSUME VpnAssumption, VpnInv, NEW c \in Callers, Start(c) PROVE VpnInv'
<1>1. record[c] \in RunRecord /\ Placed(record[c]) /\ Connected(record[c])
  BY RunningIs
<1>2. /\ record[c].pc = "idle" /\ record[c].state = "none" /\ life \in Serving /\ gate = Nobody
      /\ UNCHANGED <<life, current, task, login, link, left>>
  BY <1>1 DEF Start, Turn, Serves, Serving, Placed
<1>3. ASSUME NEW pc \in {"over", "starting"}, Becomes(c, [record[c] EXCEPT !.pc = pc])
      PROVE  \E r \in RunRecord : /\ Becomes(c, r) /\ Fits(record[c], r)
                                  /\ r.pc = pc /\ r.state = "none" 
  <2> DEFINE e == [record[c] EXCEPT !.pc = pc]
  <2>1. e \in RunRecord
    BY <1>1 DEF RunRecord
  <2>2. /\ e.pc = pc /\ e.state = "none" /\ e.net = record[c].net /\ e.told = record[c].told
        /\ e.pend = record[c].pend /\ e.cut = record[c].cut /\ e.relogin = record[c].relogin
        /\ e.ip = record[c].ip /\ e.logged = record[c].logged
    BY <1>1, <1>2 DEF RunRecord
  <2>3. Becomes(c, e)
    BY <1>3
  <2> HIDE DEF e
  <2>4. Fits(record[c], e)
    BY <1>1, <1>2, <2>2 DEF Placed, Connected, Fits, InScope, InLogin, Moving
  <2> QED
    BY <2>1, <2>2, <2>3, <2>4
<1>4. CASE Known(c) \/ Busy
  <2>1. PICK r \in RunRecord : Becomes(c, r) /\ Fits(record[c], r) /\ r.pc = "over" /\ r.state = "none"
    BY <1>3, <1>4 DEF Start, Becomes
  <2>2. Follows(record[c], r)
    BY <2>1 DEF Follows, Live, Final
  <2>3. UNCHANGED service
    BY <1>2, <1>4 DEF Start, service
  <2> QED
    BY <1>2, <2>1, <2>2, <2>3, PlainKeeps DEF InLogin, VpnInv, VpnTypeOK
<1>5. CASE ~(Known(c) \/ Busy)
  <2>1. PICK r \in RunRecord : Becomes(c, r) /\ Fits(record[c], r) /\ r.pc = "starting" /\ r.state = "none"
    BY <1>3, <1>5 DEF Start, Becomes
  <2>2. gate' = c /\ c # "clear"
    BY <1>5 DEF Start, VpnAssumption
  <2>3. \A d \in Callers : record[d].state \notin Live
    <3>1. Nobody \notin Callers
      BY DEF VpnAssumption
    <3> QED
      BY <1>2, <1>5, <3>1 DEF Busy, VpnInv, Alone
  <2>4. /\ Records' /\ Logins'
        /\ record' \in [Callers -> RunRecord]
        /\ \A d \in Callers : record'[d] = IF d = c THEN r ELSE record[d]
    BY <1>2, <2>1, LoginStill DEF InLogin
  <2>5. \A d \in Callers : record'[d].state = record[d].state
    BY <1>2, <2>1, <2>4
  <2>6. \A d \in Callers : record[d].pc # "starting"
    <3>1. Nobody \notin Callers
      BY DEF VpnAssumption
    <3> QED
      BY <1>2, <3>1 DEF VpnInv, Gated
  <2>7. ~Known(c)'
    BY <1>5, <2>5 DEF Known
  <2>8. Alone' /\ Once' /\ Gated'
    BY <1>2, <2>1, <2>2, <2>3, <2>4, <2>5, <2>6, <2>7 DEF VpnInv, Alone, Once, Gated
  <2>9. VpnTypeOK'
    BY <1>2, <2>2, <2>4 DEF VpnInv, VpnTypeOK, login
  <2> QED
    BY <2>4, <2>8, <2>9 DEF VpnInv
<1> QED
  BY <1>4, <1>5

LEMMA BeginKeeps == ASSUME VpnAssumption, VpnInv, NEW c \in Callers, Begin(c) PROVE VpnInv'
<1>1. record[c] \in RunRecord /\ Placed(record[c]) /\ Connected(record[c])
  BY RunningIs
<1>2. /\ record[c].pc = "starting" /\ record[c].state = "none" /\ ~record[c].told /\ ~record[c].cut
      /\ gate = c /\ life \in Serving /\ gate' = Nobody /\ Nobody # "clear" /\ ~Known(c)
      /\ \A d \in Callers : record[d].state \notin Live
      /\ UNCHANGED <<life, login, link, left>>
  BY <1>1 DEF Begin, Placed, VpnInv, Gated, VpnAssumption
<1>3. \A d \in Callers : d # c => record[d].pc # "starting"
  BY <1>2 DEF VpnInv, Gated
<1>4. CASE record' = [record EXCEPT ![c].pc = "over"] /\ UNCHANGED <<current, task>>
  <2> DEFINE e == [record[c] EXCEPT !.pc = "over"]
  <2>1. e \in RunRecord
    BY <1>1 DEF RunRecord
  <2>2. /\ e.pc = "over" /\ e.state = "none" /\ e.net = record[c].net /\ e.told = record[c].told
        /\ e.pend = record[c].pend /\ e.cut = record[c].cut /\ e.relogin = record[c].relogin
        /\ e.ip = record[c].ip /\ e.logged = record[c].logged
    BY <1>1, <1>2 DEF RunRecord
  <2>3. Becomes(c, e)
    BY <1>4 DEF Becomes
  <2> HIDE DEF e
  <2>4. Fits(record[c], e)
    BY <1>1, <1>2, <2>2 DEF Placed, Connected, Fits, InScope, InLogin, Moving
  <2>5. /\ Records' /\ Logins'
        /\ record' \in [Callers -> RunRecord]
        /\ \A d \in Callers : record'[d] = IF d = c THEN e ELSE record[d]
    BY <1>2, <2>1, <2>3, <2>4, LoginStill DEF InLogin
  <2>6. \A d \in Callers : record'[d].state = record[d].state /\ record'[d].pc # "starting"
    BY <1>2, <1>3, <2>2, <2>5
  <2>7. Alone' /\ Once' /\ Gated'
    BY <1>2, <1>4, <2>6 DEF VpnInv, Alone, Once, Gated
  <2>8. VpnTypeOK'
    BY <1>2, <1>4, <2>5 DEF VpnInv, VpnTypeOK, login
  <2> QED
    BY <2>5, <2>7, <2>8 DEF VpnInv
<1>5. ASSUME NEW k \in Kinds, current' = c, task' = c,
             record' = [record EXCEPT ![c] = [None EXCEPT !.state = "queued", !.pc = "queued",
                                                          !.relogin = k.relogin, !.top = k.top]]
      PROVE  VpnInv'
  <2> DEFINE e == [None EXCEPT !.state = "queued", !.pc = "queued", !.relogin = k.relogin, !.top = k.top]
  <2>1. k.relogin \in BOOLEAN /\ k.top \in 0..3
    BY DEF VpnAssumption
  <2>2. None \in RunRecord
    BY NoneIs
  <2>3. e \in RunRecord
    BY <2>1, <2>2 DEF RunRecord, Live
  <2>4. /\ e.pc = "queued" /\ e.state = "queued" /\ e.net = "off" /\ ~e.told
        /\ ~e.pend /\ ~e.cut /\ ~e.ip
    BY DEF None
  <2>5. Becomes(c, e)
    BY <1>5 DEF Becomes
  <2> HIDE DEF e
  <2>6. Fits(record[c], e)
    BY <1>1, <1>2, <2>3, <2>4 DEF Placed, Connected, Fits, InScope, InLogin, Moving, Final, RunRecord
  <2>7. /\ Records' /\ Logins'
        /\ record' \in [Callers -> RunRecord]
        /\ \A d \in Callers : record'[d] = IF d = c THEN e ELSE record[d]
    BY <1>2, <2>3, <2>5, <2>6, LoginStill DEF InLogin
  <2>8. Alone'
    BY <1>2, <1>5, <2>7 DEF VpnInv, Alone, Serving
  <2>9. Gated'
    BY <1>2, <1>3, <2>4, <2>7 DEF Gated
  <2>10. Once'
    <3>1. \A d \in Callers : record[d].state \in Live \cup Final => Request[d] # Request[c]
      BY <1>2 DEF Known, Live, Final
    <3> QED
      BY <2>7, <3>1 DEF VpnInv, Once
  <2>11. VpnTypeOK'
    BY <1>2, <1>5, <2>7 DEF VpnInv, VpnTypeOK, login
  <2> QED
    BY <2>7, <2>8, <2>9, <2>10, <2>11 DEF VpnInv
<1> QED
  BY <1>4, <1>5 DEF Begin

LEMMA ClearKeeps == VpnAssumption /\ VpnInv /\ (Clear \/ ClearOver) => VpnInv'
<1> SUFFICES ASSUME VpnAssumption, VpnInv, Clear \/ ClearOver PROVE VpnInv'
  OBVIOUS
<1>1. UNCHANGED <<life, record, current, task, login, link, left>>
  BY DEF Clear, ClearOver
<1>2. VpnTypeOK' /\ Records' /\ Alone' /\ Once'
  BY <1>1 DEF VpnInv, VpnTypeOK, Records, Alone, Once, login, Clear, ClearOver
<1>3. Logins'
  BY <1>1 DEF VpnInv, Logins, LoggedIn, Sweeps, login
<1>4. Nobody \notin Callers /\ Nobody # "clear" /\ "clear" \notin Callers
  BY DEF VpnAssumption
<1>5. CASE Clear
  <2>1. \A d \in Callers : record[d].state \notin Live
    BY <1>4, <1>5 DEF Clear, Busy, VpnInv, Alone, Serving
  <2>2. \A d \in Callers : record[d].pc # "starting"
    BY <1>4, <1>5 DEF Clear, VpnInv, Gated
  <2> QED
    BY <1>1, <1>2, <1>3, <1>5, <2>1, <2>2 DEF VpnInv, Gated, Clear, Serving
<1>6. CASE ClearOver
  <2>1. \A d \in Callers : record[d].pc # "starting"
    BY <1>4, <1>6 DEF ClearOver, VpnInv, Gated
  <2> QED
    BY <1>1, <1>2, <1>3, <1>4, <1>6, <2>1 DEF VpnInv, Gated, ClearOver
<1> QED
  BY <1>5, <1>6

LEMMA OverKeeps == ASSUME VpnAssumption, VpnInv, NEW c \in Callers, Over(c) PROVE VpnInv'
<1>1. record[c] \in RunRecord /\ Placed(record[c]) /\ Connected(record[c])
  BY RunningIs
<1>2. /\ record[c].pc = "ending" /\ ~record[c].pend /\ record[c].state \in Final
      /\ UNCHANGED <<life, gate, login, link, left>>
      /\ current' = Released(current, c) /\ task' = Released(task, c)
  BY <1>1 DEF Over, Runs, Placed
<1> DEFINE e == [record[c] EXCEPT !.pc = "over"]
<1>3. e \in RunRecord
  BY <1>1 DEF RunRecord
<1>4. /\ e.pc = "over" /\ e.state = record[c].state /\ e.net = record[c].net /\ e.told = record[c].told
      /\ ~e.pend /\ e.cut = record[c].cut /\ e.relogin = record[c].relogin
      /\ e.ip = record[c].ip /\ e.logged = record[c].logged
  BY <1>1, <1>2 DEF RunRecord
<1>5. Becomes(c, e)
  BY DEF Over, Becomes
<1> HIDE DEF e
<1>6. Fits(record[c], e) /\ Follows(record[c], e)
  BY <1>1, <1>2, <1>4 DEF Placed, Connected, Follows, Fits, InScope, InLogin, Moving, Final
<1>7. /\ Records' /\ Logins'
      /\ record' \in [Callers -> RunRecord]
      /\ \A d \in Callers : record'[d] = IF d = c THEN e ELSE record[d]
  BY <1>2, <1>3, <1>5, <1>6, LoginStill DEF InLogin
<1>8. Gated' /\ Once'
  BY <1>2, <1>3, <1>5, <1>6, GateKept
<1>9. Alone'
  <2>1. record'[c].state \notin Live
    BY <1>2, <1>4, <1>7 DEF Final, Live
  <2> QED
    BY <1>2, <1>7, <2>1 DEF VpnInv, Alone, Released
<1>10. VpnTypeOK'
  BY <1>2, <1>7 DEF VpnInv, VpnTypeOK, login, Released
<1> QED
  BY <1>7, <1>8, <1>9, <1>10 DEF VpnInv

(* A run that is dropped before it ran.                                    *)
LEMMA DroppedIs ==
  ASSUME NEW r \in RunRecord, Placed(r), Connected(r), r.state = "queued", r.pc \notin InLogin
  PROVE  Dropped(r) \in RunRecord /\ Follows(r, Dropped(r)) /\ Dropped(r).state = "cancelled"
<1> DEFINE e == Dropped(r)
<1>1. e \in RunRecord
  BY DEF Dropped, RunRecord, Final
<1>2. /\ e.pc = "over" /\ e.state = "cancelled" /\ e.net = r.net /\ e.told = r.told
      /\ ~e.pend /\ e.cut = r.cut /\ e.relogin = r.relogin
      /\ e.ip = r.ip /\ e.logged = r.logged
  BY DEF Dropped, RunRecord
<1> HIDE DEF e
<1>3. Placed(e) /\ Connected(e)
  BY <1>2 DEF Placed, Connected, InScope, InLogin, Moving
<1>4. Follows(r, e)
  BY <1>2, <1>3 DEF Follows, Fits, Live
<1> QED
  BY <1>1, <1>2, <1>4 DEF e

LEMMA CancelKeeps == ASSUME VpnAssumption, VpnInv, NEW c \in Callers, Cancel(c) PROVE VpnInv'
<1>1. record[c] \in RunRecord /\ Placed(record[c]) /\ Connected(record[c])
  BY RunningIs
<1>2. /\ life \in Serving /\ record[c].state \in {"queued", "running"} /\ current = c /\ task = c
      /\ UNCHANGED <<life, gate, login, link, left>>
  BY DEF Cancel, Serves, Serving, Cancellable, VpnInv, Alone, Live
<1>3. CASE record[c].state = "queued"
  <2>1. Becomes(c, Dropped(record[c])) /\ current' = Nobody /\ task' = Nobody
    BY <1>2, <1>3 DEF Cancel, Released
  <2>2. record[c].pc \notin InLogin
    BY <1>1, <1>3 DEF Placed, InScope, Moving
  <2>3. /\ Dropped(record[c]) \in RunRecord /\ Follows(record[c], Dropped(record[c]))
        /\ Dropped(record[c]).state = "cancelled"
    BY <1>1, <1>3, <2>2, DroppedIs
  <2>4. /\ Records' /\ Logins'
        /\ record' \in [Callers -> RunRecord]
        /\ \A d \in Callers : record'[d] = IF d = c THEN Dropped(record[c]) ELSE record[d]
    BY <1>2, <2>1, <2>2, <2>3, LoginStill DEF Follows
  <2>5. Gated' /\ Once'
    BY <1>2, <2>1, <2>3, GateKept
  <2>6. Alone'
    <3>1. \A d \in Callers : record'[d].state \notin Live
      BY <1>3, <2>3, <2>4 DEF VpnInv, Alone, Live
    <3> QED
      BY <3>1 DEF Alone
  <2>7. VpnTypeOK'
    BY <1>2, <2>1, <2>4 DEF VpnInv, VpnTypeOK, login
  <2> QED
    BY <2>4, <2>5, <2>6, <2>7 DEF VpnInv
<1>4. CASE record[c].state # "queued"
  <2> DEFINE e == [record[c] EXCEPT !.state = "cancelling"]
  <2>1. record[c].state = "running" /\ record[c].pc \in InScope
    BY <1>1, <1>2, <1>4 DEF Placed, InScope, Moving, RunRecord, Final
  <2>2. e \in RunRecord
    BY <1>1 DEF RunRecord, Live
  <2>3. /\ e.pc = record[c].pc /\ e.state = "cancelling" /\ e.net = record[c].net /\ e.told = record[c].told
        /\ e.cut = record[c].cut /\ e.relogin = record[c].relogin
        /\ e.ip = record[c].ip /\ e.logged = record[c].logged /\ e.res = record[c].res
    BY <1>1 DEF RunRecord
  <2>4. record' = [d \in Callers |-> IF d = c THEN Interrupt(e, "cancel") ELSE record[d]]
    BY <1>2, <1>4 DEF Cancel
  <2> HIDE DEF e
  <2> DEFINE i == Interrupt(e, "cancel")
  <2>5. e.why \cup {"cancel"} \in SUBSET {"timeout", "cancel"}
    BY <2>2 DEF RunRecord
  <2>6. i \in RunRecord
    BY <2>2, <2>5 DEF RunRecord, Interrupt
  <2>7. /\ i.pc = record[c].pc /\ i.state = "cancelling" /\ i.net = record[c].net /\ i.told = record[c].told
        /\ i.cut = record[c].cut /\ i.relogin = record[c].relogin /\ i.pend
        /\ i.ip = record[c].ip /\ i.logged = record[c].logged /\ i.res = record[c].res
    BY <2>2, <2>3 DEF RunRecord, Interrupt
  <2>8. Becomes(c, i)
    BY <2>4 DEF Becomes, VpnInv, VpnTypeOK
  <2> HIDE DEF i
  <2>9. Follows(record[c], i)
    BY <1>1, <2>1, <2>7 DEF Placed, Connected, Follows, Fits, Moving, Live, InScope, InLogin
  <2>10. UNCHANGED service
    BY <1>2, <1>4 DEF Cancel, service
  <2> QED
    BY <1>2, <2>6, <2>7, <2>8, <2>9, <2>10, PlainKeeps DEF VpnInv, VpnTypeOK
<1> QED
  BY <1>3, <1>4

-----------------------------------------------------------------------------
(* The lives of the backend.                                               *)
LEMMA CloseKeeps == VpnAssumption /\ VpnInv /\ (Close \/ Press) => VpnInv'
<1> SUFFICES ASSUME VpnAssumption, VpnInv, Close \/ Press PROVE VpnInv'
  OBVIOUS
<1>1. /\ life \in Serving /\ life' \in Serving
      /\ UNCHANGED <<gate, task, login, link, left>>
  BY DEF Close, Press, Serving
<1>2. CASE record' = record /\ current' = current
  <2>1. Alone' /\ Gated' /\ Once' /\ Records'
    BY <1>1, <1>2 DEF VpnInv, Alone, Gated, Once, Records, Known, Serving
  <2>2. Logins'
    BY <1>1, <1>2 DEF VpnInv, Logins, LoggedIn, Sweeps, login, Serving
  <2>3. VpnTypeOK'
    BY <1>1, <1>2 DEF VpnInv, VpnTypeOK, login, Serving
  <2> QED
    BY <2>1, <2>2, <2>3 DEF VpnInv
<1>3. ASSUME task \in Callers, NEW r \in RunRecord, Becomes(task, r), Follows(record[task], r),
             record[task].pc \in InLogin \cup {"clean"} => r.pc = record[task].pc,
             \/ current' = current
             \/ r.state \notin Live /\ current' = Nobody
      PROVE  VpnInv'
  <2>1. PICK c \in Callers : c = task
    BY <1>3
  <2>2. /\ Gated' /\ Once'
        /\ \A d \in Callers : record'[d].state \in Live => record[d].state \in Live
    BY <1>1, <1>3, <2>1, GateKept
  <2>3. Fades /\ (life = "starting" => life' = "starting")
    BY <1>1 DEF Fades, Gone, login, VpnInv, VpnTypeOK, Serving
  <2>4. Parts(c, r)
    BY <1>3, <2>1 DEF Parts, InLogin
  <2>5. Records' /\ Logins'
    BY <1>1, <1>3, <2>1, <2>3, <2>4, LoginKept DEF login, Follows
  <2>6. record' \in [Callers -> RunRecord] /\ record'[c] = r
    BY <1>3, <2>1 DEF Becomes, VpnInv, VpnTypeOK
  <2>7. \A d \in Callers : record'[d].state \in Live => life' # "starting" /\ current' = d /\ task' = d
    BY <1>1, <1>3, <2>1, <2>2, <2>6 DEF VpnInv, Alone, Serving
  <2>8. Alone'
    BY <2>7 DEF Alone
  <2>9. VpnTypeOK'
    BY <1>1, <1>3, <2>6 DEF VpnInv, VpnTypeOK, login, Serving
  <2> QED
    BY <2>2, <2>5, <2>8, <2>9 DEF VpnInv
<1>4. ASSUME task \in Callers, Pending(task), Becomes(task, Interrupt(record[task], "cancel")), current' = current
      PROVE  VpnInv'
  <2>1. record[task] \in RunRecord /\ Placed(record[task]) /\ Connected(record[task])
    BY <1>4, RunningIs
  <2>2. record[task].pc \in InScope \cup {"queued", "ending"}
    BY <1>4 DEF Pending
  <2>3. /\ Interrupt(record[task], "cancel") \in RunRecord
        /\ Follows(record[task], Interrupt(record[task], "cancel"))
        /\ Interrupt(record[task], "cancel").pc = record[task].pc
    BY <2>1, <2>2, InterruptFollows
  <2> QED
    BY <1>3, <1>4, <2>3
<1>5. task \in Callers \cup {Nobody} /\ record \in [Callers -> RunRecord]
  BY DEF VpnInv, VpnTypeOK
<1>6. CASE Press
  <2>1. /\ task \in Callers /\ Pending(task) /\ Becomes(task, Interrupt(record[task], "cancel"))
        /\ current' = current
    BY <1>5, <1>6 DEF Press
  <2> QED
    BY <1>4, <2>1
<1>7. CASE Close /\ (task = Nobody \/ ~Pending(task))
  BY <1>2, <1>7 DEF Close
<1>8. CASE Close /\ ~(task = Nobody \/ ~Pending(task))
  <2>1. /\ task \in Callers /\ Pending(task)
        /\ record' = [d \in Callers |->
             IF d = task
               THEN IF current = d /\ record[d].state = "queued" THEN Dropped(record[d])
                                                                 ELSE Interrupt(record[d], "cancel")
               ELSE record[d]]
        /\ current' = IF current = task /\ record[task].state = "queued" THEN Nobody ELSE current
    BY <1>5, <1>8 DEF Close
  <2>2. CASE current = task /\ record[task].state = "queued"
    <3>1. record[task] \in RunRecord /\ Placed(record[task]) /\ Connected(record[task])
      BY <2>1, RunningIs
    <3>2. record[task].pc \notin InLogin /\ record[task].pc # "clean"
      BY <2>2, <3>1 DEF Placed, InScope, InLogin, Moving
    <3>3. /\ Dropped(record[task]) \in RunRecord /\ Follows(record[task], Dropped(record[task]))
          /\ Dropped(record[task]).state \notin Live
      BY <2>2, <3>1, <3>2, DroppedIs DEF Live
    <3>4. Becomes(task, Dropped(record[task])) /\ current' = Nobody
      BY <1>5, <2>1, <2>2 DEF Becomes
    <3> QED
      BY <1>3, <2>1, <3>2, <3>3, <3>4
  <2>3. CASE ~(current = task /\ record[task].state = "queued")
    <3>1. Becomes(task, Interrupt(record[task], "cancel")) /\ current' = current
      BY <1>5, <2>1, <2>3 DEF Becomes
    <3> QED
      BY <1>4, <2>1, <3>1
  <2> QED
    BY <2>2, <2>3
<1> QED
  BY <1>6, <1>7, <1>8

LEMMA ClosedKeeps == VpnAssumption /\ VpnInv /\ Closed => VpnInv'
<1> SUFFICES ASSUME VpnAssumption, VpnInv, Closed PROVE VpnInv'
  OBVIOUS
<1>1. /\ life \in Serving /\ life' = "down" /\ gate' = Nobody /\ task' = Nobody
      /\ UNCHANGED <<current, login, link, left>>
      /\ record' = [d \in Callers |-> IF Pending(d) THEN Interrupt(record[d], "cancel")
                                      ELSE IF record[d].pc = "starting" THEN [record[d] EXCEPT !.pc = "over"]
                                      ELSE record[d]]
  BY DEF Closed, Serving
<1>2. ASSUME NEW d \in Callers
      PROVE  /\ record'[d] \in RunRecord /\ Fits(record[d], record'[d])
             /\ record'[d].state = record[d].state /\ record'[d].pc # "starting"
             /\ record[d].pc \in InLogin => record'[d].pc = record[d].pc
  <2>1. record[d] \in RunRecord /\ Placed(record[d]) /\ Connected(record[d])
    BY RunningIs
  <2>2. CASE Pending(d)
    <3>1. record'[d] = Interrupt(record[d], "cancel")
      BY <1>1, <2>2
    <3>2. record[d].pc \in InScope \cup {"queued", "ending"}
      BY <2>2 DEF Pending
    <3>3. /\ Interrupt(record[d], "cancel") \in RunRecord
          /\ Follows(record[d], Interrupt(record[d], "cancel"))
          /\ Interrupt(record[d], "cancel").pc = record[d].pc
      BY <2>1, <3>2, InterruptFollows
    <3>4. Interrupt(record[d], "cancel").state = record[d].state
      BY <2>1 DEF Interrupt, RunRecord
    <3> QED
      BY <3>1, <3>3, <3>4 DEF Follows
  <2>3. CASE record[d].pc = "starting"
    <3> DEFINE e == [record[d] EXCEPT !.pc = "over"]
    <3>1. e \in RunRecord
      BY <2>1 DEF RunRecord
    <3>2. /\ e.pc = "over" /\ e.state = record[d].state /\ e.net = record[d].net /\ e.told = record[d].told
          /\ e.pend = record[d].pend /\ e.cut = record[d].cut /\ e.relogin = record[d].relogin
          /\ e.ip = record[d].ip /\ e.logged = record[d].logged
      BY <2>1 DEF RunRecord
    <3>3. record'[d] = e
      BY <1>1, <2>3 DEF Pending, InScope, InLogin
    <3> HIDE DEF e
    <3>4. Fits(record[d], e)
      BY <2>1, <2>3, <3>2 DEF Placed, Connected, Fits, InScope, InLogin, Moving
    <3> QED
      BY <2>3, <3>1, <3>2, <3>3, <3>4 DEF InLogin
  <2>4. CASE ~Pending(d) /\ record[d].pc # "starting"
    <3>1. record'[d] = record[d]
      BY <1>1, <2>4
    <3> QED
      BY <2>1, <2>4, <3>1 DEF Fits
  <2> QED
    BY <2>2, <2>3, <2>4
<1>3. record' \in [Callers -> RunRecord]
  <2>1. \A d \in Callers : record'[d] \in RunRecord
    BY <1>2
  <2>2. DOMAIN record' = Callers /\ record' = [d \in Callers |-> record'[d]]
    BY <1>1
  <2> QED
    BY <2>1, <2>2
<1>4. Fades /\ life # "starting"
  BY <1>1 DEF Fades, Gone, login, VpnInv, VpnTypeOK, Serving
<1>5. \A d \in Callers : Fits(record[d], record'[d]) /\ Parts(d, record'[d])
  BY <1>2 DEF Parts, InLogin
<1>6. Records' /\ Logins'
  BY <1>1, <1>4, <1>5, LoginsKept DEF login
<1>7. Alone' /\ Gated' /\ Once'
  <2>1. Nobody # "clear"
    BY DEF VpnAssumption
  <2> QED
    BY <1>1, <1>2, <2>1 DEF VpnInv, Alone, Gated, Once, Serving
<1>8. VpnTypeOK'
  BY <1>1, <1>3 DEF VpnInv, VpnTypeOK, login
<1> QED
  BY <1>6, <1>7, <1>8 DEF VpnInv

LEMMA LostIs ==
  ASSUME VpnAssumption, NEW r \in RunRecord, Placed(r), Connected(r)
  PROVE  /\ Lost(r) \in RunRecord /\ Placed(Lost(r)) /\ Connected(Lost(r)) /\ Lost(r).told = r.told
         /\ Lost(r).state \in {"none", "lost"} /\ Lost(r).pc \in {"idle", "over"}
<1>1. CASE r.pc = "idle"
  BY <1>1 DEF Lost, Placed
<1>2. CASE r.pc # "idle"
  <2> DEFINE e == Ended(r, "lost")
             l == [e EXCEPT !.pc = "over", !.ip = FALSE, !.logged = FALSE, !.cut = FALSE]
  <2>1. /\ e \in RunRecord
        /\ e.state = "lost" /\ e.pc = "ending" /\ e.net = "off" /\ ~e.pend /\ e.told = r.told
    BY EndedIs
  <2>2. Lost(r) = l
    BY <1>2 DEF Lost
  <2> HIDE DEF e
  <2>3. l \in RunRecord
    BY <2>1, ZenonT(30) DEF RunRecord
  <2>4. /\ l.state = "lost" /\ l.pc = "over" /\ l.net = "off" /\ ~l.pend /\ l.told = r.told /\ ~l.ip
    BY <2>1 DEF RunRecord
  <2> HIDE DEF l
  <2>5. Placed(l) /\ Connected(l)
    BY <2>4 DEF Placed, Connected, InScope, InLogin, Moving
  <2> QED
    BY <2>2, <2>3, <2>4, <2>5
<1> QED
  BY <1>1, <1>2

LEMMA RestartKeeps == VpnAssumption /\ VpnInv /\ Restart => VpnInv'
<1> SUFFICES ASSUME VpnAssumption, VpnInv, Restart PROVE VpnInv'
  OBVIOUS
<1>1. /\ life' = "starting" /\ gate' = Nobody /\ current' = Nobody /\ task' = Nobody
      /\ record' = [d \in Callers |-> Lost(record[d])]
      /\ worker' = [d \in Callers |-> IF worker[d] = "none" THEN "none" ELSE "gone"]
      /\ browser' \in [Callers -> {"none", "up", "spared", "down", "foreign"}]
      /\ \A d \in Callers : browser'[d] \in Gone(browser[d])
      /\ held' = kept /\ clean' = [Sweeping EXCEPT !.todo = kept]
      /\ UNCHANGED <<kept, link>>
  BY DEF Restart
<1>2. left.restarts \in 0..MaxRestarts /\ left.restarts > 0 /\ left' = [left EXCEPT !.restarts = left.restarts - 1]
  BY DEF Restart, VpnInv, VpnTypeOK
<1>3. ASSUME NEW d \in Callers
      PROVE  /\ record'[d] \in RunRecord /\ Placed(record'[d]) /\ Connected(record'[d])
             /\ record'[d].told = record[d].told
             /\ record'[d].state \in {"none", "lost"} /\ record'[d].pc \in {"idle", "over"}
  BY <1>1, RunningIs, LostIs
<1>4. record' \in [Callers -> RunRecord]
  BY <1>1, <1>3
<1>5. Records'
  BY <1>3 DEF Records
<1>6. Alone' /\ Gated' /\ Once'
  <2>1. Nobody # "clear"
    BY DEF VpnAssumption
  <2>2. \A d \in Callers : record'[d].state \notin Live \cup Final /\ record'[d].pc # "starting"
    BY <1>3 DEF Live, Final
  <2> QED
    BY <1>1, <2>1, <2>2 DEF Alone, Gated, Once
<1>7. clean' = [at |-> "look", todo |-> kept, spared |-> {}]
  BY <1>1 DEF Sweeping
<1>8. Logins'
  <2>1. ASSUME NEW d \in Callers PROVE LoggedIn(d)' /\ Sweeps(d)'
    <3>1. /\ worker'[d] \in {"none", "gone"}
          /\ browser'[d] = browser[d] \/ (browser[d] = "up" /\ browser'[d] = "down")
          /\ browser'[d] # "hurt"
      BY <1>1 DEF Gone
    <3>2. LoggedIn(d) /\ record'[d].told = record[d].told
      BY <1>3 DEF VpnInv, Logins
    <3>3. LoggedIn(d)'
      BY <1>1, <3>1, <3>2 DEF LoggedIn
    <3>4. Sweeps(d)'
      BY <1>7, <3>1, <3>2 DEF LoggedIn, Sweeps
    <3> QED
      BY <3>3, <3>4
  <2> QED
    BY <1>1, <2>1 DEF Logins
<1>9. VpnTypeOK'
  <2>1. left.restarts - 1 \in 0..MaxRestarts
    BY <1>2 DEF VpnAssumption
  <2>2. left' \in [flips: 0..MaxFlips, restarts: 0..MaxRestarts]
    BY <1>2, <2>1 DEF VpnInv, VpnTypeOK
  <2>3. worker' \in [Callers -> {"none", "up", "stopping", "gone"}]
    BY <1>1
  <2>4. clean' \in [at: {"none", "look", "done"} \cup Callers, todo: SUBSET Callers, spared: SUBSET Callers]
    BY <1>7 DEF VpnInv, VpnTypeOK
  <2> QED
    BY <1>1, <1>4, <2>2, <2>3, <2>4 DEF VpnInv, VpnTypeOK
<1> QED
  BY <1>5, <1>6, <1>8, <1>9 DEF VpnInv

-----------------------------------------------------------------------------
(* The worker, its Chrome, and the clean-up.                               *)
LEMMA RecordsStay ==
  ASSUME VpnInv, UNCHANGED <<record, gate, current, task>>,
         life' = life \/ (life = "starting" /\ life' = "serving")
  PROVE  Records' /\ Alone' /\ Gated' /\ Once'
BY DEF VpnInv, Records, Alone, Gated, Once, Known, Serving

(* A clean-up belongs to the start of the backend, or to the run there is. *)
LEMMA OneSweep ==
  ASSUME VpnInv, NEW c \in Callers, record[c].pc \in InScope, life # "starting", clean.at # "none"
  PROVE  record[c].pc = "clean"
<1>1. PICK d \in Callers : record[d].pc = "clean"
  BY DEF VpnInv, Logins
<1>2. record[d].pc \in InScope
  BY <1>1 DEF InScope, InLogin
<1>3. record[c].state \in Live /\ record[d].state \in Live
  BY <1>2, RunningIs
<1> QED
  BY <1>1, <1>3 DEF VpnInv, Alone

LEMMA BrowserKeeps ==
  ASSUME VpnAssumption, VpnInv, NEW c \in Callers, Launch(c) \/ WorkerEnds(c) \/ BrowserEnds(c)
  PROVE  VpnInv'
<1>1. UNCHANGED <<service, record, held, kept, clean, link, left>>
  BY DEF Launch, WorkerEnds, BrowserEnds
<1>2. Records' /\ Alone' /\ Gated' /\ Once'
  BY <1>1, RecordsStay DEF service
<1>3. /\ worker' \in [Callers -> {"none", "up", "stopping", "gone"}]
      /\ browser' \in [Callers -> {"none", "up", "spared", "down", "foreign", "hurt"}]
      /\ \A d \in Callers :
           /\ worker'[d] \in {worker[d], "gone"}
           /\ \/ browser'[d] = browser[d]
              \/ browser[d] = "none" /\ browser'[d] = "up"
              \/ browser[d] # "none" /\ browser'[d] \in {"down", "foreign"}
  <2>1. worker \in [Callers -> {"none", "up", "stopping", "gone"}]
        /\ browser \in [Callers -> {"none", "up", "spared", "down", "foreign", "hurt"}]
    BY DEF VpnInv, VpnTypeOK
  <2>2. CASE Launch(c)
    BY <2>1, <2>2 DEF Launch
  <2>3. CASE WorkerEnds(c)
    BY <2>1, <2>3 DEF WorkerEnds, Gone
  <2>4. CASE BrowserEnds(c)
    BY <2>1, <2>4 DEF BrowserEnds
  <2> QED
    BY <2>2, <2>3, <2>4
<1>4. ASSUME NEW d \in Callers PROVE LoggedIn(d)' /\ Sweeps(d)'
  <2>1. LoggedIn(d) /\ Sweeps(d)
    BY DEF VpnInv, Logins
  <2>2. LoggedIn(d)'
    BY <1>1, <1>3, <2>1 DEF LoggedIn, service
  <2>3. Sweeps(d)'
    BY <1>1, <1>3, <2>1 DEF LoggedIn, Sweeps
  <2> QED
    BY <2>2, <2>3
<1>5. Logins'
  BY <1>1, <1>4 DEF VpnInv, Logins, service
<1>6. VpnTypeOK'
  BY <1>1, <1>3 DEF VpnInv, VpnTypeOK, service
<1> QED
  BY <1>2, <1>5, <1>6 DEF VpnInv

LEMMA SpawnKeeps == ASSUME VpnAssumption, VpnInv, NEW c \in Callers, Spawn(c) PROVE VpnInv'
<1>1. record[c] \in RunRecord /\ Placed(record[c]) /\ Connected(record[c])
  BY RunningIs
<1>2. /\ record[c].pc = "login" /\ ~record[c].pend /\ worker' = [worker EXCEPT ![c] = "up"]
      /\ UNCHANGED <<service, browser, held, kept, clean, link, left>>
      /\ Becomes(c, [record[c] EXCEPT !.pc = "exchange"])
  BY DEF Spawn, Runs
<1> DEFINE e == [record[c] EXCEPT !.pc = "exchange"]
<1>3. "login" \in InScope /\ "exchange" \in InScope /\ "login" \notin InLogin /\ "exchange" \in InLogin
  BY DEF InScope, InLogin
<1>4. e \in RunRecord
  BY <1>1, <1>3 DEF RunRecord
<1>5. /\ e.pc = "exchange" /\ e.state = record[c].state /\ e.net = record[c].net /\ e.told = record[c].told
      /\ ~e.pend /\ e.cut = record[c].cut /\ e.relogin = record[c].relogin
      /\ e.ip = record[c].ip /\ e.logged = record[c].logged
  BY <1>1, <1>2 DEF RunRecord
<1>6. Becomes(c, e)
  BY <1>2
<1> HIDE DEF e
<1>7. Placed(e) /\ Connected(e)
  BY <1>1, <1>2, <1>3, <1>5 DEF Placed, Connected
<1>8. Follows(record[c], e)
  BY <1>5, <1>7 DEF Follows, Fits
<1>9. Alone' /\ Gated' /\ Once'
  BY <1>2, <1>4, <1>6, <1>8, ServiceKept
<1>10. record' \in [Callers -> RunRecord] /\ \A d \in Callers : record'[d] = IF d = c THEN e ELSE record[d]
  BY <1>4, <1>6 DEF Becomes, VpnInv, VpnTypeOK
<1>11. Records'
  BY <1>7, <1>10 DEF VpnInv, Records
<1>12. ASSUME NEW d \in Callers PROVE LoggedIn(d)' /\ Sweeps(d)'
  <2>1. LoggedIn(d) /\ Sweeps(d)
    BY DEF VpnInv, Logins
  <2>2. LoggedIn(d)'
    BY <1>2, <1>3, <1>5, <1>10, <2>1 DEF LoggedIn, service, VpnInv, VpnTypeOK
  <2>3. Sweeps(d)'
    BY <1>2, <1>5, <1>10, <2>1 DEF Sweeps
  <2> QED
    BY <2>2, <2>3
<1>13. Logins'
  <2>1. \A d \in Callers : record[d].pc = "clean" => record'[d].pc = "clean"
    BY <1>2, <1>10
  <2> QED
    BY <1>2, <1>12, <2>1 DEF VpnInv, Logins, service
<1>14. VpnTypeOK'
  BY <1>2, <1>10 DEF VpnInv, VpnTypeOK, service
<1> QED
  BY <1>9, <1>11, <1>13, <1>14 DEF VpnInv

LEMMA LoadedIs == VpnInv => Loaded = kept
BY DEF VpnInv, Logins, Loaded

LEMMA NamedKeeps == ASSUME VpnAssumption, VpnInv, NEW c \in Callers, Named(c) PROVE VpnInv'
<1>1. record[c] \in RunRecord /\ Placed(record[c]) /\ Connected(record[c])
  BY RunningIs
<1>2. /\ record[c].pc = "exchange" /\ ~record[c].pend /\ life # "starting" /\ browser[c] # "none"
      /\ held' = kept \cup {c} /\ kept' = kept \cup {c}
      /\ UNCHANGED <<service, worker, browser, clean, link, left>>
      /\ Becomes(c, [record[c] EXCEPT !.told = TRUE])
  BY LoadedIs DEF Named, Runs, Added
<1> DEFINE e == [record[c] EXCEPT !.told = TRUE]
<1>3. "exchange" \in InScope /\ "exchange" \in InLogin
  BY DEF InScope, InLogin
<1>4. e \in RunRecord
  BY <1>1 DEF RunRecord
<1>5. /\ e.pc = "exchange" /\ e.state = record[c].state /\ e.net = record[c].net /\ e.told
      /\ ~e.pend /\ e.cut = record[c].cut /\ e.relogin = record[c].relogin
      /\ e.ip = record[c].ip /\ e.logged = record[c].logged
  BY <1>1, <1>2 DEF RunRecord
<1>6. Becomes(c, e)
  BY <1>2
<1> HIDE DEF e
<1>7. Placed(e) /\ Connected(e)
  BY <1>1, <1>2, <1>3, <1>5 DEF Placed, Connected
<1>8. record' \in [Callers -> RunRecord] /\ \A d \in Callers : record'[d] = IF d = c THEN e ELSE record[d]
  BY <1>4, <1>6 DEF Becomes, VpnInv, VpnTypeOK
<1>9. Records'
  BY <1>7, <1>8 DEF VpnInv, Records
<1>10. \A d \in Callers : record'[d].state = record[d].state /\ record'[d].pc = record[d].pc
  BY <1>2, <1>5, <1>8
<1>11. Alone' /\ Gated' /\ Once'
  BY <1>2, <1>10 DEF VpnInv, Alone, Gated, Once, Known, service
<1>12. clean.at = "none"
  BY <1>2, <1>3, OneSweep
<1>13. ASSUME NEW d \in Callers PROVE LoggedIn(d)' /\ Sweeps(d)'
  <2>1. LoggedIn(d) /\ Sweeps(d)
    BY DEF VpnInv, Logins
  <2>2. LoggedIn(d)'
    BY <1>2, <1>3, <1>5, <1>8, <2>1 DEF LoggedIn, service
  <2>3. "none" \notin Callers
    BY DEF VpnAssumption
  <2>4. Sweeps(d)'
    BY <1>2, <1>12, <2>1, <2>3 DEF Sweeps
  <2> QED
    BY <2>2, <2>4
<1>14. Logins'
  BY <1>2, <1>12, <1>13 DEF Logins
<1>15. VpnTypeOK'
  BY <1>2, <1>8 DEF VpnInv, VpnTypeOK, service
<1> QED
  BY <1>9, <1>11, <1>14, <1>15 DEF VpnInv

LEMMA StopKeeps == ASSUME VpnAssumption, VpnInv, NEW c \in Callers, Stop(c) PROVE VpnInv'
<1>1. record[c] \in RunRecord /\ Placed(record[c]) /\ Connected(record[c])
  BY RunningIs
<1>2. /\ record[c].pc = "settle" /\ ~record[c].pend
      /\ worker' = [worker EXCEPT ![c] = IF worker[c] = "up" THEN "stopping" ELSE worker[c]]
      /\ held' = kept /\ clean' = [at |-> "look", todo |-> kept, spared |-> {}]
      /\ UNCHANGED <<service, browser, kept, link, left>>
      /\ Becomes(c, [record[c] EXCEPT !.pc = "clean"])
  BY LoadedIs DEF Stop, Runs, Sweeping, VpnInv, VpnTypeOK
<1> DEFINE e == [record[c] EXCEPT !.pc = "clean"]
<1>3. "settle" \in InScope /\ "clean" \in InScope /\ "clean" \in InLogin
  BY DEF InScope, InLogin
<1>4. e \in RunRecord
  BY <1>1, <1>3 DEF RunRecord
<1>5. /\ e.pc = "clean" /\ e.state = record[c].state /\ e.net = record[c].net /\ e.told = record[c].told
      /\ ~e.pend /\ e.cut = record[c].cut /\ e.relogin = record[c].relogin
      /\ e.ip = record[c].ip /\ e.logged = record[c].logged /\ e.res = record[c].res
  BY <1>1, <1>2 DEF RunRecord
<1>6. Becomes(c, e)
  BY <1>2
<1> HIDE DEF e
<1>7. Placed(e) /\ Connected(e)
  BY <1>1, <1>2, <1>3, <1>5 DEF Placed, Connected
<1>8. Follows(record[c], e)
  BY <1>5, <1>7 DEF Follows, Fits
<1>9. Alone' /\ Gated' /\ Once'
  BY <1>2, <1>4, <1>6, <1>8, ServiceKept
<1>10. record' \in [Callers -> RunRecord] /\ \A d \in Callers : record'[d] = IF d = c THEN e ELSE record[d]
  BY <1>4, <1>6 DEF Becomes, VpnInv, VpnTypeOK
<1>11. Records'
  BY <1>7, <1>10 DEF VpnInv, Records
<1>12. ASSUME NEW d \in Callers PROVE LoggedIn(d)' /\ Sweeps(d)'
  <2>1. LoggedIn(d)
    BY DEF VpnInv, Logins
  <2>2. LoggedIn(d)'
    BY <1>2, <1>3, <1>5, <1>10, <2>1 DEF LoggedIn, service, VpnInv, VpnTypeOK
  <2>3. Sweeps(d)'
    BY <1>2, <1>5, <1>10, <2>1 DEF Sweeps, LoggedIn
  <2> QED
    BY <2>2, <2>3
<1>13. Logins'
  BY <1>2, <1>5, <1>10, <1>12 DEF Logins
<1>14. VpnTypeOK'
  <2>1. worker' \in [Callers -> {"none", "up", "stopping", "gone"}]
    BY <1>2 DEF VpnInv, VpnTypeOK
  <2>2. clean' \in [at: {"none", "look", "done"} \cup Callers, todo: SUBSET Callers, spared: SUBSET Callers]
    BY <1>2 DEF VpnInv, VpnTypeOK
  <2> QED
    BY <1>2, <1>10, <2>1, <2>2 DEF VpnInv, VpnTypeOK, service
<1> QED
  BY <1>9, <1>11, <1>13, <1>14 DEF VpnInv

(* The clean-up comes to p, and changes nothing of another Chrome.         *)
LEMMA LookedAt ==
  ASSUME VpnAssumption, VpnInv, UNCHANGED <<service, record, worker, held, kept, link, left>>,
         NEW p \in Callers, NEW at \in Callers \cup {"look"}, clean.at \in Callers \cup {"look"},
         NEW todo \in SUBSET Callers, clean.todo \ {p} \subseteq todo,
         NEW spared \in SUBSET Callers, spared \ {p} = clean.spared \ {p},
         clean' = [at |-> at, todo |-> todo, spared |-> spared],
         NEW b \in {"none", "up", "spared", "down", "foreign"}, browser' = [browser EXCEPT ![p] = b],
         \/ b = browser[p] /\ b \notin {"up", "spared"} /\ (p \in spared => p \in clean.spared)
         \/ /\ browser[p] \in {"up", "spared"} /\ b \in {browser[p], "down"} /\ p \in todo
            /\ (p \in spared => p \in clean.spared)
         \/ browser[p] \in {"up", "spared"} /\ b = "down"
         \/ browser[p] \in {"up", "spared"} /\ b = "spared" /\ p \in spared
  PROVE  VpnInv'
<1>1. Records' /\ Alone' /\ Gated' /\ Once'
  BY RecordsStay DEF service
<1>2. /\ browser \in [Callers -> {"none", "up", "spared", "down", "foreign", "hurt"}]
      /\ Callers \cap {"none", "look", "done"} = {}
  BY DEF VpnInv, VpnTypeOK, VpnAssumption
<1>3. /\ clean'.at = at /\ clean'.todo = todo /\ clean'.spared = spared
      /\ \A d \in Callers : browser'[d] = IF d = p THEN b ELSE browser[d]
      /\ \A d \in Callers : record'[d] = record[d] /\ worker'[d] = worker[d]
  BY <1>2
<1>4. ASSUME NEW d \in Callers PROVE LoggedIn(d)' /\ Sweeps(d)'
  <2>1. LoggedIn(d) /\ Sweeps(d)
    BY DEF VpnInv, Logins
  <2>2. CASE d = p
    <3>1. LoggedIn(d)'
      BY <1>3, <2>1, <2>2 DEF LoggedIn, service
    <3>2. Sweeps(d)'
      BY <1>2, <1>3, <2>1, <2>2 DEF Sweeps
    <3> QED
      BY <3>1, <3>2
  <2>3. CASE d # p
    <3>1. browser'[d] = browser[d] /\ (d \in spared <=> d \in clean.spared) /\ (d \in clean.todo => d \in todo)
      BY <1>3, <2>3
    <3>2. LoggedIn(d)'
      BY <1>3, <2>1, <3>1 DEF LoggedIn, service
    <3>3. Sweeps(d)'
      BY <1>2, <1>3, <2>1, <3>1 DEF Sweeps
    <3> QED
      BY <3>2, <3>3
  <2> QED
    BY <2>2, <2>3
<1>5. Logins'
  <2>1. clean.at # "none"
    BY <1>2
  <2> QED
    BY <1>4, <2>1 DEF VpnInv, Logins, service
<1>6. VpnTypeOK'
  <2>1. clean' \in [at: {"none", "look", "done"} \cup Callers, todo: SUBSET Callers, spared: SUBSET Callers]
    OBVIOUS
  <2>2. browser' \in [Callers -> {"none", "up", "spared", "down", "foreign", "hurt"}]
    BY <1>2
  <2> QED
    BY <2>1, <2>2 DEF VpnInv, VpnTypeOK, service
<1> QED
  BY <1>1, <1>5, <1>6 DEF VpnInv

LEMMA LookKeeps == VpnAssumption /\ VpnInv /\ (Look \/ LookAgain) => VpnInv'
<1> SUFFICES ASSUME VpnAssumption, VpnInv, Look \/ LookAgain PROVE VpnInv'
  OBVIOUS
<1>1. UNCHANGED <<service, record, worker, held, kept, link, left>>
  BY DEF Look, LookAgain
<1>2. /\ clean \in [at: {"none", "look", "done"} \cup Callers, todo: SUBSET Callers, spared: SUBSET Callers]
      /\ browser \in [Callers -> {"none", "up", "spared", "down", "foreign", "hurt"}]
  BY DEF VpnInv, VpnTypeOK
<1>3. /\ \A p \in Callers : browser[p] # "hurt" /\ browser = [browser EXCEPT ![p] = browser[p]]
      /\ clean.at \in Callers \cup {"look"}
  BY <1>2 DEF VpnInv, Logins, LoggedIn, Look, LookAgain
<1>4. CASE Look
  <2>1. PICK p \in clean.todo :
          \/ /\ ~Matches(p) /\ UNCHANGED browser
             /\ clean' = [clean EXCEPT !.todo = clean.todo \ {p}]
          \/ /\ Matches(p) /\ clean' = [clean EXCEPT !.at = p]
             /\ \E b \in {browser[p], "down"} : browser' = [browser EXCEPT ![p] = b]
          \/ /\ Matches(p) /\ browser' = [browser EXCEPT ![p] = "spared"]
             /\ clean' = [clean EXCEPT !.todo = clean.todo \ {p}, !.spared = clean.spared \cup {p}]
    BY <1>2, <1>4 DEF Look
  <2>2. p \in Callers /\ clean.at = "look"
    BY <1>2, <1>4 DEF Look
  <2>3. CASE /\ ~Matches(p) /\ UNCHANGED browser
             /\ clean' = [clean EXCEPT !.todo = clean.todo \ {p}]
    <3>1. clean' = [at |-> "look", todo |-> clean.todo \ {p}, spared |-> clean.spared]
      BY <1>2, <2>2, <2>3
    <3>2. browser[p] \in {"none", "down", "foreign"} /\ browser' = [browser EXCEPT ![p] = browser[p]]
      BY <1>2, <1>3, <2>2, <2>3 DEF Matches
    <3> QED
      BY <1>1, <1>2, <1>3, <2>2, <3>1, <3>2, LookedAt
  <2>4. CASE /\ Matches(p) /\ clean' = [clean EXCEPT !.at = p]
             /\ \E b \in {browser[p], "down"} : browser' = [browser EXCEPT ![p] = b]
    <3>1. clean' = [at |-> p, todo |-> clean.todo, spared |-> clean.spared]
      BY <1>2, <2>2, <2>4
    <3>2. PICK b \in {browser[p], "down"} : browser' = [browser EXCEPT ![p] = b]
      BY <2>4
    <3>3. browser[p] \in {"up", "spared"}
      BY <2>4 DEF Matches
    <3>4. PICK at \in Callers \cup {"look"}, todo \in SUBSET Callers, spared \in SUBSET Callers :
            at = p /\ todo = clean.todo /\ spared = clean.spared
      BY <1>2, <2>2
    <3>5. /\ clean' = [at |-> at, todo |-> todo, spared |-> spared]
          /\ clean.todo \ {p} \subseteq todo /\ spared \ {p} = clean.spared \ {p}
      BY <3>1, <3>4
    <3>6. b \in {"none", "up", "spared", "down", "foreign"}
      BY <3>2, <3>3
    <3>7. /\ browser[p] \in {"up", "spared"} /\ b \in {browser[p], "down"} /\ p \in todo
          /\ (p \in spared => p \in clean.spared)
      BY <2>1, <3>2, <3>3, <3>4
    <3> HIDE <2>1, <2>4
    <3> QED
      BY <1>1, <1>3, <2>2, <3>2, <3>5, <3>6, <3>7, LookedAt
  <2>5. CASE /\ Matches(p) /\ browser' = [browser EXCEPT ![p] = "spared"]
             /\ clean' = [clean EXCEPT !.todo = clean.todo \ {p}, !.spared = clean.spared \cup {p}]
    <3>1. PICK todo, spared : todo = clean.todo \ {p} /\ spared = clean.spared \cup {p}
      OBVIOUS
    <3>2. clean' = [at |-> "look", todo |-> todo, spared |-> spared]
      BY <1>2, <2>2, <2>5, <3>1
    <3>3. browser[p] \in {"up", "spared"}
      BY <2>5 DEF Matches
    <3>4. /\ todo \in SUBSET Callers /\ clean.todo \ {p} \subseteq todo
          /\ spared \in SUBSET Callers /\ spared \ {p} = clean.spared \ {p} /\ p \in spared
      BY <1>2, <2>2, <3>1
    <3> QED
      BY <1>1, <1>3, <2>2, <2>5, <3>2, <3>3, <3>4, LookedAt
  <2> QED
    BY <2>1, <2>3, <2>4, <2>5
<1>5. CASE LookAgain
  <2>1. PICK p : p = clean.at
    OBVIOUS
  <2>2. p \in Callers
    BY <1>5, <2>1 DEF LookAgain
  <2>3. [clean EXCEPT !.at = "look", !.todo = clean.todo \ {p}]
          = [at |-> "look", todo |-> clean.todo \ {p}, spared |-> clean.spared]
    <3>1. PICK n : n = [clean EXCEPT !.at = "look", !.todo = clean.todo \ {p}]
      OBVIOUS
    <3>2. n = [at |-> "look", todo |-> clean.todo \ {p}, spared |-> clean.spared]
      BY <1>2, <3>1
    <3> QED
      BY <3>1, <3>2
  <2>4. \/ /\ clean' = [clean EXCEPT !.at = "look", !.todo = clean.todo \ {p}]
           /\ browser' = IF Matches(p) THEN [browser EXCEPT ![p] = Killed(p)] ELSE browser
        \/ /\ Matches(p) /\ browser' = [browser EXCEPT ![p] = "spared"]
           /\ clean' = [[clean EXCEPT !.at = "look", !.todo = clean.todo \ {p}]
                          EXCEPT !.spared = clean.spared \cup {p}]
    BY <1>5, <2>1, <2>3 DEF LookAgain
  <2>5. CASE /\ clean' = [clean EXCEPT !.at = "look", !.todo = clean.todo \ {p}]
             /\ ~Matches(p) /\ browser' = browser
    <3>1. browser[p] \in {"none", "down", "foreign"} /\ browser' = [browser EXCEPT ![p] = browser[p]]
      BY <1>2, <1>3, <2>2, <2>5 DEF Matches
    <3> QED
      BY <1>1, <1>2, <1>3, <2>2, <2>3, <2>5, <3>1, LookedAt
  <2>6. CASE /\ clean' = [clean EXCEPT !.at = "look", !.todo = clean.todo \ {p}]
             /\ Matches(p) /\ browser' = [browser EXCEPT ![p] = Killed(p)]
    <3>1. Killed(p) = "down" /\ browser[p] \in {"up", "spared"}
      BY <2>6 DEF Matches, Killed
    <3>2. browser' = [browser EXCEPT ![p] = "down"]
      BY <2>6, <3>1
    <3> QED
      BY <1>1, <1>2, <1>3, <2>2, <2>3, <2>6, <3>1, <3>2, LookedAt
  <2>7. CASE /\ Matches(p) /\ browser' = [browser EXCEPT ![p] = "spared"]
             /\ clean' = [[clean EXCEPT !.at = "look", !.todo = clean.todo \ {p}]
                            EXCEPT !.spared = clean.spared \cup {p}]
    <3>1. PICK todo, spared : todo = clean.todo \ {p} /\ spared = clean.spared \cup {p}
      OBVIOUS
    <3>2. clean' = [at |-> "look", todo |-> todo, spared |-> spared]
      BY <1>2, <2>3, <2>7, <3>1
    <3>3. browser[p] \in {"up", "spared"}
      BY <2>7 DEF Matches
    <3>4. /\ todo \in SUBSET Callers /\ clean.todo \ {p} \subseteq todo
          /\ spared \in SUBSET Callers /\ spared \ {p} = clean.spared \ {p} /\ p \in spared
      BY <1>2, <2>2, <3>1
    <3> QED
      BY <1>1, <1>3, <2>2, <2>7, <3>2, <3>3, <3>4, LookedAt
  <2> QED
    BY <2>4, <2>5, <2>6, <2>7
<1> QED
  BY <1>4, <1>5

LEMMA SweptKeeps == VpnAssumption /\ VpnInv /\ Swept => VpnInv'
<1> SUFFICES ASSUME VpnAssumption, VpnInv, Swept PROVE VpnInv'
  OBVIOUS
<1>1. /\ clean.at = "look" /\ clean.todo = {} /\ held' = clean.spared /\ kept' = clean.spared
      /\ UNCHANGED <<gate, record, current, task, worker, browser, link, left>>
      /\ \/ life = "starting" /\ life' = "serving" /\ clean' = Resting
         \/ life # "starting" /\ life' = life /\ clean' = [Resting EXCEPT !.at = "done"]
  BY DEF Swept, Remaining
<1>2. Records' /\ Alone' /\ Gated' /\ Once'
  BY <1>1, RecordsStay
<1>3. clean'.at \in {"none", "done"} /\ clean'.todo = {} /\ clean'.spared = {} /\ (life' = "serving" \/ life' = life)
      /\ (clean'.at = "none" \/ life # "starting")
  BY <1>1 DEF Resting
<1>4. ASSUME NEW d \in Callers PROVE LoggedIn(d)' /\ Sweeps(d)'
  <2>1. LoggedIn(d) /\ Sweeps(d)
    BY DEF VpnInv, Logins
  <2>2. Callers \cap {"none", "look", "done"} = {}
    BY DEF VpnAssumption
  <2>3. record[d].told => browser[d] # "up" /\ (browser[d] = "spared" => d \in clean.spared)
    BY <1>1, <2>1 DEF Sweeps
  <2>4. LoggedIn(d)'
    BY <1>1, <2>1, <2>3 DEF LoggedIn
  <2>5. Sweeps(d)'
    BY <1>1, <1>3, <2>2, <2>3 DEF Sweeps
  <2> QED
    BY <2>4, <2>5
<1>5. Logins'
  BY <1>1, <1>3, <1>4 DEF VpnInv, Logins
<1>6. VpnTypeOK'
  <2>1. clean' \in [at: {"none", "look", "done"} \cup Callers, todo: SUBSET Callers, spared: SUBSET Callers]
    BY <1>1 DEF Resting
  <2> QED
    BY <1>1, <2>1 DEF VpnInv, VpnTypeOK
<1> QED
  BY <1>2, <1>5, <1>6 DEF VpnInv

LEMMA FlipKeeps == VpnAssumption /\ VpnInv /\ Flip => VpnInv'
<1> SUFFICES ASSUME VpnAssumption, VpnInv, Flip PROVE VpnInv'
  OBVIOUS
<1>1. UNCHANGED <<service, record, login>> /\ link' \in BOOLEAN
  BY DEF Flip, VpnInv, VpnTypeOK
<1>2. Records' /\ Alone' /\ Gated' /\ Once'
  BY <1>1, RecordsStay DEF service
<1>3. Logins'
  BY <1>1 DEF VpnInv, Logins, LoggedIn, Sweeps, service, login
<1>4. left' \in [flips: 0..MaxFlips, restarts: 0..MaxRestarts]
  <2>1. left.flips \in 0..MaxFlips /\ left.flips > 0 /\ left' = [left EXCEPT !.flips = left.flips - 1]
    BY DEF Flip, VpnInv, VpnTypeOK
  <2>2. left.flips - 1 \in 0..MaxFlips
    BY <2>1 DEF VpnAssumption
  <2> QED
    BY <2>1, <2>2 DEF VpnInv, VpnTypeOK
<1>5. VpnTypeOK'
  BY <1>1, <1>4 DEF VpnInv, VpnTypeOK, service, login
<1> QED
  BY <1>2, <1>3, <1>5 DEF VpnInv

LEMMA InitHolds == VpnAssumption /\ Init => VpnInv
<1> SUFFICES ASSUME VpnAssumption, Init PROVE VpnInv
  OBVIOUS
<1>1. None \in RunRecord /\ Placed(None) /\ Connected(None) /\ ~None.cut
  BY NoneIs
<1>2. \A c \in Callers : record[c] = None
  BY DEF Init
<1>3. None.state = "none" /\ None.pc = "idle" /\ ~None.told
  BY DEF None
<1>4. VpnTypeOK
  <2>1. left \in [flips: 0..MaxFlips, restarts: 0..MaxRestarts]
    BY DEF Init, VpnAssumption
  <2>2. record \in [Callers -> RunRecord]
    BY <1>1 DEF Init
  <2>3. clean \in [at: {"none", "look", "done"} \cup Callers, todo: SUBSET Callers, spared: SUBSET Callers]
    BY DEF Init, Resting
  <2> QED
    BY <2>1, <2>2, <2>3 DEF Init, VpnTypeOK
<1>5. Records
  BY <1>1, <1>2 DEF Records
<1>6. Alone /\ Gated /\ Once
  BY <1>2, <1>3 DEF Init, Alone, Gated, Once, Live, Final, VpnAssumption
<1>7. Logins
  <2>1. \A c \in Callers : worker[c] = "none" /\ browser[c] = "none"
    BY DEF Init
  <2>2. clean.at = "none" /\ clean.spared = {} /\ held = {} /\ "none" \notin Callers
    BY DEF Init, Resting, VpnAssumption
  <2> QED
    BY <1>2, <1>3, <2>1, <2>2 DEF Logins, LoggedIn, Sweeps
<1> QED
  BY <1>4, <1>5, <1>6, <1>7 DEF VpnInv

LEMMA NextKeeps == VpnAssumption /\ VpnInv /\ [Next]_vars => VpnInv'
<1> SUFFICES ASSUME VpnAssumption, VpnInv, [Next]_vars PROVE VpnInv'
  OBVIOUS
<1>1. ASSUME NEW c \in Callers,
             \/ Start(c) \/ Begin(c) \/ Run(c) \/ Probe(c) \/ OpenClient(c) \/ PressButton(c) \/ Waited(c)
             \/ MonitorReads(c) \/ MonitorWrites(c) \/ Over(c) \/ LoginFails(c) \/ Spawn(c) \/ Launch(c)
             \/ Named(c) \/ NeedMfa(c) \/ SubmitMfa(c) \/ Delivered(c) \/ ExchangeFails(c) \/ Stop(c)
             \/ WorkerEnds(c) \/ Cleaned(c) \/ CleanFails(c) \/ Timeout(c) \/ Cancel(c) \/ Interrupted(c)
             \/ BrowserEnds(c)
      PROVE  VpnInv'
  BY <1>1, StartKeeps, BeginKeeps, BeginsToRun, ProbeKeeps, OpensKeeps, PressesKeeps, WaitedKeeps, MonitorKeeps,
     OverKeeps, LoginFailsKeeps, SpawnKeeps, BrowserKeeps, NamedKeeps, CodesKeep, ExchangeKeeps, StopKeeps,
     CleanedKeeps, TimeoutKeeps, CancelKeeps, InterruptedKeeps
<1>2. CASE Clear \/ ClearOver \/ Look \/ LookAgain \/ Swept \/ Close \/ Press \/ Closed \/ Restart \/ Flip
  BY <1>2, ClearKeeps, LookKeeps, SweptKeeps, CloseKeeps, ClosedKeeps, RestartKeeps, FlipKeeps
<1>3. CASE UNCHANGED vars
  <2>1. UNCHANGED <<life, record, gate, current, task, worker, browser, held, kept, clean, link, left>>
    BY <1>3 DEF vars
  <2>2. Records' /\ Alone' /\ Gated' /\ Once'
    BY <2>1, RecordsStay
  <2> QED
    BY <2>1, <2>2 DEF VpnInv, VpnTypeOK, Logins, LoggedIn, Sweeps
<1> QED
  BY <1>1, <1>2, <1>3 DEF Next

-----------------------------------------------------------------------------
(* The runs of the VPN are safe: one at a time, which cancel and close     *)
(* reach, a success a connection, and a relogin a login; no login leaves a *)
(* worker or a Chrome behind, and no other process is killed.              *)
THEOREM VpnRunsAreSafe ==
  ASSUME VpnAssumption
  PROVE  Spec => []VpnSafe
<1>1. VpnInv => VpnSafe
  <2> SUFFICES ASSUME VpnInv PROVE VpnSafe
    OBVIOUS
  <2>1. OneRun
    BY DEF VpnInv, Alone, Once, OneRun, Serving
  <2>2. SuccessIsConnected
    BY DEF VpnInv, Records, Connected, SuccessIsConnected
  <2>3. LoginLeavesNothing /\ OnlyChromeSignalled
    <3>1. worker \in [Callers -> {"none", "up", "stopping", "gone"}]
      BY DEF VpnInv, VpnTypeOK
    <3> QED
      BY <3>1 DEF VpnInv, Logins, LoggedIn, LoginLeavesNothing, OnlyChromeSignalled, InLogin
  <2>4. ProfileAlone
    <3>1. ASSUME NEW c \in Callers, gate = "clear" PROVE record[c].pc \notin InLogin
      BY <3>1, RunningIs DEF VpnInv, Gated, InScope
    <3> QED
      BY <3>1 DEF VpnInv, Logins, LoggedIn, ProfileAlone
  <2> QED
    BY <2>1, <2>2, <2>3, <2>4 DEF VpnInv, VpnSafe
<1> QED
  BY <1>1, InitHolds, NextKeeps, PTL DEF Spec

-----------------------------------------------------------------------------
(* The state of a run stays, or it was still to be decided: for one that   *)
(* is cancelled, only between a failure and a cancellation.                *)
Decides(c) ==
  \/ record'[c].state = record[c].state
  \/ record[c].state \in {"none", "queued", "running"}
  \/ record[c].state = "cancelling" /\ record'[c].state \in {"failed", "cancelled"}
  \/ record'[c].state = "lost"

LEMMA OneDecides ==
  ASSUME VpnInv, NEW c \in Callers, NEW r, Becomes(c, r),
         \/ r.state = record[c].state
         \/ record[c].state \in {"none", "queued", "running"}
         \/ record[c].state = "cancelling" /\ r.state \in {"failed", "cancelled"}
  PROVE  \A d \in Callers : Decides(d)
BY DEF Becomes, Decides, VpnInv, VpnTypeOK

LEMMA CallerDecides ==
  ASSUME VpnAssumption, VpnInv, NEW c \in Callers,
         \/ Start(c) \/ Begin(c) \/ Run(c) \/ Probe(c) \/ OpenClient(c) \/ PressButton(c) \/ Waited(c)
         \/ MonitorReads(c) \/ MonitorWrites(c) \/ Over(c) \/ LoginFails(c) \/ Spawn(c)
         \/ Named(c) \/ NeedMfa(c) \/ SubmitMfa(c) \/ Delivered(c) \/ ExchangeFails(c) \/ Stop(c)
         \/ Cleaned(c) \/ CleanFails(c) \/ Timeout(c) \/ Cancel(c) \/ Interrupted(c)
  PROVE  \A d \in Callers : Decides(d)
<1>1. record[c] \in RunRecord /\ Placed(record[c]) /\ Connected(record[c])
  BY RunningIs
<1>2. record \in [Callers -> RunRecord]
  BY DEF VpnInv, VpnTypeOK
<1>3. CASE record[c].state \in {"none", "queued", "running"} /\ \A d \in Callers : d # c => record'[d] = record[d]
  BY <1>3 DEF Decides
<1>4. CASE \/ Start(c) \/ Begin(c) \/ Run(c) \/ Probe(c) \/ OpenClient(c) \/ PressButton(c) \/ Waited(c)
           \/ LoginFails(c)
  <2>1. record[c].state \in {"none", "queued", "running"}
    BY <1>1, <1>4, RunningIs DEF Start, Begin, Run, Probe, OpenClient, PressButton, Waited, LoginFails, Runs, Placed,
       InScope, InLogin
  <2>2. \A d \in Callers : d # c => record'[d] = record[d]
    BY <1>2, <1>4 DEF Start, Begin, Run, Probe, OpenClient, PressButton, Waited, LoginFails, Becomes
  <2> QED
    BY <1>3, <2>1, <2>2
<1>5. CASE \/ MonitorReads(c) \/ MonitorWrites(c) \/ Over(c) \/ Spawn(c) \/ Named(c) \/ NeedMfa(c) \/ SubmitMfa(c)
           \/ Delivered(c) \/ ExchangeFails(c) \/ Stop(c) \/ Timeout(c)
  <2>1. \E r : Becomes(c, r) /\ r.state = record[c].state
    <3>1. CASE MonitorReads(c)
      <4>1. PICK net : Becomes(c, [record[c] EXCEPT !.net = net])
        BY <3>1 DEF MonitorReads
      <4>2. [record[c] EXCEPT !.net = net].state = record[c].state
        BY <1>1 DEF RunRecord
      <4> QED
        BY <4>1, <4>2
    <3>2. CASE MonitorWrites(c)
      <4>1. PICK ip : Becomes(c, [record[c] EXCEPT !.ip = ip, !.net = "idle"])
        BY <3>2 DEF MonitorWrites
      <4>2. [record[c] EXCEPT !.ip = ip, !.net = "idle"].state = record[c].state
        BY <1>1 DEF RunRecord
      <4> QED
        BY <4>1, <4>2
    <3>3. CASE Named(c)
      <4>1. Becomes(c, [record[c] EXCEPT !.told = TRUE])
        BY <3>3 DEF Named
      <4>2. [record[c] EXCEPT !.told = TRUE].state = record[c].state
        BY <1>1 DEF RunRecord
      <4> QED
        BY <4>1, <4>2
    <3>4. CASE NeedMfa(c)
      <4>1. PICK tries : Becomes(c, [record[c] EXCEPT !.pc = "mfa", !.tries = tries])
        BY <3>4 DEF NeedMfa
      <4>2. [record[c] EXCEPT !.pc = "mfa", !.tries = tries].state = record[c].state
        BY <1>1 DEF RunRecord
      <4> QED
        BY <4>1, <4>2
    <3>5. CASE Delivered(c) \/ ExchangeFails(c)
      <4>1. PICK res : Becomes(c, [record[c] EXCEPT !.pc = "settle", !.res = res])
        BY <3>5 DEF Delivered, ExchangeFails
      <4>2. [record[c] EXCEPT !.pc = "settle", !.res = res].state = record[c].state
        BY <1>1 DEF RunRecord
      <4> QED
        BY <4>1, <4>2
    <3>6. CASE Over(c) \/ Spawn(c) \/ SubmitMfa(c) \/ Stop(c)
      <4>1. PICK pc : Becomes(c, [record[c] EXCEPT !.pc = pc])
        BY <3>6 DEF Over, Spawn, SubmitMfa, Stop, Becomes
      <4>2. [record[c] EXCEPT !.pc = pc].state = record[c].state
        BY <1>1 DEF RunRecord
      <4> QED
        BY <4>1, <4>2
    <3>7. CASE Timeout(c)
      <4>1. Becomes(c, Interrupt(record[c], "timeout"))
        BY <3>7 DEF Timeout
      <4>2. Interrupt(record[c], "timeout").state = record[c].state
        BY <1>1 DEF RunRecord, Interrupt
      <4> QED
        BY <4>1, <4>2
    <3> QED
      BY <1>5, <3>1, <3>2, <3>3, <3>4, <3>5, <3>6, <3>7
  <2> QED
    BY <2>1, OneDecides
<1>6. CASE CleanFails(c) \/ Cleaned(c)
  <2>1. record[c].pc = "clean" /\ ~record[c].pend /\ record[c].state \in Moving
    BY <1>1, <1>6 DEF CleanFails, Cleaned, Runs, Placed, InScope, InLogin
  <2>2. \A d \in Callers : d # c => record'[d] = record[d]
    BY <1>2, <1>6 DEF CleanFails, Cleaned, Becomes
  <2>3. CASE record[c].state = "running"
    BY <1>3, <2>2, <2>3
  <2>4. CASE record[c].state = "cancelling"
    <3>1. record[c].res = "cancelled"
      BY <1>1, <2>1, <2>4 DEF Placed
    <3>2. "failed" \in Final /\ "cancelled" \in Final
      BY DEF Final
    <3>3. CASE CleanFails(c)
      <4> DEFINE e == [record[c] EXCEPT !.cut = TRUE]
      <4>1. e \in RunRecord /\ Becomes(c, Ended(e, "failed"))
        BY <1>1, <3>3 DEF CleanFails, RunRecord
      <4> HIDE DEF e
      <4>2. Ended(e, "failed").state = "failed"
        BY <3>2, <4>1, EndedIs
      <4> QED
        BY <2>4, <4>1, <4>2, OneDecides
    <3>4. CASE Cleaned(c)
      <4>1. PICK s \in {"failed", "cancelled"} : Becomes(c, Ended(record[c], s))
        BY <3>1, <3>4 DEF Cleaned, Verdict
      <4>2. Ended(record[c], s).state = s
        BY <1>1, <3>2, EndedIs
      <4> QED
        BY <2>4, <4>1, <4>2, OneDecides
    <3> QED
      BY <1>6, <3>3, <3>4
  <2> QED
    BY <2>1, <2>3, <2>4 DEF Moving
<1>7. CASE Cancel(c)
  <2>1. /\ task = c /\ record[c].state \in {"queued", "running"}
    BY <1>7 DEF Cancel, Serves, Serving, Cancellable, VpnInv, Alone, Live
  <2>2. \A d \in Callers : d # c => record'[d] = record[d]
    BY <1>2, <1>7, <2>1 DEF Cancel, Becomes
  <2> QED
    BY <1>3, <2>1, <2>2
<1>8. CASE Interrupted(c)
  <2> DEFINE r == [record[c] EXCEPT !.pend = FALSE]
  <2>1. /\ r \in RunRecord /\ r.pc = record[c].pc /\ r.state = record[c].state
    BY <1>1 DEF RunRecord
  <2>2. record[c].pc \in InScope \cup {"queued", "ending"}
    BY <1>1, <1>8 DEF Interrupted, Placed
  <2>3. Becomes(c, CASE r.pc \in {"exchange", "mfa"} -> [r EXCEPT !.pc = "settle", !.res = "cancelled"]
                     [] r.pc \in {"settle", "clean"} -> Ended([r EXCEPT !.cut = TRUE], Verdict(r))
                     [] r.pc \in {"ending", "queued"} -> [r EXCEPT !.pc = "over"]
                     [] OTHER -> Ended(r, Verdict(r)))
    BY <1>8 DEF Interrupted
  <2> HIDE DEF r
  <2>4. PICK s : s = Verdict(r)
    OBVIOUS
  <2>5. s \in {"failed", "cancelled"} /\ s \in Final
    BY <2>4 DEF Verdict, Final
  <2>6. CASE r.pc \in {"exchange", "mfa"}
    <3>1. [r EXCEPT !.pc = "settle", !.res = "cancelled"].state = record[c].state
      BY <2>1 DEF RunRecord
    <3>2. Becomes(c, [r EXCEPT !.pc = "settle", !.res = "cancelled"])
      BY <2>3, <2>6
    <3> QED
      BY <3>1, <3>2, OneDecides
  <2>7. CASE r.pc \in {"ending", "queued"}
    <3>1. [r EXCEPT !.pc = "over"].state = record[c].state
      BY <2>1 DEF RunRecord
    <3>2. Becomes(c, [r EXCEPT !.pc = "over"])
      BY <2>3, <2>7
    <3> QED
      BY <3>1, <3>2, OneDecides
  <2>8. ASSUME NEW e \in RunRecord, Becomes(c, Ended(e, s)), record[c].pc \in InScope
        PROVE  \A d \in Callers : Decides(d)
    <3>1. Ended(e, s).state = s
      BY <2>5, EndedIs
    <3>2. record[c].state \in {"running", "cancelling"}
      BY <1>1, <2>8 DEF Placed, Moving
    <3> QED
      BY <2>5, <2>8, <3>1, <3>2, OneDecides
  <2>9. CASE r.pc \in {"settle", "clean"}
    <3>1. [r EXCEPT !.cut = TRUE] \in RunRecord
      BY <2>1 DEF RunRecord
    <3>2. Becomes(c, Ended([r EXCEPT !.cut = TRUE], s))
      BY <2>3, <2>4, <2>9
    <3>3. record[c].pc \in InScope
      BY <2>1, <2>9 DEF InScope, InLogin
    <3> QED
      BY <2>8, <3>1, <3>2, <3>3
  <2>10. CASE r.pc \notin {"exchange", "mfa", "settle", "clean", "ending", "queued"}
    <3>1. Becomes(c, Ended(r, s))
      BY <2>3, <2>4, <2>10
    <3> QED
      BY <2>1, <2>2, <2>8, <2>10, <3>1
  <2> QED
    BY <2>6, <2>7, <2>9, <2>10
<1> QED
  BY <1>4, <1>5, <1>6, <1>7, <1>8

LEMMA AllDecide ==
  ASSUME VpnAssumption, VpnInv, Next
  PROVE  \A d \in Callers : Decides(d)
<1>1. record \in [Callers -> RunRecord]
  BY DEF VpnInv, VpnTypeOK
<1>2. CASE record' = record
  BY <1>2 DEF Decides
<1>3. CASE Clear \/ ClearOver \/ Look \/ LookAgain \/ Swept \/ Flip
           \/ \E c \in Callers : Launch(c) \/ WorkerEnds(c) \/ BrowserEnds(c)
  BY <1>2, <1>3 DEF Clear, ClearOver, Look, LookAgain, Swept, Flip, Launch, WorkerEnds, BrowserEnds
<1>4. CASE Close \/ Press \/ Closed
  <2>1. ASSUME NEW d \in Callers
        PROVE  \/ record'[d].state = record[d].state
               \/ record[d].state = "queued"
    <3>1. record[d] \in RunRecord
      BY <1>1
    <3>2. \/ record'[d] = record[d] \/ record'[d] = Interrupt(record[d], "cancel")
          \/ record'[d] = [record[d] EXCEPT !.pc = "over"]
          \/ record[d].state = "queued"
      BY <1>1, <1>4 DEF Close, Press, Closed, Becomes
    <3> QED
      BY <3>1, <3>2 DEF Interrupt, RunRecord
  <2> QED
    BY <2>1 DEF Decides
<1>5. CASE Restart
  <2>1. ASSUME NEW d \in Callers
        PROVE  record'[d].state = record[d].state \/ record'[d].state = "lost"
    <3>1. record[d] \in RunRecord /\ record'[d] = Lost(record[d])
      BY <1>1, <1>5 DEF Restart
    <3>2. CASE record[d].pc = "idle"
      BY <3>1, <3>2 DEF Lost
    <3>3. CASE record[d].pc # "idle"
      <4>1. Ended(record[d], "lost") \in RunRecord /\ Ended(record[d], "lost").state = "lost"
        BY <3>1, EndedIs
      <4> QED
        BY <3>1, <3>3, <4>1 DEF Lost, RunRecord
    <3> QED
      BY <3>2, <3>3
  <2> QED
    BY <2>1 DEF Decides
<1> QED
  BY <1>3, <1>4, <1>5, CallerDecides DEF Next

(* How a run ended stands (_run, cancel): it is changed by nothing but the *)
(* end of the backend, and a run that is cancelled does not succeed.       *)
THEOREM EndStandsForGood ==
  ASSUME VpnAssumption
  PROVE  Spec => [][EndStands]_vars
<1>1. VpnInv /\ [Next]_vars => [EndStands]_vars
  <2> SUFFICES ASSUME VpnInv, Next PROVE EndStands
    OBVIOUS
  <2>1. \A d \in Callers : Decides(d)
    BY AllDecide
  <2> QED
    BY <2>1 DEF Decides, EndStands, Final
<1> QED
  BY <1>1, InitHolds, NextKeeps, PTL DEF Spec

-----------------------------------------------------------------------------
(* The bypass of the VPN *)
(* Who runs: a sweep has a runner, the installer's own is the only one     *)
(* while it repairs, and the job is unloaded from its stop to its boot.    *)
OneRunner ==
  /\ sweep # "sleep" => runner # "none"
  /\ runner = "once" => installer = "once"
  /\ runner = "loop" => installer = "idle"
  /\ installer # "idle" => ~ job
  /\ installer \in {"once", "boot"} => installed
(* A route of ours that is there was there when the table was last read,   *)
(* but for the one that was just added.                                    *)
ReadIsOurs ==
  sweep # "sleep" =>
    \A n \in Nets : table[n] \in Gateways => seen[n] = table[n] \/ (sweep = "added" /\ n = dest)
(* What the sweep knows of its destination at each step.                   *)
Entered ==
  /\ sweep \in {"add", "added"} => gateway # Nothing /\ owner[dest] = gateway /\ dest \in desired
  /\ sweep = "want" => owner[dest] = Nothing
  /\ sweep = "delete" => owner[dest] # Nothing /\ (table[dest] = owner[dest] \/ dest \in late)
(* What it may still enter fits, and in an undo what it has done is gone.  *)
WillFit == sweep # "sleep" => Cardinality(desired \cup Journaled) <= MaxRoutes
Undoing ==
  sweep # "sleep" /\ ~ snapshot.enabled =>
    desired = {} /\ (events = {} => Journaled \subseteq unswept)

BypassInv == BypassSafe /\ OneRunner /\ ReadIsOurs /\ Entered /\ WillFit /\ Undoing

LEMMA Smaller ==
  ASSUME BypassAssumption, NEW S \in SUBSET Nets, NEW T \in SUBSET S
  PROVE  IsFiniteSet(S) /\ Cardinality(S) \in Nat /\ Cardinality(T) <= Cardinality(S)
<1>1. IsFiniteSet(S) /\ IsFiniteSet(T)
  BY FS_Subset DEF BypassAssumption
<1>2. Cardinality(S) \in Nat /\ Cardinality(T) <= Cardinality(S)
  BY <1>1, FS_Subset, FS_CardinalityType
<1>3. QED
  BY <1>1, <1>2

LEMMA BypassInitKeeps ==
  ASSUME BypassAssumption, BypassInit
  PROVE  BypassInv
<1>1. Journaled = {} /\ cache = {} /\ table \in [Nets -> {Nothing, Foreign}]
  BY DEF BypassInit, Journaled
<1>2. JournalFits
  BY <1>1, FS_EmptySet DEF JournalFits, BypassAssumption
<1>3. Default \in Snapshots
  BY DEF Default, Snapshots
<1>4. BypassTypeOK
  <2>1. table \in [Nets -> Rows] /\ seen \in [Nets -> Rows]
    BY <1>1 DEF BypassInit, Rows
  <2>2. others \in 0..MaxOthers /\ crashes \in 0..MaxCrashes /\ applies \in 0..MaxApplies
    BY DEF BypassInit, BypassAssumption
  <2>3. /\ owner \in [Nets -> Gateways \cup {Nothing}] /\ pending \subseteq Journaled /\ dest \in Nets
        /\ snapshot \in Snapshots /\ saved \in Snapshots /\ wish \in Snapshots
    BY <1>1, <1>3 DEF BypassInit
  <2>4. QED
    BY <1>1, <2>1, <2>2, <2>3 DEF BypassTypeOK, BypassInit, Steps
<1>5. QED
  BY <1>1, <1>2, <1>4 DEF BypassInv, BypassSafe, EveryRouteIsJournaled, JobIsEnabled, UndoneIsClean, OneRunner,
     ReadIsOurs, Entered, WillFit, Undoing, BypassInit, BypassAssumption

(* Steps that leave the sweep and what it works with alone.                *)
LEMMA OutsideKeeps ==
  ASSUME BypassAssumption, BypassInv, UNCHANGED <<table, journal, sweepVars, late, others, crashes>>,
         snapshot' = snapshot \/ sweep = "sleep", snapshot' \in Snapshots, installed' \in BOOLEAN, job' \in BOOLEAN,
         runner' \in {"none", "loop", "once"}, saved' \in Snapshots, wish' \in Snapshots,
         request' \in {"none", "activate", "deactivate"}, installer' \in {"idle", "write", "once", "boot"},
         applies' \in 0..MaxApplies,
         job' => snapshot'.enabled /\ installed', OneRunner', installer' = "boot" => installer = "boot" /\ snapshot' = snapshot
  PROVE  BypassInv'
<1>1. Journaled' = Journaled
  BY DEF Journaled, journal
<1>2. BypassTypeOK'
  BY <1>1 DEF BypassInv, BypassSafe, BypassTypeOK, journal, sweepVars
<1>3. EveryRouteIsJournaled' /\ JobIsEnabled' /\ UndoneIsClean' /\ JournalFits'
  BY <1>1 DEF BypassInv, BypassSafe, EveryRouteIsJournaled, JobIsEnabled, UndoneIsClean, JournalFits, journal, sweepVars
<1>4. ReadIsOurs' /\ Entered' /\ WillFit' /\ Undoing'
  BY <1>1 DEF BypassInv, ReadIsOurs, Entered, WillFit, Undoing, journal, sweepVars
<1>5. QED
  BY <1>2, <1>3, <1>4 DEF BypassInv, BypassSafe

LEMMA DestinationsChange ==
  ASSUME BypassAssumption, BypassInv, NEW n \in Nets, NEW row \in {Nothing, Foreign}, Others(n, row)
  PROVE  BypassInv'
<1>1. /\ table' = [table EXCEPT ![n] = row] /\ late' = late \cup {n} /\ others' \in 0..MaxOthers
      /\ UNCHANGED <<owner, pending, cache, snapshot, installed, job, runner, sweep, seen, unswept, dest, gateway,
                     desired, events, saved, request, installer, wish, applies, crashes>>
  BY DEF Others, journal, root, sweepVars, serviceVars, BypassInv, BypassSafe, BypassTypeOK, BypassAssumption
<1>2. Journaled' = Journaled
  BY <1>1 DEF Journaled
<1>3. BypassTypeOK
  BY DEF BypassInv, BypassSafe
<1>4. table' \in [Nets -> Rows] /\ \A m \in Nets : table'[m] \in Gateways => table[m] = table'[m]
  BY <1>1, <1>3 DEF BypassTypeOK, Rows, BypassAssumption
<1>5. \A m \in Nets : table'[m] = table[m] \/ m \in late'
  BY <1>1, <1>3 DEF BypassTypeOK
<1>6. BypassTypeOK'
  BY <1>1, <1>2, <1>3, <1>4 DEF BypassTypeOK
<1>7. EveryRouteIsJournaled' /\ JobIsEnabled' /\ UndoneIsClean' /\ JournalFits'
  BY <1>1, <1>2, <1>4 DEF BypassInv, BypassSafe, EveryRouteIsJournaled, JobIsEnabled, UndoneIsClean, JournalFits
<1>8. OneRunner' /\ ReadIsOurs' /\ WillFit' /\ Undoing'
  BY <1>1, <1>2, <1>4 DEF BypassInv, OneRunner, ReadIsOurs, WillFit, Undoing
<1>9. Entered'
  BY <1>1, <1>3, <1>5 DEF BypassInv, Entered, BypassTypeOK
<1>10. QED
  BY <1>6, <1>7, <1>8, <1>9 DEF BypassInv, BypassSafe

(* The steps of a sweep: the rest of the state stays.                      *)
LEMMA SweepKeeps ==
  ASSUME BypassAssumption, BypassInv, InSweep,
         table' \in [Nets -> Rows], seen' \in [Nets -> Rows], owner' \in [Nets -> Gateways \cup {Nothing}],
         pending' \subseteq Journaled', cache' \subseteq Nets, Cardinality(cache') <= MaxRoutes,
         sweep' \in Steps \ {"sleep"}, unswept' \subseteq Nets, dest' \in Nets, gateway' \in Gateways \cup {Nothing},
         desired' \subseteq Nets, events' \subseteq {"conflict", "failed", "error"},
         EveryRouteIsJournaled', ReadIsOurs', Entered', WillFit', Undoing'
  PROVE  BypassInv'
<1>1. /\ runner # "none" /\ late' = {}
      /\ UNCHANGED <<snapshot, installed, job, runner, saved, request, installer, wish, applies, others, crashes>>
  BY DEF InSweep, root, serviceVars
<1>2. BypassTypeOK /\ OneRunner /\ BypassSafe
  BY DEF BypassInv, BypassSafe
<1>3. BypassTypeOK'
  BY <1>1, <1>2 DEF BypassTypeOK
<1>4. JournalFits'
  <2>1. /\ desired' \cup Journaled' \in SUBSET Nets /\ Journaled' \in SUBSET (desired' \cup Journaled')
        /\ Cardinality(desired' \cup Journaled') <= MaxRoutes
    BY DEF Journaled, WillFit, Steps
  <2>2. Cardinality(Journaled') <= MaxRoutes
    <3> PICK all \in SUBSET Nets : all = desired' \cup Journaled'
      BY <2>1
    <3> PICK ours \in SUBSET all : ours = Journaled'
      BY <2>1
    <3>1. Cardinality(all) \in Nat /\ Cardinality(ours) <= Cardinality(all) /\ IsFiniteSet(all)
      BY Smaller
    <3>2. Cardinality(ours) \in Nat
      BY <3>1, FS_Subset, FS_CardinalityType
    <3>3. QED
      BY <2>1, <3>1, <3>2 DEF BypassAssumption
  <2>3. QED
    BY <2>2 DEF JournalFits
<1>5. OneRunner' /\ JobIsEnabled' /\ UndoneIsClean'
  <2>1. installer # "boot"
    BY <1>1, <1>2 DEF OneRunner, BypassTypeOK
  <2>2. QED
    BY <1>1, <1>2, <2>1 DEF OneRunner, BypassSafe, JobIsEnabled, UndoneIsClean
<1>6. QED
  BY <1>3, <1>4, <1>5 DEF BypassInv, BypassSafe

LEMMA BeginSweepKeeps ==
  ASSUME BypassAssumption, BypassInv, BeginSweep
  PROVE  BypassInv'
<1>1. BypassTypeOK /\ BypassSafe
  BY DEF BypassInv, BypassSafe
<1> PICK usable \in BOOLEAN, found \in SUBSET Discoverable, known \in SUBSET cache :
      /\ ~snapshot.enabled => found = {} /\ ~usable
      /\ Room(Desired(found, known)) /\ cache' = found \cup known /\ desired' = Desired(found, known)
      /\ gateway' = (IF usable THEN snapshot.gateway ELSE Nothing)
      /\ unswept' = desired' \cup Journaled
  BY DEF BeginSweep
<1>2. /\ InSweep /\ seen' = table /\ sweep' = "look" /\ events' = {}
      /\ UNCHANGED <<table, owner, pending, dest, snapshot>>
  BY DEF BeginSweep, InSweep, root
<1>3. Journaled' = Journaled
  BY <1>2 DEF Journaled
<1>4. found \in SUBSET Nets /\ known \in SUBSET Nets /\ snapshot.targets \in SUBSET Nets
      /\ snapshot.gateway \in Gateways \cup {Nothing}
  BY <1>1 DEF BypassTypeOK, Discoverable, BypassAssumption, Snapshots
<1>5. /\ desired' \in SUBSET Nets /\ Cardinality(desired' \cup Journaled) <= MaxRoutes
      /\ ~snapshot.enabled => desired' = {} /\ found = {}
      /\ snapshot.enabled => found \cup known \in SUBSET desired'
  BY <1>4 DEF Desired, Room
<1>6. cache' \in SUBSET Nets /\ Cardinality(cache') <= MaxRoutes
  <2> PICK all \in SUBSET Nets : all = desired' \cup Journaled
    BY <1>5 DEF Journaled
  <2> PICK both \in SUBSET Nets : both = found \cup known
    BY <1>4
  <2>1. CASE snapshot.enabled
    <3>1. both \in SUBSET all
      BY <1>5, <2>1
    <3>2. Cardinality(all) \in Nat /\ Cardinality(both) <= Cardinality(all) /\ IsFiniteSet(both)
      BY <3>1, Smaller
    <3>3. Cardinality(both) \in Nat
      BY <3>2, FS_CardinalityType
    <3>4. QED
      BY <1>5, <3>2, <3>3 DEF BypassAssumption
  <2>2. CASE ~ snapshot.enabled
    <3> PICK was \in SUBSET Nets : was = cache
      BY <1>1 DEF BypassTypeOK
    <3>1. both \in SUBSET was /\ Cardinality(was) <= MaxRoutes
      BY <1>1, <1>5, <2>2 DEF BypassSafe, JournalFits
    <3>2. Cardinality(was) \in Nat /\ Cardinality(both) <= Cardinality(was) /\ IsFiniteSet(both)
      BY <3>1, Smaller
    <3>3. Cardinality(both) \in Nat
      BY <3>2, FS_CardinalityType
    <3>4. QED
      BY <3>1, <3>2, <3>3 DEF BypassAssumption
  <2>3. QED
    BY <2>1, <2>2
<1>7. ReadIsOurs' /\ Entered' /\ WillFit' /\ Undoing'
  BY <1>2, <1>3, <1>5 DEF ReadIsOurs, Entered, WillFit, Undoing
<1>8. EveryRouteIsJournaled'
  BY <1>1, <1>2 DEF BypassSafe, EveryRouteIsJournaled
<1>9. /\ table' \in [Nets -> Rows] /\ seen' \in [Nets -> Rows] /\ owner' \in [Nets -> Gateways \cup {Nothing}]
      /\ pending' \subseteq Journaled' /\ sweep' \in Steps \ {"sleep"} /\ unswept' \subseteq Nets /\ dest' \in Nets
      /\ gateway' \in Gateways \cup {Nothing} /\ events' \subseteq {"conflict", "failed", "error"}
  BY <1>1, <1>2, <1>3, <1>4, <1>5 DEF BypassTypeOK, Steps, Journaled
<1>10. QED
  BY <1>2, <1>5, <1>6, <1>7, <1>8, <1>9, SweepKeeps

(* The entry of one destination becomes that of gateway g.                 *)
Entry(n, g) ==
  /\ owner' \in [Nets -> Gateways \cup {Nothing}] /\ owner'[n] = g
  /\ \A m \in Nets \ {n} : owner'[m] = owner[m]
  /\ pending' \subseteq Journaled'
  /\ Journaled' = IF g = Nothing THEN Journaled \ {n} ELSE Journaled \cup {n}

LEMMA JournalsIs ==
  ASSUME BypassAssumption, BypassTypeOK, NEW n \in Nets, NEW g \in Gateways \cup {Nothing}, NEW phase,
         Journals(n, g, phase), phase = "pending" => g # Nothing
  PROVE  Entry(n, g) /\ cache' = cache
<1>1. /\ owner' \in [Nets -> Gateways \cup {Nothing}] /\ owner'[n] = g
      /\ \A m \in Nets \ {n} : owner'[m] = owner[m]
  BY DEF Journals, BypassTypeOK
<1>2. Journaled' = IF g = Nothing THEN Journaled \ {n} ELSE Journaled \cup {n}
  BY <1>1 DEF Journaled
<1>3. pending' \subseteq Journaled' /\ cache' = cache
  BY <1>2 DEF Journals, BypassTypeOK
<1>4. QED
  BY <1>1, <1>2, <1>3 DEF Entry

(* A step of the sweep that leaves the table as it is.                     *)
Looked(n, g) ==
  /\ Entry(n, g) /\ dest' = n /\ UNCHANGED <<table, gateway, desired, cache>>
  /\ sweep # "sleep" /\ sweep' \in Steps \ {"sleep", "added"}
  /\ seen' = seen \/ seen' = table
  /\ sweep = "added" => seen' = table
  /\ g # Nothing /\ owner[n] = Nothing => n \in desired /\ g = gateway
  /\ table[n] \in Gateways => g = table[n]
  /\ \/ unswept' = unswept
     \/ unswept' = unswept \ {n} /\ (~ snapshot.enabled /\ events' = {} => g = Nothing)
  /\ events' \subseteq {"conflict", "failed", "error"} /\ events \subseteq events'

LEMMA LooksKeeps ==
  ASSUME BypassAssumption, BypassInv, InSweep, NEW n \in Nets, NEW g \in Gateways \cup {Nothing},
         Looked(n, g), Entered'
  PROVE  BypassInv'
<1>1. BypassTypeOK /\ BypassSafe /\ EveryRouteIsJournaled
  BY DEF BypassInv, BypassSafe
<1> USE DEF Entry, Looked
<1>2. snapshot' = snapshot
  BY DEF InSweep, root
<1>3. EveryRouteIsJournaled'
  BY <1>1 DEF EveryRouteIsJournaled
<1>4. ReadIsOurs'
  BY DEF BypassInv, ReadIsOurs
<1>5. WillFit'
  <2>1. CASE Journaled' \subseteq Journaled
    <3> PICK all \in SUBSET Nets : all = desired \cup Journaled
      BY <1>1 DEF BypassTypeOK, Journaled
    <3> PICK now \in SUBSET Nets : now = desired' \cup Journaled'
      BY <2>1, <1>1 DEF BypassTypeOK, Journaled
    <3>1. now \in SUBSET all /\ Cardinality(all) <= MaxRoutes
      BY <2>1 DEF BypassInv, WillFit
    <3>2. Cardinality(all) \in Nat /\ Cardinality(now) <= Cardinality(all) /\ IsFiniteSet(now)
      BY <3>1, Smaller
    <3>3. Cardinality(now) \in Nat
      BY <3>2, FS_CardinalityType
    <3>4. QED
      BY <3>1, <3>2, <3>3 DEF BypassAssumption, WillFit
  <2>2. CASE ~ (Journaled' \subseteq Journaled)
    <3>1. desired' \cup Journaled' = desired \cup Journaled
      BY <2>2 DEF Journaled
    <3>2. QED
      BY <3>1 DEF BypassInv, WillFit
  <2>3. QED
    BY <2>1, <2>2
<1>6. Undoing'
  <2>1. ~ snapshot.enabled => desired = {} /\ (events = {} => Journaled \subseteq unswept) /\ (owner[n] = Nothing => g = Nothing)
    BY DEF BypassInv, Undoing
  <2>2. ASSUME ~ snapshot.enabled, events' = {}
        PROVE  Journaled' \subseteq unswept'
    <3>1. events = {} /\ Journaled \subseteq unswept /\ Journaled' \subseteq Journaled
      BY <2>1, <2>2 DEF Journaled
    <3>2. QED
      BY <3>1, <2>2
  <2>3. QED
    BY <1>2, <2>1, <2>2 DEF Undoing
<1>7. /\ table' \in [Nets -> Rows] /\ seen' \in [Nets -> Rows] /\ cache' \subseteq Nets /\ Cardinality(cache') <= MaxRoutes
      /\ unswept' \subseteq Nets /\ gateway' \in Gateways \cup {Nothing} /\ desired' \subseteq Nets
  BY <1>1 DEF BypassTypeOK, BypassSafe, JournalFits
<1>8. QED
  BY <1>3, <1>4, <1>5, <1>6, <1>7, SweepKeeps

(* An entry that is left as it is.                                         *)
LEMMA EntryStays ==
  ASSUME BypassTypeOK, UNCHANGED <<owner, pending>>, NEW n \in Nets
  PROVE  owner[n] \in Gateways \cup {Nothing} /\ Entry(n, owner[n])
  BY DEF BypassTypeOK, Journaled, Entry

LEMMA LooksKeep ==
  ASSUME BypassAssumption, BypassInv, Looks
  PROVE  BypassInv'
<1>1. BypassTypeOK /\ BypassSafe /\ EveryRouteIsJournaled /\ ReadIsOurs
  BY DEF BypassInv, BypassSafe
<1> PICK n \in First(unswept) : Unproven(n) \/ Replaced(n) \/ Retire(n) \/ Settled(n) \/ Missing(n)
  BY DEF Looks
<1>2. n \in Nets /\ n \in unswept
  BY <1>1 DEF First, BypassTypeOK
<1>3. InSweep /\ sweep = "look" /\ UNCHANGED <<gateway, desired, table>>
  BY DEF Looks, Keep
<1>4. owner[n] \in Gateways \cup {Nothing} /\ (table[n] \in Gateways => owner[n] = table[n])
  BY <1>1, <1>2 DEF BypassTypeOK, EveryRouteIsJournaled
<1>5. events \subseteq {"conflict", "failed", "error"}
  BY <1>1 DEF BypassTypeOK
<1>6. CASE Unproven(n)
  <2>1. /\ UNCHANGED <<owner, pending, cache, seen>> /\ dest' = n /\ sweep' = "look" /\ unswept' = unswept \ {n}
        /\ events' = events \cup {"conflict"}
    BY <1>6 DEF Unproven, NextNet, journal
  <2>2. Entered' /\ events' # {}
    BY <2>1 DEF Entered
  <2> PICK g \in Gateways \cup {Nothing} : g = owner[n]
    BY <1>4
  <2>3. Entry(n, g)
    BY <1>1, <1>2, <2>1, EntryStays
  <2>4. Looked(n, g)
    BY <1>1, <1>2, <1>3, <1>4, <1>5, <2>1, <2>2, <2>3 DEF Looked, Steps
  <2>5. QED
    BY <1>2, <1>3, <2>2, <2>4, LooksKeeps
<1>7. CASE Settled(n)
  <2>1. /\ UNCHANGED <<owner, pending, cache, seen>> /\ dest' = n /\ sweep' = "look" /\ unswept' = unswept \ {n}
        /\ events' = events /\ n \in desired
    BY <1>7 DEF Settled, Unwanted, NextNet, journal
  <2>2. Entered' /\ snapshot.enabled
    BY <1>2, <1>3, <2>1 DEF Entered, BypassInv, Undoing
  <2> PICK g \in Gateways \cup {Nothing} : g = owner[n]
    BY <1>4
  <2>3. Entry(n, g)
    BY <1>1, <1>2, <2>1, EntryStays
  <2>4. Looked(n, g)
    BY <1>1, <1>2, <1>3, <1>4, <1>5, <2>1, <2>2, <2>3 DEF Looked, Steps
  <2>5. QED
    BY <1>2, <1>3, <2>2, <2>4, LooksKeeps
<1>8. CASE Missing(n)
  <2>1. /\ UNCHANGED <<owner, pending, cache, seen, unswept, events>> /\ dest' = n /\ sweep' = "want" /\ owner[n] = Nothing
    BY <1>8 DEF Missing, journal
  <2>2. Entered'
    BY <2>1 DEF Entered
  <2> PICK g \in Gateways \cup {Nothing} : g = owner[n]
    BY <1>4
  <2>3. Entry(n, g)
    BY <1>1, <1>2, <2>1, EntryStays
  <2>4. Looked(n, g)
    BY <1>1, <1>2, <1>3, <1>4, <1>5, <2>1, <2>2, <2>3 DEF Looked, Steps
  <2>5. QED
    BY <1>2, <1>3, <2>2, <2>4, LooksKeeps
<1>9. CASE Retire(n) /\ table[n] = owner[n]
  <2>1. /\ UNCHANGED <<owner, pending, cache, seen, unswept, events>> /\ dest' = n /\ sweep' = "delete" /\ owner[n] # Nothing
    BY <1>9 DEF Retire, Proven, journal
  <2>2. Entered'
    BY <1>3, <1>9, <2>1 DEF Entered
  <2> PICK g \in Gateways \cup {Nothing} : g = owner[n]
    BY <1>4
  <2>3. Entry(n, g)
    BY <1>1, <1>2, <2>1, EntryStays
  <2>4. Looked(n, g)
    BY <1>1, <1>2, <1>3, <1>4, <1>5, <2>1, <2>2, <2>3 DEF Looked, Steps
  <2>5. QED
    BY <1>2, <1>3, <2>2, <2>4, LooksKeeps
<1>10. CASE Replaced(n) \/ (Retire(n) /\ table[n] # owner[n])
  <2>1. /\ Journals(n, Nothing, "owned") /\ UNCHANGED <<seen, unswept, events>> /\ dest' = n /\ sweep' = "want"
    BY <1>10 DEF Replaced, Retire
  <2>2. table[n] \notin Gateways
    <3>1. CASE Replaced(n)
      <4>1. table[n] \in Gateways => seen[n] = table[n] /\ owner[n] = table[n]
        BY <1>1, <1>2, <1>3, <1>4 DEF ReadIsOurs
      <4>2. QED
        BY <3>1, <4>1 DEF Replaced, BypassAssumption
    <3>2. CASE table[n] # owner[n]
      BY <3>2, <1>4
    <3>3. QED
      BY <1>10, <3>1, <3>2
  <2> PICK g \in Gateways \cup {Nothing} : g = Nothing
    OBVIOUS
  <2>3. Entry(n, g) /\ cache' = cache
    BY <1>1, <1>2, <2>1, JournalsIs
  <2>4. Entered'
    BY <2>1, <2>3 DEF Entered, Entry
  <2>5. Looked(n, g)
    BY <1>1, <1>2, <1>3, <1>5, <2>1, <2>2, <2>3, <2>4 DEF Looked, Steps
  <2>6. QED
    BY <1>2, <1>3, <2>4, <2>5, LooksKeeps
<1>11. QED
  BY <1>6, <1>7, <1>8, <1>9, <1>10

LEMMA CheckDeletedKeeps ==
  ASSUME BypassAssumption, BypassInv, CheckDeleted
  PROVE  BypassInv'
<1>1. BypassTypeOK /\ BypassSafe /\ EveryRouteIsJournaled
  BY DEF BypassInv, BypassSafe
<1>2. /\ InSweep /\ sweep = "deleted" /\ seen' = table /\ Deleted /\ UNCHANGED <<gateway, desired, table>>
  BY DEF CheckDeleted, Keep
<1> PICK n \in Nets : n = dest
  BY <1>1 DEF BypassTypeOK
<1>3. owner[n] \in Gateways \cup {Nothing} /\ (table[n] \in Gateways => owner[n] = table[n])
  BY <1>1 DEF BypassTypeOK, EveryRouteIsJournaled
<1>4. events \subseteq {"conflict", "failed", "error"}
  BY <1>1 DEF BypassTypeOK
<1>5. CASE table[n] = owner[n]
  <2>1. /\ UNCHANGED <<owner, pending, cache>> /\ dest' = n /\ sweep' = "look" /\ unswept' = unswept \ {n}
        /\ events' = events \cup {"failed"}
    BY <1>2, <1>5 DEF Deleted, NextNet, journal
  <2>2. Entered' /\ events' # {}
    BY <2>1 DEF Entered
  <2> PICK g \in Gateways \cup {Nothing} : g = owner[n]
    BY <1>3
  <2>3. Entry(n, g)
    BY <1>1, <1>2, <2>1, EntryStays
  <2>4. Looked(n, g)
    BY <1>1, <1>2, <1>3, <1>4, <2>1, <2>2, <2>3 DEF Looked, Steps
  <2>5. QED
    BY <1>2, <2>2, <2>4, LooksKeeps
<1>6. CASE table[n] # owner[n]
  <2>1. /\ Journals(n, Nothing, "owned") /\ UNCHANGED <<unswept, dest, events>> /\ sweep' = "want"
    BY <1>2, <1>6 DEF Deleted
  <2> PICK g \in Gateways \cup {Nothing} : g = Nothing
    OBVIOUS
  <2>3. Entry(n, g) /\ cache' = cache
    BY <1>1, <2>1, JournalsIs
  <2>4. Entered'
    BY <2>1, <2>3 DEF Entered, Entry
  <2>5. Looked(n, g)
    BY <1>1, <1>2, <1>3, <1>4, <1>6, <2>1, <2>3, <2>4 DEF Looked, Steps
  <2>6. QED
    BY <1>2, <2>4, <2>5, LooksKeeps
<1>7. QED
  BY <1>5, <1>6

LEMMA WantKeeps ==
  ASSUME BypassAssumption, BypassInv, Want
  PROVE  BypassInv'
<1>1. BypassTypeOK /\ BypassSafe /\ EveryRouteIsJournaled
  BY DEF BypassInv, BypassSafe
<1>2. /\ InSweep /\ sweep = "want" /\ UNCHANGED <<gateway, desired, table>>
  BY DEF Want, Keep
<1> PICK n \in Nets : n = dest
  BY <1>1 DEF BypassTypeOK
<1>3. owner[n] = Nothing /\ table[n] \notin Gateways
  BY <1>1, <1>2 DEF BypassInv, Entered, EveryRouteIsJournaled, BypassAssumption
<1>4. events \subseteq {"conflict", "failed", "error"} /\ gateway \in Gateways \cup {Nothing}
  BY <1>1 DEF BypassTypeOK
<1>5. CASE ~ (n \in desired /\ gateway # Nothing) \/ table[n] # Nothing
  <2>1. /\ UNCHANGED <<owner, pending, cache>> /\ dest' = n /\ sweep' = "look" /\ unswept' = unswept \ {n}
        /\ seen' = seen \/ seen' = table
        /\ events' = events \/ events' = events \cup {"conflict"}
    BY <1>5 DEF Want, Wanted, NextNet, journal
  <2>2. Entered'
    BY <2>1 DEF Entered
  <2> PICK g \in Gateways \cup {Nothing} : g = Nothing
    OBVIOUS
  <2>3. Entry(n, g)
    BY <1>1, <1>3, <2>1, EntryStays
  <2>4. Looked(n, g)
    BY <1>1, <1>2, <1>3, <1>4, <2>1, <2>2, <2>3 DEF Looked, Steps
  <2>5. QED
    BY <1>2, <2>2, <2>4, LooksKeeps
<1>6. CASE n \in desired /\ gateway # Nothing /\ table[n] = Nothing
  <2>1. /\ Journals(n, gateway, "pending") /\ UNCHANGED <<unswept, dest, events>> /\ sweep' = "add" /\ seen' = table
    BY <1>6 DEF Want, Wanted
  <2> PICK g \in Gateways \cup {Nothing} : g = gateway
    BY <1>4
  <2>3. Entry(n, g) /\ cache' = cache
    BY <1>1, <1>6, <2>1, JournalsIs
  <2>4. Entered'
    BY <1>2, <1>6, <2>1, <2>3 DEF Entered, Entry
  <2>5. Looked(n, g)
    BY <1>1, <1>2, <1>3, <1>4, <1>6, <2>1, <2>3, <2>4 DEF Looked, Steps
  <2>6. QED
    BY <1>2, <2>4, <2>5, LooksKeeps
<1>7. QED
  BY <1>5, <1>6

LEMMA CheckAddedKeeps ==
  ASSUME BypassAssumption, BypassInv, CheckAdded
  PROVE  BypassInv'
<1>1. BypassTypeOK /\ BypassSafe /\ EveryRouteIsJournaled
  BY DEF BypassInv, BypassSafe
<1>2. /\ InSweep /\ sweep = "added" /\ seen' = table /\ UNCHANGED <<gateway, desired, table>>
  BY DEF CheckAdded, Keep
<1> PICK n \in Nets : n = dest
  BY <1>1 DEF BypassTypeOK
<1>3. owner[n] = gateway /\ gateway # Nothing /\ (table[n] \in Gateways => owner[n] = table[n])
      /\ snapshot.enabled
  BY <1>1, <1>2 DEF BypassInv, Entered, EveryRouteIsJournaled, Undoing
<1>4. events \subseteq {"conflict", "failed", "error"} /\ gateway \in Gateways \cup {Nothing}
  BY <1>1 DEF BypassTypeOK
<1> PICK g \in Gateways \cup {Nothing} : g = gateway
  BY <1>4
<1>5. CASE table[n] # gateway
  <2>1. /\ UNCHANGED <<owner, pending, cache>> /\ dest' = n /\ sweep' = "look" /\ unswept' = unswept \ {n}
        /\ events' = events \cup {"failed"}
    BY <1>5 DEF CheckAdded, NextNet, journal
  <2>2. Entered'
    BY <2>1 DEF Entered
  <2>3. Entry(n, g)
    BY <1>1, <1>3, <2>1, EntryStays
  <2>4. Looked(n, g)
    BY <1>1, <1>2, <1>3, <1>4, <2>1, <2>2, <2>3 DEF Looked, Steps
  <2>5. QED
    BY <1>2, <2>2, <2>4, LooksKeeps
<1>6. CASE table[n] = gateway
  <2>1. /\ Journals(n, gateway, "owned") /\ dest' = n /\ sweep' = "look" /\ unswept' = unswept \ {n} /\ events' = events
    BY <1>6 DEF CheckAdded, NextNet
  <2>3. Entry(n, g) /\ cache' = cache
    BY <1>1, <2>1, JournalsIs
  <2>4. Entered'
    BY <2>1 DEF Entered, Entry
  <2>5. Looked(n, g)
    BY <1>1, <1>2, <1>3, <1>4, <2>1, <2>3, <2>4 DEF Looked, Steps
  <2>6. QED
    BY <1>2, <2>4, <2>5, LooksKeeps
<1>7. QED
  BY <1>5, <1>6

LEMMA DeleteKeeps ==
  ASSUME BypassAssumption, BypassInv, Delete
  PROVE  BypassInv'
<1>1. BypassTypeOK /\ BypassSafe /\ EveryRouteIsJournaled /\ ReadIsOurs
  BY DEF BypassInv, BypassSafe
<1>2. /\ InSweep /\ sweep = "delete" /\ sweep' = "deleted"
      /\ UNCHANGED <<owner, pending, cache, seen, unswept, dest, gateway, desired, events, snapshot>>
  BY DEF Delete, Keep, journal, InSweep, root
<1>3. /\ table' \in [Nets -> Rows]
      /\ \A n \in Nets : table'[n] \in Gateways => table[n] = table'[n]
  BY <1>1 DEF Delete, RouteDelete, BypassTypeOK, BypassAssumption, Rows
<1>4. Journaled' = Journaled
  BY <1>2 DEF Journaled
<1>5. EveryRouteIsJournaled' /\ ReadIsOurs' /\ Entered' /\ WillFit' /\ Undoing'
  BY <1>1, <1>2, <1>3, <1>4 DEF EveryRouteIsJournaled, ReadIsOurs, Entered, WillFit, Undoing, BypassInv
<1>6. /\ seen' \in [Nets -> Rows] /\ owner' \in [Nets -> Gateways \cup {Nothing}]
      /\ pending' \subseteq Journaled' /\ cache' \subseteq Nets /\ Cardinality(cache') <= MaxRoutes
      /\ sweep' \in Steps \ {"sleep"} /\ unswept' \subseteq Nets /\ dest' \in Nets /\ gateway' \in Gateways \cup {Nothing}
      /\ desired' \subseteq Nets /\ events' \subseteq {"conflict", "failed", "error"}
  BY <1>1, <1>2, <1>4 DEF BypassTypeOK, BypassSafe, JournalFits, Steps
<1>7. QED
  BY <1>2, <1>3, <1>5, <1>6, SweepKeeps

LEMMA AddKeeps ==
  ASSUME BypassAssumption, BypassInv, Add
  PROVE  BypassInv'
<1>1. BypassTypeOK /\ BypassSafe /\ EveryRouteIsJournaled /\ ReadIsOurs
  BY DEF BypassInv, BypassSafe
<1>2. /\ InSweep /\ sweep = "add" /\ sweep' = "added"
      /\ UNCHANGED <<owner, pending, cache, seen, unswept, dest, gateway, desired, events, snapshot>>
  BY DEF Add, Keep, journal, InSweep, root
<1>3. gateway # Nothing /\ owner[dest] = gateway /\ dest \in desired /\ gateway \in Gateways /\ dest \in Nets
  BY <1>1, <1>2 DEF BypassInv, Entered, BypassTypeOK
<1>4. /\ table' \in [Nets -> Rows] /\ table'[dest] \in {table[dest], gateway}
      /\ \A n \in Nets \ {dest} : table'[n] = table[n]
  BY <1>1, <1>3 DEF Add, RouteAdd, BypassTypeOK, Rows
<1>5. Journaled' = Journaled
  BY <1>2 DEF Journaled
<1>6. EveryRouteIsJournaled' /\ ReadIsOurs' /\ Entered' /\ WillFit' /\ Undoing'
  BY <1>1, <1>2, <1>3, <1>4, <1>5 DEF EveryRouteIsJournaled, ReadIsOurs, Entered, WillFit, Undoing, BypassInv
<1>7. /\ seen' \in [Nets -> Rows] /\ owner' \in [Nets -> Gateways \cup {Nothing}]
      /\ pending' \subseteq Journaled' /\ cache' \subseteq Nets /\ Cardinality(cache') <= MaxRoutes
      /\ sweep' \in Steps \ {"sleep"} /\ unswept' \subseteq Nets /\ dest' \in Nets /\ gateway' \in Gateways \cup {Nothing}
      /\ desired' \subseteq Nets /\ events' \subseteq {"conflict", "failed", "error"}
  BY <1>1, <1>2, <1>5 DEF BypassTypeOK, BypassSafe, JournalFits, Steps
<1>8. QED
  BY <1>2, <1>4, <1>6, <1>7, SweepKeeps

(* A sweep that is over, has failed or is killed: what it did stays.       *)
LEMMA SleepKeeps ==
  ASSUME BypassAssumption, BypassInv, UNCHANGED <<table, journal, snapshot, installed, seen, dest, gateway, desired,
           saved, wish, applies, others>>,
         sweep' = "sleep", unswept' \subseteq Nets, events' \subseteq {"conflict", "failed", "error"},
         crashes' \in 0..MaxCrashes, late' \subseteq Nets,
         runner' \in {"none", "loop", "once"}, installer' \in {"idle", "write", "once", "boot"},
         request' \in {"none", "activate", "deactivate"}, job' \in BOOLEAN, job' => job,
         OneRunner', UndoneIsClean'
  PROVE  BypassInv'
<1>1. Journaled' = Journaled
  BY DEF Journaled, journal
<1>2. BypassTypeOK'
  BY <1>1 DEF BypassInv, BypassSafe, BypassTypeOK, journal, Steps
<1>3. EveryRouteIsJournaled' /\ JobIsEnabled' /\ JournalFits'
  BY <1>1 DEF BypassInv, BypassSafe, EveryRouteIsJournaled, JobIsEnabled, JournalFits, journal
<1>4. ReadIsOurs' /\ Entered' /\ WillFit' /\ Undoing'
  BY DEF ReadIsOurs, Entered, WillFit, Undoing
<1>5. QED
  BY <1>2, <1>3, <1>4 DEF BypassInv, BypassSafe

LEMMA EndSweepKeeps ==
  ASSUME BypassAssumption, BypassInv, EndSweep
  PROVE  BypassInv'
<1>1. BypassTypeOK /\ BypassSafe /\ OneRunner /\ EveryRouteIsJournaled
  BY DEF BypassInv, BypassSafe
<1>2. /\ runner # "none" /\ sweep = "look" /\ unswept = {} /\ sweep' = "sleep" /\ AfterSweep /\ late' = {}
      /\ UNCHANGED <<table, journal, snapshot, installed, seen, unswept, dest, gateway, desired, events, saved, request,
                     wish, applies, others, crashes, job>>
  BY DEF EndSweep, root
<1>3. events = {} /\ ~ snapshot.enabled => \A n \in Nets : table[n] \notin Gateways
  BY <1>1, <1>2 DEF BypassInv, Undoing, Journaled, EveryRouteIsJournaled, BypassAssumption
<1>4. UndoneIsClean'
  BY <1>2, <1>3 DEF UndoneIsClean
<1>5. /\ OneRunner' /\ runner' \in {"none", "loop", "once"} /\ installer' \in {"idle", "write", "once", "boot"}
      /\ unswept' \subseteq Nets /\ events' \subseteq {"conflict", "failed", "error"}
      /\ crashes' \in 0..MaxCrashes /\ late' \subseteq Nets /\ request' \in {"none", "activate", "deactivate"}
      /\ job' \in BOOLEAN /\ (job' => job)
  BY <1>1, <1>2 DEF OneRunner, AfterSweep, BypassTypeOK
<1>6. QED
  BY <1>2, <1>4, <1>5, SleepKeeps

LEMMA FailingKeeps ==
  ASSUME BypassAssumption, BypassInv, FailSweep \/ TooMany
  PROVE  BypassInv'
<1>1. BypassTypeOK /\ BypassSafe /\ OneRunner
  BY DEF BypassInv, BypassSafe
<1>2. /\ runner # "none" /\ sweep' = "sleep" /\ AfterSweep /\ late' = {} /\ unswept' = {} /\ events' = {"error"}
      /\ UNCHANGED <<table, journal, snapshot, installed, seen, dest, gateway, desired, saved, request,
                     wish, applies, others, job>>
      /\ crashes' = crashes \/ (crashes < MaxCrashes /\ crashes' = crashes + 1)
  BY DEF FailSweep, TooMany, SweepFails, root
<1>3. UndoneIsClean'
  BY <1>2 DEF UndoneIsClean
<1>4. crashes' \in 0..MaxCrashes
  BY <1>1, <1>2 DEF BypassTypeOK, BypassAssumption
<1>5. /\ OneRunner' /\ runner' \in {"none", "loop", "once"} /\ installer' \in {"idle", "write", "once", "boot"}
      /\ unswept' \subseteq Nets /\ events' \subseteq {"conflict", "failed", "error"}
      /\ late' \subseteq Nets /\ request' \in {"none", "activate", "deactivate"}
      /\ job' \in BOOLEAN /\ (job' => job)
  BY <1>1, <1>2 DEF OneRunner, AfterSweep, BypassTypeOK
<1>6. QED
  BY <1>2, <1>3, <1>4, <1>5, SleepKeeps

LEMMA CrashKeeps ==
  ASSUME BypassAssumption, BypassInv, Crash
  PROVE  BypassInv'
<1>1. BypassTypeOK /\ BypassSafe /\ OneRunner
  BY DEF BypassInv, BypassSafe
<1>2. /\ runner # "none" /\ sweep' = "sleep" /\ late' = late /\ unswept' = {} /\ events' = {"error"} /\ runner' = "none"
      /\ UNCHANGED <<table, journal, snapshot, installed, seen, dest, gateway, desired, saved,
                     wish, applies, others, job>>
      /\ crashes < MaxCrashes /\ crashes' = crashes + 1
      /\ installer' \in {installer, "idle"} /\ request' \in {request, "none"}
      /\ installer' = (IF runner = "once" THEN "idle" ELSE installer)
  BY DEF Crash, DaemonKilled, root
<1>3. UndoneIsClean'
  BY <1>2 DEF UndoneIsClean
<1>4. crashes' \in 0..MaxCrashes
  BY <1>1, <1>2 DEF BypassTypeOK, BypassAssumption
<1>5. /\ OneRunner' /\ runner' \in {"none", "loop", "once"} /\ installer' \in {"idle", "write", "once", "boot"}
      /\ unswept' \subseteq Nets /\ events' \subseteq {"conflict", "failed", "error"}
      /\ late' \subseteq Nets /\ request' \in {"none", "activate", "deactivate"}
      /\ job' \in BOOLEAN /\ (job' => job)
  BY <1>1, <1>2 DEF OneRunner, BypassTypeOK
<1>6. QED
  BY <1>2, <1>3, <1>4, <1>5, SleepKeeps

LEMMA StopJobKeeps ==
  ASSUME BypassAssumption, BypassInv, StopJob
  PROVE  BypassInv'
<1>1. BypassTypeOK /\ BypassSafe /\ OneRunner
  BY DEF BypassInv, BypassSafe
<1>2. /\ installer = "idle" /\ installer' = "write" /\ job' = FALSE
      /\ UNCHANGED <<table, journal, snapshot, installed, seen, dest, gateway, desired, saved, request,
                     wish, applies, others, crashes, late>>
      /\ IF runner = "loop" THEN runner' = "none" /\ sweep' = "sleep" /\ unswept' = {} /\ events' = {"error"}
                            ELSE UNCHANGED <<runner, sweep, unswept, events>>
  BY DEF StopJob, DaemonKilled
<1>3. runner # "loop" => sweep = "sleep" /\ runner = "none"
  BY <1>1, <1>2 DEF OneRunner, BypassTypeOK
<1>4. UndoneIsClean' /\ OneRunner'
  BY <1>1, <1>2, <1>3 DEF UndoneIsClean, OneRunner
<1>5. /\ sweep' = "sleep" /\ runner' \in {"none", "loop", "once"} /\ installer' \in {"idle", "write", "once", "boot"}
      /\ unswept' \subseteq Nets /\ events' \subseteq {"conflict", "failed", "error"}
      /\ crashes' \in 0..MaxCrashes /\ late' \subseteq Nets /\ request' \in {"none", "activate", "deactivate"}
      /\ job' \in BOOLEAN /\ (job' => job)
  BY <1>1, <1>2, <1>3 DEF BypassTypeOK
<1>6. QED
  BY <1>2, <1>4, <1>5, SleepKeeps

(* The service, the installer and launchd.                                 *)
LEMMA AskedKeeps ==
  ASSUME BypassAssumption, BypassInv, Activate \/ Deactivate \/ (\E config \in Configs : Update(config))
  PROVE  BypassInv'
<1>1. BypassTypeOK /\ BypassSafe /\ OneRunner
  BY DEF BypassInv, BypassSafe
<1>2. /\ UNCHANGED <<table, journal, sweepVars, late, others, crashes, snapshot, installed, job, runner, installer>>
      /\ applies < MaxApplies /\ applies' = applies + 1
  BY DEF Activate, Deactivate, Update, Idle, Rest, root
<1>3. \A config \in Snapshots, action \in {"activate", "deactivate"} :
         Ask(config, action) => wish' \in Snapshots /\ request' \in {"none", "activate", "deactivate"}
  <2> TAKE config \in Snapshots, action \in {"activate", "deactivate"}
  <2>1. [config EXCEPT !.enabled = (action = "activate")] \in Snapshots
    BY DEF Snapshots
  <2>2. QED
    BY <2>1 DEF Ask
<1>4. Configs \subseteq Snapshots
  BY DEF BypassAssumption, Snapshots
<1>5. saved' \in Snapshots /\ wish' \in Snapshots /\ request' \in {"none", "activate", "deactivate"}
  <2>1. saved \in Snapshots /\ wish \in Snapshots /\ request \in {"none", "activate", "deactivate"}
    BY <1>1 DEF BypassTypeOK
  <2>2. CASE Activate \/ Deactivate
    BY <1>3, <2>1, <2>2 DEF Activate, Deactivate
  <2>3. CASE \E config \in Configs : Update(config)
    BY <1>3, <1>4, <2>1, <2>3 DEF Update
  <2>4. QED
    BY <2>2, <2>3
<1>6. applies' \in 0..MaxApplies
  BY <1>1, <1>2 DEF BypassTypeOK, BypassAssumption
<1>7. /\ snapshot' \in Snapshots /\ installed' \in BOOLEAN /\ job' \in BOOLEAN /\ runner' \in {"none", "loop", "once"}
      /\ installer' \in {"idle", "write", "once", "boot"} /\ (job' => snapshot'.enabled /\ installed')
      /\ OneRunner' /\ snapshot' = snapshot /\ installer' = installer
  BY <1>1, <1>2 DEF BypassTypeOK, BypassSafe, JobIsEnabled, OneRunner, sweepVars
<1>8. QED
  BY <1>2, <1>5, <1>6, <1>7, OutsideKeeps

LEMMA InstallingKeeps ==
  ASSUME BypassAssumption, BypassInv, LoopStarts \/ Refused \/ WriteSnapshot \/ Repair \/ Bootstrap
  PROVE  BypassInv'
<1>1. BypassTypeOK /\ BypassSafe /\ OneRunner
  BY DEF BypassInv, BypassSafe
<1>2. /\ UNCHANGED <<table, journal, sweepVars, late, others, crashes>> /\ UNCHANGED <<saved, wish, applies>>
  BY DEF LoopStarts, Refused, WriteSnapshot, KeepJournal, Repair, Bootstrap, serviceVars
<1>3. /\ snapshot' = snapshot \/ sweep = "sleep"
      /\ snapshot' \in Snapshots /\ installed' \in BOOLEAN /\ job' \in BOOLEAN /\ runner' \in {"none", "loop", "once"}
      /\ installer' \in {"idle", "write", "once", "boot"} /\ (job' => snapshot'.enabled /\ installed')
      /\ OneRunner' /\ (installer' = "boot" => installer = "boot" /\ snapshot' = snapshot)
      /\ saved' \in Snapshots /\ wish' \in Snapshots /\ request' \in {"none", "activate", "deactivate"} /\ applies' \in 0..MaxApplies
  <2>1. CASE LoopStarts
    BY <1>1, <1>2, <2>1 DEF LoopStarts, BypassTypeOK, BypassSafe, JobIsEnabled, OneRunner, sweepVars, root, serviceVars
  <2>2. CASE Refused
    BY <1>1, <1>2, <2>2 DEF Refused, BypassTypeOK, BypassSafe, JobIsEnabled, OneRunner, sweepVars, root
  <2>3. CASE WriteSnapshot
    BY <1>1, <1>2, <2>3 DEF WriteSnapshot, BypassTypeOK, BypassSafe, JobIsEnabled, OneRunner, sweepVars
  <2>4. CASE Repair
    BY <1>1, <1>2, <2>4 DEF Repair, BypassTypeOK, BypassSafe, JobIsEnabled, OneRunner, sweepVars, root, serviceVars
  <2>5. CASE Bootstrap
    <3>1. snapshot.enabled \in BOOLEAN
      BY <1>1 DEF BypassTypeOK, Snapshots
    <3>2. QED
      BY <1>1, <1>2, <2>5, <3>1 DEF Bootstrap, Boot, BypassTypeOK, BypassSafe, JobIsEnabled, OneRunner, sweepVars
  <2>6. QED
    BY <2>1, <2>2, <2>3, <2>4, <2>5
<1>4. QED
  BY <1>2, <1>3, OutsideKeeps

LEMMA BypassInvKept ==
  ASSUME BypassAssumption, BypassInv, [BypassNext]_bvars
  PROVE  BypassInv'
<1>1. CASE UNCHANGED bvars
  <2>1. BypassTypeOK /\ BypassSafe /\ OneRunner
    BY DEF BypassInv, BypassSafe
  <2>2. UNCHANGED <<table, journal, sweepVars, late, others, crashes, root, runner, serviceVars>>
    BY <1>1 DEF bvars
  <2>3. /\ snapshot' = snapshot
        /\ snapshot' \in Snapshots /\ installed' \in BOOLEAN /\ job' \in BOOLEAN /\ runner' \in {"none", "loop", "once"}
        /\ installer' \in {"idle", "write", "once", "boot"} /\ (job' => snapshot'.enabled /\ installed')
        /\ OneRunner' /\ (installer' = "boot" => installer = "boot" /\ snapshot' = snapshot)
        /\ saved' \in Snapshots /\ wish' \in Snapshots /\ request' \in {"none", "activate", "deactivate"} /\ applies' \in 0..MaxApplies
    BY <2>1, <2>2 DEF BypassTypeOK, BypassSafe, JobIsEnabled, OneRunner, sweepVars, root, serviceVars
  <2>4. QED
    BY <2>2, <2>3, OutsideKeeps
<1>2. CASE NothingAsked
  BY <1>1, <1>2 DEF NothingAsked
<1>3. CASE Daemon
  BY <1>3, BeginSweepKeeps, LooksKeep, DeleteKeeps, CheckDeletedKeeps, WantKeeps, AddKeeps, CheckAddedKeeps, EndSweepKeeps,
     FailingKeeps, InstallingKeeps DEF Daemon
<1>4. CASE FailSweep \/ Crash \/ Installer \/ Refused
  BY <1>4, FailingKeeps, CrashKeeps, StopJobKeeps, InstallingKeeps DEF Installer
<1>5. CASE Activate \/ Deactivate \/ (\E config \in Configs : Update(config))
  BY <1>5, AskedKeeps
<1>6. CASE \E n \in Nets, row \in {Nothing, Foreign} : Others(n, row)
  BY <1>6, DestinationsChange
<1>7. QED
  BY <1>1, <1>2, <1>3, <1>4, <1>5, <1>6 DEF BypassNext

(* What BypassSafe says, of every reachable state.                         *)
THEOREM BypassIsSafe ==
  ASSUME BypassAssumption PROVE BypassSpec => []BypassSafe
<1>1. BypassInit => BypassInv
  BY BypassInitKeeps
<1>2. BypassInv /\ [BypassNext]_bvars => BypassInv'
  BY BypassInvKept
<1>3. BypassInv => BypassSafe
  BY DEF BypassInv
<1>4. QED
  BY <1>1, <1>2, <1>3, PTL DEF BypassSpec

(* OthersUntouched of every step.                                          *)
THEOREM ForeignRoutesStay ==
  ASSUME BypassAssumption PROVE BypassSpec => [][OthersUntouched]_bvars
<1>1. BypassInit => BypassInv
  BY BypassInitKeeps
<1>2. BypassInv /\ [BypassNext]_bvars => BypassInv'
  BY BypassInvKept
<1>3. ASSUME BypassInv, BypassNext
      PROVE  OthersUntouched
  <2>1. BypassTypeOK
    BY <1>3 DEF BypassInv, BypassSafe
  <2>2. CASE Delete
    <3>1. dest \in Nets /\ owner[dest] \in Gateways /\ (table[dest] = owner[dest] \/ dest \in late)
      BY <1>3, <2>1, <2>2 DEF Delete, BypassInv, Entered, BypassTypeOK
    <3>2. \A n \in Nets \ {dest} : table'[n] = table[n]
      BY <2>1, <2>2 DEF Delete, RouteDelete, BypassTypeOK
    <3>3. QED
      BY <3>1, <3>2 DEF OthersUntouched, BypassAssumption
  <2>3. CASE Add
    BY <2>1, <2>3 DEF Add, RouteAdd, BypassTypeOK, OthersUntouched, BypassAssumption
  <2>4. CASE table' = table
    BY <2>4 DEF OthersUntouched
  <2>5. CASE \E n \in Nets, row \in {Nothing, Foreign} : Others(n, row)
    BY <2>5 DEF Others, OthersUntouched
  <2>6. Delete \/ Add \/ table' = table \/ \E n \in Nets, row \in {Nothing, Foreign} : Others(n, row)
    BY <1>3 DEF BypassNext, Daemon, Installer, BeginSweep, Looks, CheckDeleted, Want, CheckAdded, EndSweep, TooMany,
       SweepFails, FailSweep, Crash, LoopStarts, StopJob, WriteSnapshot, Repair, Bootstrap, Refused, Activate,
       Deactivate, Update, Rest, NothingAsked, bvars
  <2>7. QED
    BY <2>2, <2>3, <2>4, <2>5, <2>6
<1>4. QED
  BY <1>1, <1>2, <1>3, PTL DEF BypassSpec
=============================================================================

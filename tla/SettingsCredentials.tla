------------------------ MODULE SettingsCredentials ------------------------
(***************************************************************************)
(* services/settings.py: operations that change both config.json and the   *)
(* Keychain, which no transaction covers.  They run one at a time, under   *)
(* the locks of ConfigStore; every commit and every call of the Keychain   *)
(* is a step, may fail, and the process may die after it.                  *)
(***************************************************************************)
EXTENDS Naturals, FiniteSets

CONSTANTS
  Legacy,    \* libraries of the old configuration, with the ids they keep
  Fresh,     \* ids that create_library may draw
  Moves,     \* bound: addresses of one library, numbered in the order it has them
  Imports,   \* bound: attempts to import
  Failures,  \* bound: failed commits, reads and calls of the Keychain
  Crashes,   \* bound: deaths of the process
  MaxRev,    \* bound: no operation begins at a later revision
  NoLib

Libs == Legacy \cup Fresh

SettingsAssumption ==
  /\ IsFiniteSet(Libs) /\ NoLib \notin Libs /\ Legacy \cap Fresh = {}
  /\ Moves \in Nat \ {0} /\ Imports \in Nat /\ Failures \in Nat /\ Crashes \in Nat /\ MaxRev \in Nat

VARIABLES
  disk,     \* config.json: [rev, imp, written, origin, meta]
  copy,     \* tx.config of the operation under way
  chain,    \* library -> the address its stored PAT was given for; 0: no PAT
  op,       \* the operation under way
  up,       \* the process runs
  bound     \* what is left: [imports, faults, crashes, fresh]

pvars == <<disk, copy, chain, op, up, bound>>

Ats == {"idle", "import", "values", "record", "fail", "decline", "create", "createSet",
        "meta", "rollback", "put", "move", "swap", "swapCommit", "check", "restore",
        "drop", "mark", "pending", "unlist", "unindex", "erase", "removed"}

(* lib, new: the library and its new address; old: the PAT to restore;     *)
(* todo: libraries still to do; found and written: PATs that an import has *)
(* found and stored; keep: keep_pat                                        *)
Idle == [at |-> "idle", lib |-> NoLib, new |-> 0, old |-> 0, todo |-> {}, found |-> {}, written |-> {}, keep |-> FALSE]
ConfigSet ==
  [rev: Nat, imp: {"none", "in_progress", "failed", "completed", "declined"}, written: SUBSET Libs,
   origin: [Libs -> 0..Moves], meta: [Libs -> {"none", "live", "pending"}]]

SettingsTypeOK ==
  /\ disk \in ConfigSet /\ copy \in ConfigSet
  /\ chain \in [Libs -> 0..Moves]
  /\ op \in [at: Ats, lib: Libs \cup {NoLib}, new: 0..Moves, old: 0..Moves,
             todo: SUBSET Libs, found: SUBSET Libs, written: SUBSET Libs, keep: BOOLEAN]
  /\ up \in BOOLEAN
  /\ bound \in [imports: 0..Imports, faults: 0..Failures, crashes: 0..Crashes, fresh: SUBSET Fresh]

SettingsInit ==
  /\ disk = [rev |-> 1, imp |-> "none", written |-> {},
             origin |-> [l \in Libs |-> 0], meta |-> [l \in Libs |-> "none"]]
  /\ copy = disk
  /\ chain = [l \in Libs |-> 0]
  /\ op = Idle
  /\ up = TRUE
  /\ bound = [imports |-> Imports, faults |-> Failures, crashes |-> Crashes, fresh |-> Fresh]

-----------------------------------------------------------------------------
Faulted == bound.faults > 0 /\ bound' = [bound EXCEPT !.faults = @ - 1]
At(place) == up /\ op.at = place
Then(place) == [op EXCEPT !.at = place]

(* tx.commit.  When it raises, the file may have been replaced all the     *)
(* same, and tx.config is the configuration before.                        *)
Commits(config, next, otherwise) ==
  LET candidate == [config EXCEPT !.rev = copy.rev + 1] IN
    /\ \/ /\ disk' = candidate /\ copy' = candidate
          /\ op' = next
          /\ UNCHANGED bound
       \/ /\ Faulted
          /\ disk' \in {disk, candidate}
          /\ op' = otherwise
          /\ UNCHANGED copy
    /\ UNCHANGED up

(* _set and, with 0, _delete; an entry that is missing counts as deleted.  *)
Keychain(lib, pat) == [chain EXCEPT ![lib] = pat]

Stores(lib, pat, next, otherwise) ==
  /\ \/ /\ chain' = Keychain(lib, pat)
        /\ op' = next
        /\ UNCHANGED bound
     \/ /\ Faulted
        /\ op' = otherwise
        /\ UNCHANGED chain
  /\ UNCHANGED <<disk, copy, up>>

(* An operation has both locks and the configuration of the file.          *)
Opens(operation) ==
  /\ At("idle") /\ disk.rev < MaxRev
  /\ copy' = disk
  /\ op' = operation
  /\ UNCHANGED <<disk, chain, up>>

Has(lib) == disk.origin[lib] # 0
Closed == disk.imp \notin {"none", "failed"}

-----------------------------------------------------------------------------
(* execute: found are the libraries of which the old Keychain has a PAT.   *)
ImportBegins(found) ==
  /\ bound.imports > 0 /\ bound' = [bound EXCEPT !.imports = @ - 1]
  /\ ~Closed /\ \A l \in Libs : ~Has(l)
  /\ Opens([Idle EXCEPT !.at = "import", !.todo = found, !.found = found, !.written = disk.written])

ImportStarts ==
  /\ At("import")
  /\ Commits([copy EXCEPT !.imp = "in_progress", !.written = @ \cup Legacy], Then("values"), Idle)
  /\ UNCHANGED chain

ImportStores(lib) ==
  /\ At("values") /\ lib \in op.todo
  /\ Stores(lib, 1, [op EXCEPT !.at = "record", !.lib = lib], Then("fail"))

ImportRecords ==
  /\ At("record")
  /\ LET done == [op EXCEPT !.written = @ \cup {op.lib}, !.todo = @ \ {op.lib}, !.lib = NoLib] IN
       Commits([copy EXCEPT !.written = done.written],
               [done EXCEPT !.at = "values"], [done EXCEPT !.at = "fail"])
  /\ UNCHANGED chain

ImportFinishes ==
  /\ At("values") /\ op.todo = {}
  /\ \/ Commits([copy EXCEPT !.imp = "completed", !.written = op.written,
                           !.origin = [l \in Libs |-> IF l \in Legacy THEN 1 ELSE 0],
                           !.meta = [l \in Libs |-> IF l \in op.written THEN "live" ELSE "none"]],
                Idle, Then("fail"))
     \/ /\ Faulted
        /\ op' = Then("fail")
        /\ UNCHANGED <<disk, copy, up>>
  /\ UNCHANGED chain

ImportFails ==
  /\ At("fail")
  /\ Commits([copy EXCEPT !.imp = "failed", !.written = op.written], Idle, Idle)
  /\ UNCHANGED chain

DeclineBegins ==
  /\ ~Closed
  /\ Opens([Idle EXCEPT !.at = "decline", !.todo = disk.written])
  /\ UNCHANGED bound

DeclineDeletes(lib) ==
  /\ At("decline") /\ lib \in op.todo
  /\ Stores(lib, 0, [op EXCEPT !.todo = @ \ {lib}], Idle)

DeclineEnds ==
  /\ At("decline") /\ op.todo = {}
  /\ Commits([copy EXCEPT !.imp = "declined", !.written = {},
                        !.meta = [l \in Libs |-> IF l \in copy.written THEN "none" ELSE @[l]]],
             Idle, Idle)
  /\ UNCHANGED chain

-----------------------------------------------------------------------------
(* create_library, with a PAT (new = 1) or without.                        *)
CreateBegins(lib, pat) ==
  /\ lib \in bound.fresh /\ bound' = [bound EXCEPT !.fresh = @ \ {lib}]
  /\ Opens([Idle EXCEPT !.at = "create", !.lib = lib, !.new = pat])

Creates ==
  /\ At("create")
  /\ Commits([copy EXCEPT !.origin[op.lib] = 1], IF op.new = 1 THEN Then("createSet") ELSE Idle, Idle)
  /\ UNCHANGED chain

CreateStores == At("createSet") /\ Stores(op.lib, 1, Then("meta"), Then("rollback"))

RollsBack ==
  /\ At("rollback")
  /\ Commits([copy EXCEPT !.origin[op.lib] = 0, !.meta[op.lib] = "none"], Idle, Idle)
  /\ UNCHANGED chain

PutBegins(lib) ==
  /\ Has(lib)
  /\ Opens([Idle EXCEPT !.at = "put", !.lib = lib, !.new = disk.origin[lib]])
  /\ UNCHANGED bound

Puts == At("put") /\ Stores(op.lib, op.new, Then("meta"), Idle)

RecordsMeta ==
  /\ At("meta")
  /\ Commits([copy EXCEPT !.meta[op.lib] = "live"], Idle, Idle)
  /\ UNCHANGED chain

(* patch_library: a new PAT, keep_pat, or neither and then no PAT is       *)
(* stored; the address may stay as it is.                                  *)
PatchBegins(lib, new, pat, keep) ==
  /\ Has(lib) /\ new \in disk.origin[lib]..disk.origin[lib] + 1 /\ new <= Moves
  /\ pat \/ keep \/ new = disk.origin[lib] \/ chain[lib] = 0
  /\ Opens([Idle EXCEPT !.at = IF pat THEN "swap" ELSE "move", !.lib = lib, !.new = new,
                         !.old = chain[lib], !.keep = keep])
  /\ UNCHANGED bound

(* With keep_pat the user gives the stored PAT for the new address.        *)
Moved ==
  /\ At("move")
  /\ Commits([copy EXCEPT !.origin[op.lib] = op.new], Idle, Idle)
  /\ chain' = IF op.keep /\ chain[op.lib] # 0 /\ disk'.origin[op.lib] = op.new
                THEN Keychain(op.lib, op.new) ELSE chain

SwapStores == At("swap") /\ Stores(op.lib, op.new, Then("swapCommit"), Idle)

SwapCommits ==
  /\ At("swapCommit")
  /\ Commits([copy EXCEPT !.origin[op.lib] = op.new, !.meta[op.lib] = "live"], Idle, Then("check"))
  /\ UNCHANGED chain

(* The file says whether the change took place; if it cannot be read, the  *)
(* PAT is deleted.                                                         *)
SwapChecks ==
  /\ At("check")
  /\ \/ /\ copy' = disk
        /\ op' = IF disk.origin[op.lib] = op.new THEN Idle ELSE Then("restore")
        /\ UNCHANGED bound
     \/ /\ Faulted
        /\ op' = Then("drop")
        /\ UNCHANGED copy
  /\ UNCHANGED <<disk, chain, up>>

Restores == At("restore") /\ Stores(op.lib, op.old, Idle, Then("drop"))
Drops    == At("drop") /\ Stores(op.lib, 0, Then("mark"), Then("mark"))

(* mark_pending: never a stale snapshot over an uncertain commit.          *)
Marks ==
  /\ At("mark")
  /\ \/ /\ copy' = disk
        /\ op' = Then("pending")
        /\ UNCHANGED bound
     \/ /\ Faulted
        /\ op' = Idle
        /\ UNCHANGED copy
  /\ UNCHANGED <<disk, chain, up>>

MarksPending ==
  /\ At("pending")
  /\ Commits([copy EXCEPT !.meta[op.lib] = "pending"], Idle, Idle)
  /\ UNCHANGED chain

-----------------------------------------------------------------------------
(* delete_library, delete_pat and delete_orphan end in _remove_credential. *)
DeleteBegins(lib, place) ==
  /\ \/ place \in {"unlist", "unindex"} /\ Has(lib)
     \/ place = "unindex" /\ IF disk.meta[lib] = "none" THEN lib \in disk.written
                             ELSE disk.meta[lib] = "pending" \/ ~Has(lib)
  /\ Opens([Idle EXCEPT !.at = place, !.lib = lib])
  /\ UNCHANGED bound

Unlists ==
  /\ At("unlist")
  /\ Commits([copy EXCEPT !.origin[op.lib] = 0, !.meta[op.lib] = "pending"], Then("unindex"), Idle)
  /\ UNCHANGED chain

Unindexes ==
  /\ At("unindex")
  /\ Commits([copy EXCEPT !.meta[op.lib] = "pending"], Then("erase"), Idle)
  /\ UNCHANGED chain

Erases == At("erase") /\ Stores(op.lib, 0, Then("removed"), Idle)

Removed ==
  /\ At("removed")
  /\ Commits([copy EXCEPT !.meta[op.lib] = "none", !.written = @ \ {op.lib}], Idle, Idle)
  /\ UNCHANGED chain

-----------------------------------------------------------------------------
SettingsDie ==
  /\ up /\ bound.crashes > 0 /\ bound' = [bound EXCEPT !.crashes = @ - 1]
  /\ up' = FALSE /\ op' = Idle
  /\ UNCHANGED <<disk, copy, chain>>

(* The lifespan of app.py: an interrupted import has failed.               *)
Boots ==
  /\ ~up /\ up' = TRUE
  /\ \/ /\ disk.imp = "in_progress"
        /\ disk' = [disk EXCEPT !.imp = "failed", !.rev = @ + 1]
        /\ UNCHANGED bound
     \/ /\ disk.imp = "in_progress" /\ Faulted
        /\ UNCHANGED disk
     \/ /\ disk.imp # "in_progress"
        /\ UNCHANGED <<disk, bound>>
  /\ UNCHANGED <<copy, chain, op>>

Importing == ImportStarts \/ ImportRecords \/ ImportFinishes \/ ImportFails \/ DeclineEnds
Changing  == Creates \/ CreateStores \/ RollsBack \/ Puts \/ RecordsMeta \/ Moved
Swapping  == SwapStores \/ SwapCommits \/ SwapChecks \/ Restores \/ Drops \/ Marks \/ MarksPending
Removing  == Unlists \/ Unindexes \/ Erases \/ Removed

SettingsNext ==
  \/ \E found \in SUBSET Legacy : ImportBegins(found)
  \/ DeclineBegins \/ Importing \/ Changing \/ Swapping \/ Removing \/ SettingsDie \/ Boots
  \/ \E l \in Libs :
       \/ ImportStores(l) \/ DeclineDeletes(l) \/ PutBegins(l)
       \/ \E pat \in 0..1 : CreateBegins(l, pat)
       \/ \E new \in 1..Moves, pat, keep \in BOOLEAN : PatchBegins(l, new, pat, keep)
       \/ \E place \in {"unlist", "unindex"} : DeleteBegins(l, place)

SettingsSpec == SettingsInit /\ [][SettingsNext]_pvars

-----------------------------------------------------------------------------
(* "no old PAT can reach a new origin": whatever fails, and wherever the   *)
(* process dies, a stored PAT was given for the library's address or for a *)
(* later one.                                                              *)
NoOldPat == \A l \in Libs : Has(l) /\ chain[l] # 0 => chain[l] >= disk.origin[l]

(* No secret is left in the Keychain that the credentials page does not    *)
(* list: it belongs to a library, to an index entry or to an import.  (An  *)
(* import that completes drops the entries of libraries that were deleted  *)
(* before: see the README.)                                                *)
SecretIndexed ==
  \A l \in Libs : chain[l] # 0 =>
     Has(l) \/ disk.meta[l] # "none" \/ l \in disk.written \/ (l \in Fresh /\ disk.imp = "completed")

(* "Retry/decline safely owns it": a declined import leaves no PAT behind. *)
DeclineClean == disk.imp = "declined" => \A l \in Legacy : chain[l] = 0

(* A completed import has every PAT it found, stored and indexed.          *)
ImportWhole ==
  disk'.imp = "completed" /\ disk.imp # "completed" =>
     \A l \in op.found : chain[l] # 0 /\ disk'.meta[l] = "live"

(* Every commit takes a revision that no earlier configuration had.        *)
RevisionForward == disk' # disk => disk'.rev > disk.rev

(* "completed/declined" is where an import ends.                           *)
ImportFinal == disk.imp \in {"completed", "declined"} => disk'.imp = disk.imp

(* Both of every step but one: an import writes that it failed over a      *)
(* commit that it could not confirm (see the README).                      *)
CredentialsStep == ImportWhole /\ (op.at # "fail" => RevisionForward /\ ImportFinal)

(* Every PAT is that of its library's address or of a later one, and known *)
(* to the configuration.  (An import of two libraries that is interrupted  *)
(* leaves a PAT: see the README.)                                          *)
CredentialsSafe ==
  /\ SettingsTypeOK /\ NoOldPat
  /\ Cardinality(Legacy) <= 1 => SecretIndexed /\ DeclineClean
=============================================================================

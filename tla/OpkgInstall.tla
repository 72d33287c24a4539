---------------------------- MODULE OpkgInstall ----------------------------
(***************************************************************************)
(* The package transaction engine of opkg: what `opkg install`, `opkg      *)
(* upgrade`, `opkg remove` and `opkg configure` do to the file system and  *)
(* to the package database, one package after the other, with a failing    *)
(* script or archive, SIGINT or the death of the process at any point.     *)
(*                                                                         *)
(* One pkg_t (one version of one package) is an element of Pkg.  On disk   *)
(* there are the data files, the <name>.list files and maintainer scripts  *)
(* of info_dir and the status file.  In memory there are the pkg_t's       *)
(* status, file_hash (which package owns a file), obs_file_hash, the       *)
(* SF_FILELIST_CHANGED flags and opkg_state_changed.                       *)
(*                                                                         *)
(* Which packages a command handles, and in which order, is the solver's   *)
(* choice: here it is any choice the guards of the callers allow.          *)
(***************************************************************************)
EXTENDS FiniteSets, Naturals

CONSTANTS
  Pkg,              \* the pkg_t's: versions of packages
  Names,            \* package names
  File,             \* paths of regular files
  name,             \* [Pkg -> Names]
  version,          \* [Pkg -> Nat], ordered as pkg_compare_versions orders
  Worlds,           \* the worlds opkg may find itself in, see world
  NoPkg,            \* NULL: no package; also "no file here"
  User              \* contents that come from no package

FaultKinds == {"prepare", "script", "extract", "list"}
CrashPoints == {"running", "writing"}
Statuses == {"not-installed", "unpacked", "half-installed", "installed"}

\* What the packages say, what is on disk at first, the options, what may fail.
World ==
  [available : SUBSET Pkg,          \* the pkg_t's of the feeds
   files : [Pkg -> SUBSET File],    \* the data archive of each version
   replaces : [Pkg -> SUBSET Names],
   dependency : SUBSET Pkg,         \* the pkg_t's another package depends on
   expendable : SUBSET Pkg,         \* what an install may remove
   noPrune : SUBSET Pkg,            \* flagged noprune by `opkg flag`
   userFiles : SUBSET File,         \* files that no package put where they are
   forceOverwrite : BOOLEAN,        \* --force-overwrite
   overwriteNoOwner : BOOLEAN,      \* option overwrite_no_owner
   batch : BOOLEAN,                 \* may one command handle several packages?
   faults : SUBSET FaultKinds,      \* what may fail
   interrupts : BOOLEAN,            \* may SIGINT arrive?
   crashes : SUBSET CrashPoints]    \* where the process may die

ASSUME ConstantsOK ==
  /\ name \in [Pkg -> Names]
  /\ version \in [Pkg -> Nat]
  /\ Worlds \subseteq World

ASSUME NullIsNoPackage == NoPkg \notin Pkg /\ User \notin Pkg /\ NoPkg # User

VARIABLES
  world,    \* the world this is; it does not change
  disk,     \* whose contents each path holds
  lists,    \* the files named in info_dir/<name>.list
  scripts,  \* whose maintainer scripts info_dir/<name>.* are
  db,       \* the status file: the recorded status of each pkg_t
  status,   \* pkg_t.state_status
  owner,    \* file_hash
  obs,      \* keys of obs_file_hash
  changed,  \* the pkg_t's with SF_FILELIST_CHANGED
  dirty,    \* opkg_state_changed > 0
  cmd,      \* the command the process runs
  pc,       \* where it is
  cur,      \* the package being installed or removed
  old,      \* old_pkg of opkg_install_pkg
  todo,     \* files the current loop has still to handle
  pending,  \* packages the configure loop has still to handle
  verdict   \* how the last package operation of the command ended

onDisk  == <<disk, lists, scripts, db>>
inMem   == <<status, owner, obs, changed, dirty>>
control == <<cmd, pc, cur, old, todo, pending, verdict>>
vars    == <<world, onDisk, inMem, control>>

Steps == {"off", "ready", "stop", "prepared", "owned", "preinst", "clashes",
          "postrm", "prune", "oldfiles", "newscripts", "extract",
          "removing", "removed", "configuring"}
Verdicts == {"none", "ok", "failed", "uptodate", "removed"}

TypeOK ==
  /\ world \in Worlds
  /\ disk \in [File -> Pkg \union {NoPkg, User}]
  /\ lists \in [Names -> SUBSET File]
  /\ scripts \in [Names -> Pkg \union {NoPkg}]
  /\ db \in [Pkg -> Statuses]
  /\ status \in [Pkg -> Statuses]
  /\ owner \in [File -> Pkg \union {NoPkg}]
  /\ obs \subseteq File
  /\ changed \subseteq Pkg
  /\ dirty \in BOOLEAN
  /\ cmd \in {"none", "install", "remove", "configure"}
  /\ pc \in Steps
  /\ cur \in Pkg \union {NoPkg}
  /\ old \in Pkg \union {NoPkg}
  /\ todo \subseteq File
  /\ pending \subseteq Pkg
  /\ verdict \in Verdicts

(***************************************************************************)
(* Lookups.                                                                *)
(***************************************************************************)
InPlace == {"installed", "unpacked"}

\* pkg_hash_fetch_installed_by_name: the version of n that is installed,
\* unpacked or half-installed, NoPkg if there is none.
Recorded(s, n) == {p \in Pkg : name[p] = n /\ s[p] # "not-installed"}
Fetched(n) == IF Recorded(status, n) = {} THEN {NoPkg} ELSE Recorded(status, n)

\* pkg_get_installed_files: the archive's names for a package that is not
\* installed, otherwise its .list file (a missing one reads as empty).
FileList(p) == IF status[p] = "not-installed" THEN world.files[p] ELSE lists[name[p]]

\* pkg_replaces
Replaces(p, q) == name[q] \in world.replaces[p]

Owned(o, p) == {f \in File : o[f] = p}

\* Mutant: the owner check of remove_data_files_and_list dropped.
RemovableByList(p) == FileList(p)

\* What remove_data_files_and_list removes: the files of p's list that
\* file_hash still gives to p.
Removable(p) == {f \in FileList(p) : owner[f] = p}

\* file_hash_set_file_owner over the files of F: the loser and the winner of
\* a file that already had an owner are marked to have their lists written.
Claim(F, p) == [f \in File |-> IF f \in F THEN p ELSE owner[f]]
Losers(F)   == {owner[f] : f \in F} \ {NoPkg}

\* Mutants: a first owner counted as a loser; the loser not marked.
FlaggedWithNull(F, p) == {owner[f] : f \in F} \union {p}
FlaggedWinner(F, p) == IF Losers(F) = {} THEN {} ELSE {p}

Flagged(F, p) == IF Losers(F) = {} THEN {} ELSE Losers(F) \union {p}

(***************************************************************************)
(* Starting a process: load the status file, and for install, upgrade and  *)
(* remove give every listed file an owner (pkg_info_preinstall_check).     *)
(* When two lists name one file, the package hashed last gets it.          *)
(***************************************************************************)
Claimants(f) == {p \in Pkg : db[p] \in InPlace /\ f \in lists[name[p]]}

StartCommand(c) ==
  /\ pc = "off"
  /\ cmd' = c
  /\ status' = db
  /\ IF c = "configure"
     THEN /\ owner' = [f \in File |-> NoPkg]
          /\ changed' = {}
          /\ pc' = "configuring"
          /\ pending' = {p \in Pkg : db[p] = "unpacked"}
     ELSE /\ owner' \in [File -> Pkg \union {NoPkg}]
          /\ \A f \in File : IF Claimants(f) = {} THEN owner'[f] = NoPkg
                                                  ELSE owner'[f] \in Claimants(f)
          /\ changed' = UNION {Claimants(f) : f \in {g \in File :
                                 \E p, q \in Claimants(g) : p # q}}
          /\ pc' = "ready"
          /\ UNCHANGED pending
  /\ UNCHANGED <<world, onDisk, obs, dirty, cur, old, todo, verdict>>

(***************************************************************************)
(* opkg_install_pkg.                                                       *)
(***************************************************************************)

\* The space check, the dependency check, the download and the extraction of
\* the control archive come before anything is changed, and may fail.
PrepareMayFail == "prepare" \in world.faults

\* pkg_run_script: a script that is there may fail.
ScriptMayFail(p) == "script" \in world.faults /\ scripts[name[p]] # NoPkg

\* The callers' loops over the packages of the command.
NextPackage == pc = "ready" /\ (world.batch \/ verdict = "none")

\* The request names the version that is recorded already:
\* opkg_prepare_install_by_name reports "up to date" and returns 0.
UpToDate(p) ==
  /\ NextPackage /\ cmd = "install"
  /\ p \in Fetched(name[p])
  /\ cur' = p
  /\ verdict' = "uptodate"
  /\ UNCHANGED <<world, onDisk, inMem, cmd, pc, old, todo, pending>>

\* The solver hands p over: a request for a new or newer version, or a
\* dependency that is neither installed nor unpacked.  Then old_pkg is looked
\* up; a failure of the preparations leaves everything as it was.
StartInstall(p) ==
  /\ NextPackage /\ cmd = "install"
  /\ p \in world.available /\ status[p] \notin InPlace
  /\ \E q \in Fetched(name[p]) :
       /\ \/ q = NoPkg
          \/ q # NoPkg /\ version[q] < version[p]
          \/ q = p /\ p \in world.dependency
       /\ \/ old' = q /\ pc' = "prepared" /\ verdict' = "none"
          \/ PrepareMayFail /\ verdict' = "failed" /\ UNCHANGED <<old, pc>>
  /\ cur' = p
  /\ UNCHANGED <<world, onDisk, inMem, cmd, todo, pending>>

\* Mutants: the owner check dropped; the old version's files left to it.
TakesAll == FileList(cur)
TakesUnowned == {f \in FileList(cur) : owner[f] = NoPkg}

\* The files the new package takes without asking: those that nobody, its old
\* version or an obsolete list owns.
Takes == {f \in FileList(cur) : owner[f] \in {NoPkg, old} \/ f \in obs}

\* update_file_ownership: take them; the old version's other files become
\* obsolete.  SIGINT is not blocked yet.
UpdateOwnership ==
  /\ pc = "prepared"
  /\ owner' = Claim(Takes, cur)
  /\ changed' = changed \union Flagged(Takes, cur)
  /\ obs' = obs \union
       IF old = NoPkg THEN {}
       ELSE {f \in FileList(old) : owner'[f] \in {NoPkg, old}}
  /\ pc' = "owned"
  /\ UNCHANGED <<world, onDisk, status, dirty, cmd, cur, old, todo, pending, verdict>>

\* Mutant: the old version not retired.
SettleKeepingOld(s) == [status EXCEPT ![cur] = s]

\* The statuses opkg_install_pkg leaves: first pkg's, then old_pkg's.
Settle(s) == IF old = NoPkg THEN [status EXCEPT ![cur] = s]
             ELSE [status EXCEPT ![cur] = s, ![old] = "not-installed"]

\* pkg_is_hosed: pkg is half-installed, old_pkg is not installed, and
\* state_flag = SF_REINSTREQ drops SF_FILELIST_CHANGED.
Hosed(ch) ==
  /\ status' = Settle("half-installed")
  /\ changed' = ch \ {cur}
  /\ verdict' = "failed"
  /\ old' = NoPkg
  /\ todo' = {}
  /\ pc' = "ready"

\* Block SIGINT, count a state change, run "prerm upgrade" of the old version.
PrermUpgrade ==
  /\ pc = "owned"
  /\ dirty' = TRUE
  /\ \/ /\ pc' = "preinst"
        /\ changed' = changed \union {cur}
        /\ UNCHANGED <<status, verdict, old, todo>>
     \/ /\ old # NoPkg /\ ScriptMayFail(old)
        /\ Hosed(changed)
  /\ UNCHANGED <<world, onDisk, owner, obs, cmd, cur, pending>>

\* Run preinst of the new version and back up modified conffiles.
Preinst ==
  /\ pc = "preinst"
  /\ \/ pc' = "clashes" /\ UNCHANGED <<status, changed, verdict, old, todo>>
     \/ "script" \in world.faults /\ Hosed(changed)
  /\ UNCHANGED <<world, onDisk, owner, obs, dirty, cmd, cur, pending>>

\* Mutant: the clash check dropped.
NoClashes == {}

\* The files of cur's list that are on disk and that nothing allows it to take.
Clashes ==
  {f \in FileList(cur) :
     /\ disk[f] # NoPkg
     /\ f \notin obs
     /\ IF owner[f] = NoPkg THEN ~world.overwriteNoOwner
        ELSE /\ name[owner[f]] # name[cur]
             /\ ~Replaces(cur, owner[f])
             /\ old # NoPkg => name[owner[f]] # name[old]}

\* check_data_file_clashes.  With --force-overwrite the files change hands here.
CheckClashes ==
  /\ pc = "clashes"
  /\ LET here == {f \in FileList(cur) : world.forceOverwrite /\ disk[f] # NoPkg}
         ch   == changed \union Flagged(here, cur)
     IN /\ owner' = Claim(here, cur)
        /\ IF world.forceOverwrite \/ Clashes = {}
           THEN /\ pc' = "postrm"
                /\ changed' = ch
                /\ UNCHANGED <<status, verdict, old, todo>>
           ELSE Hosed(ch)
  /\ UNCHANGED <<world, onDisk, obs, dirty, cmd, cur, pending>>

\* Run "postrm upgrade" of the old version: the last step that can unwind.
PostrmUpgrade ==
  /\ pc = "postrm"
  /\ \/ /\ pc' = IF old = NoPkg THEN "newscripts" ELSE "prune"
        /\ UNCHANGED <<status, changed, verdict, old, todo>>
     \/ /\ old # NoPkg /\ ScriptMayFail(old)
        /\ Hosed(changed)
  /\ UNCHANGED <<world, onDisk, owner, obs, dirty, cmd, cur, pending>>

\* remove_obsolesced_files, skipped for a noprune package, and the start of
\* remove_data_files_and_list(old_pkg).
RemoveObsolete ==
  /\ pc = "prune"
  /\ LET gone == IF old \in world.noPrune THEN {}
                                         ELSE Removable(old) \ FileList(cur)
     IN disk' = [f \in File |-> IF f \in gone THEN NoPkg ELSE disk[f]]
  /\ todo' = Removable(old)
  /\ pc' = "oldfiles"
  /\ UNCHANGED <<world, lists, scripts, db, inMem, cmd, cur, old, pending, verdict>>

\* One turn of the loop of remove_data_files_and_list, for the old version of
\* an upgrade and for a removed package alike.
RemoveFile(f) ==
  /\ pc \in {"oldfiles", "removing"}
  /\ f \in todo
  /\ disk' = [disk EXCEPT ![f] = NoPkg]
  /\ owner' = [owner EXCEPT ![f] = NoPkg]
  /\ todo' = todo \ {f}
  /\ UNCHANGED <<world, lists, scripts, db, status, obs, changed, dirty,
                 cmd, pc, cur, old, pending, verdict>>

\* The old version's list and scripts go.
RemoveOldInfo ==
  /\ pc = "oldfiles" /\ todo = {}
  /\ lists' = [lists EXCEPT ![name[old]] = {}]
  /\ scripts' = [scripts EXCEPT ![name[old]] = NoPkg]
  /\ pc' = "newscripts"
  /\ UNCHANGED <<world, disk, db, inMem, cmd, cur, old, todo, pending, verdict>>

\* install_maintainer_scripts; a failure may leave some of them.
InstallScripts ==
  /\ pc = "newscripts"
  /\ \/ /\ scripts' = [scripts EXCEPT ![name[cur]] = cur]
        /\ pc' = "extract"
        /\ todo' = world.files[cur]
        /\ UNCHANGED <<status, changed, verdict, old>>
     \/ /\ "extract" \in world.faults
        /\ scripts' \in {scripts, [scripts EXCEPT ![name[cur]] = cur]}
        /\ Hosed(changed)
  /\ UNCHANGED <<world, disk, lists, db, owner, obs, dirty, cmd, cur, pending>>

\* pkg_extract_data_files_to_dir, one file at a time.
ExtractFile(f) ==
  /\ pc = "extract" /\ f \in todo
  /\ disk' = [disk EXCEPT ![f] = cur]
  /\ todo' = todo \ {f}
  /\ UNCHANGED <<world, lists, scripts, db, inMem, cmd, pc, cur, old, pending, verdict>>

ExtractFails ==
  /\ pc = "extract"
  /\ \/ "extract" \in world.faults /\ todo # {}
     \/ "list" \in world.faults /\ todo = {}   \* the .list file cannot be opened
  /\ Hosed(changed)
  /\ UNCHANGED <<world, onDisk, owner, obs, dirty, cmd, cur, pending>>

\* pkg_write_filelist, then check_data_file_clashes_change hands over the files
\* of replaced packages, then the new statuses; SIGINT is unblocked.
FinishInstall ==
  /\ pc = "extract" /\ todo = {}
  /\ LET listed == IF status[cur] = "not-installed" THEN world.files[cur]
                                                     ELSE Owned(owner, cur)
         taken == {f \in listed :
                     /\ disk[f] # NoPkg
                     /\ \/ world.forceOverwrite
                        \/ owner[f] # NoPkg /\ Replaces(cur, owner[f])}
     IN /\ owner' = Claim(taken, cur)
        /\ changed' = (changed \ {cur}) \union Flagged(taken, cur)
  /\ lists' = [lists EXCEPT ![name[cur]] = Owned(owner, cur)]
  /\ status' = Settle("unpacked")
  /\ verdict' = "ok"
  /\ old' = NoPkg
  /\ pc' = "ready"
  /\ UNCHANGED <<world, disk, scripts, db, obs, dirty, cmd, cur, todo, pending>>

(***************************************************************************)
(* opkg_remove_pkg, for `opkg remove` and for the orphans and replacees an *)
(* install removes.  SIGINT is never blocked.                              *)
(***************************************************************************)
AfterFailedRemove == IF cmd = "remove" THEN "stop" ELSE "ready"

StartRemove(p) ==
  /\ NextPackage
  /\ \/ cmd = "remove"
     \/ cmd = "install" /\ p \in world.expendable
  /\ status[p] # "not-installed"
  /\ cur' = p
  /\ dirty' = TRUE
  /\ changed' = changed \union {p}
  /\ \/ /\ pc' = "removing"
        /\ todo' = Removable(p)
        /\ verdict' = "none"
     \/ /\ ScriptMayFail(p)   \* prerm
        /\ pc' = AfterFailedRemove
        /\ verdict' = "failed"
        /\ UNCHANGED todo
  /\ UNCHANGED <<world, onDisk, status, owner, obs, cmd, old, pending>>

RemoveList ==
  /\ pc = "removing" /\ todo = {}
  /\ lists' = [lists EXCEPT ![name[cur]] = {}]
  /\ pc' = "removed"
  /\ UNCHANGED <<world, disk, scripts, db, inMem, cmd, cur, old, todo, pending, verdict>>

\* postrm runs, its result is only passed on; the scripts go.
FinishRemove ==
  /\ pc = "removed"
  /\ scripts' = [scripts EXCEPT ![name[cur]] = NoPkg]
  /\ status' = [status EXCEPT ![cur] = "not-installed"]
  /\ \/ verdict' = "removed" /\ pc' = "ready"
     \/ /\ ScriptMayFail(cur)
        /\ verdict' = "failed" /\ pc' = AfterFailedRemove
  /\ UNCHANGED <<world, disk, lists, db, owner, obs, changed, dirty,
                 cmd, cur, old, todo, pending>>

(***************************************************************************)
(* opkg_configure_packages, the end of every command but remove.           *)
(***************************************************************************)
BeginConfigure ==
  /\ pc = "ready" /\ cmd = "install"
  /\ pc' = "configuring"
  /\ pending' = {p \in Pkg : status[p] = "unpacked"}
  /\ cur' = NoPkg
  /\ verdict' = "none"
  /\ UNCHANGED <<world, onDisk, inMem, cmd, old, todo>>

Configure(p) ==
  /\ pc = "configuring" /\ p \in pending
  /\ pending' = pending \ {p}
  /\ \/ status' = [status EXCEPT ![p] = "installed"] /\ dirty' = TRUE
     \/ ScriptMayFail(p) /\ UNCHANGED <<status, dirty>>
  /\ UNCHANGED <<world, onDisk, owner, obs, changed, cmd, pc, cur, old, todo, verdict>>

(***************************************************************************)
(* Leaving: write_status_files_if_changed writes the status file in place, *)
(* then the list of every changed package that is installed or unpacked.   *)
(***************************************************************************)

\* Mutant: packages that are not configured yet left out.
RewrittenConfigured == {p \in changed : status[p] = "installed"}

Rewritten == {p \in changed : status[p] \in InPlace}

\* The lists once the packages of W have had theirs written.
WithLists(W) ==
  [n \in Names |-> IF \E p \in W : name[p] = n
                   THEN UNION {Owned(owner, p) : p \in {q \in W : name[q] = n}}
                   ELSE lists[n]]

Forget ==
  /\ status' = [p \in Pkg |-> "not-installed"]
  /\ owner' = [f \in File |-> NoPkg]
  /\ obs' = {} /\ changed' = {} /\ dirty' = FALSE
  /\ cmd' = "none" /\ pc' = "off"
  /\ cur' = NoPkg /\ old' = NoPkg
  /\ todo' = {} /\ pending' = {}
  /\ verdict' = "none"

WriteAndExit ==
  /\ IF dirty THEN db' = status /\ lists' = WithLists(Rewritten)
              ELSE UNCHANGED <<db, lists>>
  /\ Forget
  /\ UNCHANGED <<world, disk, scripts>>

Exit ==
  /\ \/ pc = "configuring" /\ pending = {}
     \/ pc \in {"ready", "stop"} /\ cmd = "remove"
  /\ WriteAndExit

\* Mutant: SIGINT never blocked.
InterruptibleAlways == Steps \ {"off"}

\* Where SIGINT is not held back: everywhere but between sigprocmask(SIG_BLOCK)
\* and the end of opkg_install_pkg.
Interruptible == {"ready", "stop", "prepared", "owned", "removing", "removed",
                  "configuring"}

\* sigint_handler, installed by every command here but configure.
Interrupt ==
  /\ world.interrupts
  /\ cmd # "configure"
  /\ pc \in Interruptible
  /\ WriteAndExit

\* The process dies: memory is lost, the disk is as it is.
Crash ==
  /\ "running" \in world.crashes
  /\ pc # "off"
  /\ Forget
  /\ UNCHANGED <<world, onDisk>>

\* It dies while it writes: the status file was truncated and holds some of
\* the records, or it is complete and some of the lists are written, one of
\* them perhaps in part.
CrashWhileWriting ==
  /\ "writing" \in world.crashes /\ dirty
  /\ \/ pc = "configuring" /\ pending = {}
     \/ pc \in {"ready", "stop"} /\ cmd = "remove"
  /\ \/ \E S \in SUBSET Pkg :
          db' = [p \in Pkg |-> IF p \in S THEN status[p] ELSE "not-installed"]
        /\ UNCHANGED lists
     \/ /\ db' = status
        /\ \E W \in SUBSET Rewritten, t \in Names, L \in SUBSET File :
             /\ L \subseteq WithLists(Rewritten)[t]
             /\ lists' = [WithLists(W) EXCEPT
                            ![t] = IF \E p \in Rewritten : name[p] = t THEN L ELSE @]
  /\ Forget
  /\ UNCHANGED <<world, disk, scripts>>

Init ==
  /\ world \in Worlds
  /\ disk = [f \in File |-> IF f \in world.userFiles THEN User ELSE NoPkg]
  /\ lists = [n \in Names |-> {}]
  /\ scripts = [n \in Names |-> NoPkg]
  /\ db = [p \in Pkg |-> "not-installed"]
  /\ status = [p \in Pkg |-> "not-installed"]
  /\ owner = [f \in File |-> NoPkg]
  /\ obs = {} /\ changed = {} /\ dirty = FALSE
  /\ cmd = "none" /\ pc = "off"
  /\ cur = NoPkg /\ old = NoPkg
  /\ todo = {} /\ pending = {}
  /\ verdict = "none"

InstallStep ==
  \/ \E p \in Pkg : UpToDate(p)
  \/ \E p \in Pkg : StartInstall(p)
  \/ UpdateOwnership
  \/ PrermUpgrade
  \/ Preinst
  \/ CheckClashes
  \/ PostrmUpgrade
  \/ RemoveObsolete
  \/ RemoveOldInfo
  \/ InstallScripts
  \/ \E f \in File : ExtractFile(f)
  \/ ExtractFails
  \/ FinishInstall

RemoveStep ==
  \/ \E p \in Pkg : StartRemove(p)
  \/ \E f \in File : RemoveFile(f)
  \/ RemoveList
  \/ FinishRemove

ConfigureStep ==
  \/ BeginConfigure
  \/ \E p \in Pkg : Configure(p)

Next ==
  \/ \E c \in {"install", "remove", "configure"} : StartCommand(c)
  \/ InstallStep
  \/ RemoveStep
  \/ ConfigureStep
  \/ Exit
  \/ Interrupt
  \/ Crash
  \/ CrashWhileWriting

Spec == Init /\ [][Next]_vars

(***************************************************************************)
(* Properties.                                                             *)
(***************************************************************************)

\* No name ever has two versions on record, in memory or in the status file:
\* opkg_install_pkg retires the old version in the step that records the new
\* one, whether it succeeded or failed (opkg_install.c:1045, 1078), and no
\* torn status file can bring the other one back.
OneVersionPerName ==
  \A p, q \in Pkg : p # q /\ name[p] = name[q] =>
    /\ ~(status[p] # "not-installed" /\ status[q] # "not-installed")
    /\ ~(db[p] # "not-installed" /\ db[q] # "not-installed")

\* The package the engine is working on, whose files are in flux.
Busy(p) == p \in {cur, old} /\ pc \notin {"off", "ready", "stop", "configuring"}

\* Contents that p's file may legitimately have: p's, or those of a package
\* that replaces it and failed half way, or anything under --force-overwrite.
Acceptable(p, c) == \/ c = p
                    \/ c \in Pkg /\ Replaces(c, p)
                    \/ c \in Pkg /\ world.forceOverwrite

\* The process lives to its end; no package is installed over its own failed
\* installation, as which the engine takes whatever is on the list of its name;
\* each command handles one package.
Survives == world.crashes = {}
NoRetry  == world.dependency = {}
Alone    == Survives /\ NoRetry /\ ~world.batch

\* A file that file_hash gives to an installed package is on disk with that
\* package's contents, at every point of every command.
OwnedFilesInPlace ==
  Survives /\ NoRetry => \A f \in File : LET p == owner[f] IN
    p # NoPkg /\ status[p] \in InPlace /\ ~Busy(p) => Acceptable(p, disk[f])

\* Between two commands every file that the list of an installed package
\* names is on disk with that package's contents.
ListedFilesInPlace ==
  Survives /\ NoRetry /\ pc = "off" =>
    \A p \in Pkg : db[p] \in InPlace =>
      \A f \in lists[name[p]] : Acceptable(p, disk[f])

\* Both: what file_hash and the lists say an installed package has is there.
FilesInPlace == OwnedFilesInPlace /\ ListedFilesInPlace

\* Between two commands no file is on the lists of two installed packages.
ListsDisjoint ==
  Survives /\ pc = "off" => \A p, q \in Pkg :
    p # q /\ db[p] \in InPlace /\ db[q] \in InPlace =>
      lists[name[p]] \intersect lists[name[q]] = {}

\* The scripts in info_dir under the name of an installed package are its own.
ScriptsMatch ==
  Survives => \A p \in Pkg : status[p] \in InPlace /\ ~Busy(p) => scripts[name[p]] = p

\* A package that replaces p may come and take f, or have come and gone with it.
Contested(p, f) ==
  \E q \in world.available : Replaces(q, p) /\ f \in world.files[q]

\* Between two commands every file of an installed package is on its list and
\* on disk, unless a package that replaces it has that file too, files were
\* forced, or SIGINT may stop its removal half way.
InstalledComplete ==
  Alone /\ ~world.interrupts /\ ~world.forceOverwrite /\ pc = "off" =>
    \A p \in Pkg : db[p] \in InPlace =>
      \A f \in world.files[p] :
        Contested(p, f) \/ (f \in lists[name[p]] /\ disk[f] = p)

\* Extraction overwrites a file of an installed package of another name only
\* if the new package replaces it.
Overwrites(f) == LET p == disk[f] IN
  /\ p \in Pkg /\ disk'[f] \in Pkg /\ disk'[f] # p
  /\ status[p] \in InPlace
  /\ name[p] # name[disk'[f]]

Asks == \A f \in File : Overwrites(f) =>
          Replaces(disk'[f], disk[f]) \/ world.forceOverwrite

\* "we do have to check for data file clashes": it does not hold when a command
\* handles several packages, but while each command handles one it does.
NoSilentOverwrite == [][Asks]_vars
NoSilentOverwriteAlone == [][Alone => Asks]_vars

\* The package whose files are being removed.
Leaving == IF pc = "removing" THEN cur ELSE old

\* A file of an installed package disappears only when that package, or the
\* version that supersedes it, is the one being worked on.  In a command that
\* handles several packages it may also go with one whose own installation has
\* failed, as that one keeps what it took from others before it failed.
DeletesOwn ==
  Survives /\ NoRetry => \A f \in File : LET p == disk[f] IN
    p \in Pkg /\ disk'[f] = NoPkg /\ status[p] \in InPlace
      => \/ p \in {cur, old}
         \/ world.batch /\ status[Leaving] = "half-installed"

OnlyOwnFilesDeleted == [][DeletesOwn]_vars

\* "removing files from old package, to avoid ghost files": between two
\* commands no file of an installed package is missing from the lists, where
\* neither `opkg files` nor `opkg remove` would ever find it, unless files were
\* forced.
NoGhostFiles ==
  Alone /\ ~world.forceOverwrite /\ pc = "off" => \A p \in Pkg : db[p] \in InPlace =>
    \A f \in File : disk[f] = p => f \in lists[name[p]]

\* Both: the lists of the installed packages name just what they brought.
ListsComplete == InstalledComplete /\ NoGhostFiles

\* An install that unwinds before it touched the file system has taken no file
\* of another installed package away from it, unless it was forced.
UnwindsClean ==
  Alone /\ ~world.forceOverwrite /\ verdict' = "failed"
  /\ pc \in {"owned", "preinst", "clashes", "postrm"} =>
    \A f \in File, p \in Pkg :
      disk[f] = p /\ name[p] # name[cur] /\ status[p] \in InPlace
        => owner'[f] # cur

UnwindKeepsOwners == [][UnwindsClean]_vars
=============================================================================

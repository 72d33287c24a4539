----------------------------- MODULE Conffiles -----------------------------
(***************************************************************************)
(* The configuration files of one package while its versions come and go:  *)
(* backup_modified_conffiles sets aside what the user changed before an    *)
(* install, resolve_conffiles decides after it whose file stays, and       *)
(* remove_data_files_and_list keeps what the user changed.  Installs fail  *)
(* before and after the point of no return, or die.                        *)
(*                                                                         *)
(* For each path there is the file, its copy <file>-opkg.backup and the    *)
(* maintainer's <file>-opkg.  Equal contents have equal md5sums and only   *)
(* those.                                                                  *)
(***************************************************************************)
EXTENDS Naturals

CONSTANTS
  Version,      \* versions of the package, a set of numbers above 0
  File,         \* the paths
  Content,      \* what a file may hold
  NoFile,       \* no such file; in a record: not a conffile
  Torn,         \* what a copy or an extraction that was cut off leaves
  Worlds        \* records with the fields named below

\* What the versions bring, the options, what may fail, and what users do.
World ==
  [files : [Version -> SUBSET File],      \* the data archive
   conffiles : [Version -> SUBSET File],  \* what its control archive lists
   ships : [Version -> [File -> Content]],  \* the maintainer's contents
   policy : {"keep", "maintainer", "ignore"},  \* force_, ignore_maintainer
   noPrune : BOOLEAN,      \* the versions are flagged noprune
   downgrade : BOOLEAN,    \* --force-downgrade
   faults : SUBSET {"script", "backup", "unwind", "extract"},
   deaths : BOOLEAN,       \* the process may be killed
   edits : SUBSET Content, \* what users write into the files
   careless : BOOLEAN]     \* also while a backup of the file lies about

NoVersion == 0

ASSUME ConffilesOK ==
  /\ Version \subseteq Nat \ {0}
  /\ NoFile \notin Content /\ Torn \in Content
  /\ Worlds \subseteq World

VARIABLES
  world,     \* the world this is; it does not change
  disk, backup, aside,      \* the file, its backup, the maintainer's beside it
  list,      \* what <name>.list names
  recorded, status, sums,   \* the record: version, state, conffiles' md5sums
  pc,        \* where the command is
  cur,       \* the version it installs, NoVersion if it removes
  todo,      \* files the current loop has still to handle
  moving,    \* the file that resolve_conffiles has put aside and not put back
  found,     \* the md5sums resolve_conffiles has taken
  result,    \* "ok", "hosed" or "removed", once the command has come to it
  mine,      \* what the user last made of each file; NoFile: nothing, or removed it
  died       \* has the process been killed: not so far, last, before others ran

dirs == <<disk, backup, aside, list>>
record == <<recorded, status, sums>>
memory == <<pc, cur, todo, moving, found, result>>
vars == <<world, dirs, record, memory, mine, died>>

Place == [File -> Content \union {NoFile}]
Nothing == [f \in File |-> NoFile]

TypeOK ==
  /\ world \in Worlds
  /\ disk \in Place /\ backup \in Place /\ aside \in Place
  /\ list \subseteq File
  /\ recorded \in Version \union {NoVersion}
  /\ status \in {"none", "installed", "half"}
  /\ status = "none" <=> recorded = NoVersion
  /\ sums \in Place
  /\ pc \in {"off", "backup", "clashes", "extract", "resolve", "restore",
            "removing", "done"}
  /\ cur \in Version \union {NoVersion}
  /\ todo \subseteq File /\ moving \in File \union {NoFile}
  /\ found \in Place
  /\ result \in {"none", "ok", "hosed", "removed"}
  /\ mine \in Place /\ died \in {"never", "last", "before"}

Onward == IF died = "never" THEN died ELSE "before"

\* What the process keeps in memory before a command and after it.
Blank(p) ==
  /\ pc' = p /\ cur' = NoVersion /\ todo' = {} /\ moving' = NoFile
  /\ found' = Nothing /\ result' = "none"

Init ==
  /\ world \in Worlds
  /\ disk = Nothing /\ backup = Nothing /\ aside = Nothing
  /\ list = {}
  /\ recorded = NoVersion /\ status = "none" /\ sums = Nothing
  /\ pc = "off" /\ cur = NoVersion /\ todo = {} /\ moving = NoFile
  /\ found = Nothing /\ result = "none"
  /\ mine = Nothing /\ died = "never"

-----------------------------------------------------------------------------
(* The user, between commands.                                             *)

\* A data file of the installed version, which an upgrade may overwrite.
Plain(f) == f \in list /\ sums[f] = NoFile

Writes(f, c) ==
  /\ disk' = [disk EXCEPT ![f] = c]
  /\ mine' = [mine EXCEPT ![f] = c]

\* The user writes a file, or removes it.
Edit(f) ==
  /\ pc = "off" /\ ~Plain(f)
  /\ world.careless \/ backup[f] = NoFile
  /\ \E c \in world.edits \union {NoFile} : c # disk[f] /\ Writes(f, c)
  /\ UNCHANGED <<world, backup, aside, list, record, memory, died>>

\* The user takes the maintainer's version from beside it.
Accept(f) ==
  /\ pc = "off" /\ aside[f] # NoFile /\ ~Plain(f)
  /\ world.careless \/ backup[f] = NoFile
  /\ Writes(f, aside[f])
  /\ aside' = [aside EXCEPT ![f] = NoFile]
  /\ UNCHANGED <<world, backup, list, record, memory, died>>

-----------------------------------------------------------------------------
(* opkg_install_pkg.                                                       *)

\* pkg_info_preinstall_check gives owners to the files of what is in place.
Owned == IF status = "installed" THEN list ELSE {}

\* conffile_has_been_modified, of a file that is there.
Modified(f) == disk[f] # sums[f]

\* opkg_prepare_install_by_name: anything but what is recorded, and an older
\* version only if it is forced.
StartInstall(v) ==
  /\ pc = "off"
  /\ v # recorded /\ (v > recorded \/ world.downgrade)
  /\ pc' = "backup" /\ cur' = v /\ died' = Onward
  /\ UNCHANGED <<world, dirs, record, todo, moving, found, result, mine>>

Hosed == /\ pc' = "done" /\ result' = "hosed"
         /\ todo' = {}
         /\ UNCHANGED <<cur, moving, found>>

\* prerm of the old version or preinst of the new one: nothing to unwind yet.
ScriptFails ==
  /\ pc = "backup" /\ "script" \in world.faults
  /\ Hosed
  /\ UNCHANGED <<world, dirs, record, mine, died>>

\* Mutants: the old version's conffiles are never backed up; all of them always are.
OnlyNewConffiles ==
  {f \in world.conffiles[cur] : disk[f] # NoFile /\ backup[f] = NoFile
                                /\ sums[f] = NoFile}
ModifiedOrNot ==
  {f \in File : disk[f] # NoFile /\
     (sums[f] # NoFile \/ (f \in world.conffiles[cur] /\ backup[f] = NoFile))}

\* Conffiles of the old version if they were modified, and those that only the
\* new one has unless they have a backup.
ToBackUp ==
  {f \in File : disk[f] # NoFile /\
     \/ sums[f] # NoFile /\ Modified(f)
     \/ sums[f] = NoFile /\ f \in world.conffiles[cur] /\ backup[f] = NoFile}

BackUp ==
  /\ pc = "backup"
  /\ backup' = [f \in File |-> IF f \in ToBackUp THEN disk[f] ELSE backup[f]]
  /\ pc' = "clashes"
  /\ UNCHANGED <<world, disk, aside, list, record, cur, todo, moving, found,
                 result, mine, died>>

\* backup_modified_conffiles_unwind: the backups of the old version's conffiles
\* and the new one's go, whoever made them.
Unwound ==
  [f \in File |-> IF sums[f] # NoFile \/ f \in world.conffiles[cur]
                  THEN NoFile ELSE backup[f]]

\* A backup cannot be written; a file clashes, or postrm of the old version fails.
UnwindInstall ==
  /\ \/ pc = "backup" /\ "backup" \in world.faults /\ ToBackUp # {}
     \/ pc = "clashes" /\ "unwind" \in world.faults
  /\ backup' = Unwound
  /\ Hosed
  /\ UNCHANGED <<world, disk, aside, list, record, mine, died>>

\* What goes with the old version: all that the new one does not ship, or, of a
\* noprune package, what is no modified conffile.
Obsolete ==
  {f \in Owned \ world.files[cur] :
     world.noPrune => sums[f] = NoFile \/ ~Modified(f)}

\* The point of no return: remove_obsolesced_files and remove_data_files_and_list,
\* which leaves alone what the new version has taken over.
RemoveOld ==
  /\ pc = "clashes"
  /\ disk' = [f \in File |-> IF f \in Obsolete THEN NoFile ELSE disk[f]]
  /\ list' = {}
  /\ pc' = "extract" /\ todo' = world.files[cur]
  /\ UNCHANGED <<world, backup, aside, record, cur, moving, found, result, mine, died>>

ExtractFile(f) ==
  /\ pc = "extract" /\ f \in todo
  /\ disk' = [disk EXCEPT ![f] = world.ships[cur][f]]
  /\ todo' = todo \ {f}
  /\ UNCHANGED <<world, backup, aside, list, record, pc, cur, moving, found,
                 result, mine, died>>

\* What an extraction that stops leaves: perhaps one file in part.
Stopped == {disk} \union {[disk EXCEPT ![f] = Torn] : f \in todo}

\* Of maintainer scripts, of a file, or of the list, which is written last.
ExtractFails ==
  /\ pc = "extract" /\ "extract" \in world.faults
  /\ disk' \in Stopped
  /\ Hosed
  /\ UNCHANGED <<world, backup, aside, list, record, mine, died>>

FinishExtract ==
  /\ pc = "extract" /\ todo = {}
  /\ list' = world.files[cur]
  /\ pc' = "resolve" /\ todo' = world.conffiles[cur]
  /\ UNCHANGED <<world, disk, backup, aside, record, cur, moving, found, result,
                 mine, died>>

\* The user's file is there and differs from the maintainer's.
Differs(f) == backup[f] # NoFile /\ backup[f] # disk[f]

\* Mutants: the maintainer's file is not kept; the backup is not removed.
SettledOver(f) ==
  /\ disk' = IF Differs(f) THEN [disk EXCEPT ![f] = backup[f]] ELSE disk
  /\ backup' = [backup EXCEPT ![f] = NoFile]
  /\ pc' = "resolve" /\ todo' = todo \ {f}
  /\ UNCHANGED <<aside, moving>>
SettledLeaving(f) ==
  /\ disk' = IF Differs(f) THEN [disk EXCEPT ![f] = backup[f]] ELSE disk
  /\ aside' = IF Differs(f) THEN [aside EXCEPT ![f] = disk[f]] ELSE aside
  /\ pc' = "resolve" /\ todo' = todo \ {f}
  /\ UNCHANGED <<backup, moving>>

\* Whose file stays: the backup takes its place, after the maintainer's has been
\* renamed if it is not to be ignored, or it goes.
Settle(f) ==
  IF Differs(f) /\ world.policy = "keep"
  THEN /\ aside' = [aside EXCEPT ![f] = disk[f]]
       /\ disk' = [disk EXCEPT ![f] = NoFile]
       /\ pc' = "restore" /\ moving' = f
       /\ UNCHANGED <<backup, todo>>
  ELSE /\ disk' = IF Differs(f) /\ world.policy = "ignore"
                  THEN [disk EXCEPT ![f] = backup[f]] ELSE disk
       /\ backup' = [backup EXCEPT ![f] = NoFile]
       /\ pc' = "resolve" /\ todo' = todo \ {f}
       /\ UNCHANGED <<aside, moving>>

\* One turn of resolve_conffiles; the md5sum is taken of what is in place now.
Resolve(f) ==
  /\ pc = "resolve" /\ f \in todo
  /\ found' = [found EXCEPT ![f] = disk[f]]
  /\ IF disk[f] = NoFile
     THEN todo' = todo \ {f} /\ UNCHANGED <<pc, moving, disk, backup, aside>>
     ELSE Settle(f)
  /\ UNCHANGED <<world, list, record, cur, result, mine, died>>

Restore ==
  /\ pc = "restore"
  /\ disk' = [disk EXCEPT ![moving] = backup[moving]]
  /\ backup' = [backup EXCEPT ![moving] = NoFile]
  /\ pc' = "resolve" /\ todo' = todo \ {moving} /\ moving' = NoFile
  /\ UNCHANGED <<world, aside, list, record, cur, found, result, mine, died>>

FinishInstall ==
  /\ pc = "resolve" /\ todo = {}
  /\ pc' = "done" /\ result' = "ok"
  /\ UNCHANGED <<world, dirs, record, cur, todo, moving, found, mine, died>>

-----------------------------------------------------------------------------
(* opkg_remove_pkg.                                                        *)

\* A prerm that fails leaves everything as it was.
StartRemove ==
  /\ pc = "off" /\ recorded # NoVersion
  /\ pc' = "removing" /\ todo' = Owned /\ died' = Onward
  /\ UNCHANGED <<world, dirs, record, cur, moving, found, result, mine>>

\* A conffile that was modified, or is gone.
Spared(f) == sums[f] # NoFile /\ Modified(f)

RemoveFile(f) ==
  /\ pc = "removing" /\ f \in todo
  /\ disk' = IF Spared(f) THEN disk ELSE [disk EXCEPT ![f] = NoFile]
  /\ todo' = todo \ {f}
  /\ UNCHANGED <<world, backup, aside, list, record, pc, cur, moving, found,
                 result, mine, died>>

FinishRemove ==
  /\ pc = "removing" /\ todo = {}
  /\ list' = {}
  /\ pc' = "done" /\ result' = "removed"
  /\ UNCHANGED <<world, disk, backup, aside, record, cur, todo, moving, found,
                 mine, died>>

-----------------------------------------------------------------------------
\* Mutant: the md5sums of the file as the user has it.
RecordedAsIs == [f \in File |-> IF found[f] # NoFile THEN disk[f] ELSE NoFile]

\* The Conffiles field: only a conffile with an md5sum is written.
ConffilesField == IF result = "ok" THEN found ELSE Nothing

\* Mutant: the version of a removed package stays on record.
ExitRemembering ==
  /\ pc = "done"
  /\ recorded' = IF cur = NoVersion THEN recorded ELSE cur
  /\ status' = IF result = "ok" THEN "installed" ELSE IF result = "hosed" THEN "half" ELSE "none"
  /\ sums' = ConffilesField
  /\ Blank("off")
  /\ UNCHANGED <<world, dirs, mine, died>>

\* The status file is written at the end of the command.
Exit ==
  /\ pc = "done"
  /\ recorded' = cur
  /\ status' = CASE result = "ok" -> "installed"
                 [] result = "hosed" -> "half"
                 [] result = "removed" -> "none"
  /\ sums' = ConffilesField
  /\ Blank("off")
  /\ UNCHANGED <<world, dirs, mine, died>>

\* The process is killed; a copy or an extraction may be cut off.
Kill ==
  /\ pc # "off" /\ world.deaths
  /\ disk' \in IF pc = "extract" THEN Stopped ELSE {disk}
  /\ backup' \in {backup} \union
       IF pc # "backup" THEN {}
       ELSE {[f \in File |-> IF f \in S THEN disk[f] ELSE IF f = t THEN Torn
                             ELSE backup[f]] : S \in SUBSET ToBackUp, t \in ToBackUp}
  /\ Blank("off")
  /\ died' = IF died = "never" THEN "last" ELSE "before"
  /\ UNCHANGED <<world, aside, list, record, mine>>

Next ==
  \/ \E f \in File : Edit(f) \/ Accept(f)
  \/ \E v \in Version : StartInstall(v)
  \/ ScriptFails \/ BackUp \/ UnwindInstall \/ RemoveOld
  \/ (\E f \in File : ExtractFile(f)) \/ ExtractFails \/ FinishExtract
  \/ (\E f \in File : Resolve(f)) \/ Restore \/ FinishInstall
  \/ StartRemove \/ (\E f \in File : RemoveFile(f)) \/ FinishRemove
  \/ Exit \/ Kill

Spec == Init /\ [][Next]_vars

-----------------------------------------------------------------------------
(* Properties.                                                             *)

\* Every version that ships f has it as a conffile, and no other one lists it: of
\* such a file resolve_conffiles would record the user's version as its own.
AlwaysConffile(f) ==
  \A v \in Version : f \in world.files[v] <=> f \in world.conffiles[v]

\* A backup of f may be left when a command has ended: by an install that failed
\* past the point of no return, or by a version that has no such conffile.  Such a
\* backup is taken for a new one by the next install, and removed by the next
\* that unwinds.
BackupsOutlive(f) ==
  \/ "extract" \in world.faults
  \/ \E v \in Version : f \notin world.files[v]

\* Where what the user made of f, which is no maintainer's version, must not get
\* lost.
Protected(f) ==
  /\ AlwaysConffile(f)
  /\ mine[f] # NoFile /\ \A v \in Version : mine[f] # world.ships[v][f]
  /\ world.policy # "maintainer"
  /\ BackupsOutlive(f) => /\ ~world.careless
                          /\ world.faults \intersect {"backup", "unwind"} = {}

\* Without force_maintainer what the user last made of a conffile is in place, or
\* in the backup, at every point of every install and removal, also of those that
\* fail; and after the death of the process as long as no other command has run.
EditsSurvive ==
  \A f \in File : Protected(f) /\ died # "before" =>
    mine[f] \in {disk[f], backup[f]}

\* Once a version is installed, what the user last made of its conffile is in place,
\* however often installs of others have failed in between, and though the package
\* was removed meanwhile.
UserVersionWins ==
  \A f \in File :
    /\ Protected(f) /\ died = "never" /\ pc = "off" /\ status = "installed"
    /\ f \in world.files[recorded]
    => disk[f] = mine[f]

\* A conffile that the user did not touch is the installed version's own.
UntouchedFollows ==
  \A f \in File :
    /\ AlwaysConffile(f) /\ world.faults = {} /\ died = "never"
    /\ BackupsOutlive(f) => ~world.careless
    /\ pc = "off" /\ status = "installed" /\ f \in world.files[recorded]
    /\ mine[f] = NoFile
    => disk[f] \in {world.ships[recorded][f], NoFile}

\* After an install the maintainer's version of every conffile is at hand, in place
\* or beside it, even if it had to deal with what others left.
NewVersionAtHand ==
  pc = "done" /\ result = "ok" /\ world.policy # "ignore" =>
    \A f \in world.files[cur] \intersect world.conffiles[cur] :
      world.ships[cur][f] \in {disk[f], aside[f]}

\* No install leaves a backup of what it resolved, which a later one would take for
\* the user's file.
NoBackupLeft ==
  died = "never" /\ pc = "off" /\ status = "installed" =>
    \A f \in world.files[recorded] \intersect world.conffiles[recorded] :
      backup[f] = NoFile

\* Between two commands the conffiles of an installed version are settled: the
\* user's where there is one, the maintainer's otherwise, and nothing set aside.
ConffilesSettled == TypeOK /\ UserVersionWins /\ UntouchedFollows /\ NoBackupLeft
=============================================================================

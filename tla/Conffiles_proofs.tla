-------------------------- MODULE Conffiles_proofs --------------------------
(***************************************************************************)
(* What holds of Conffiles, for any versions, files and contents, and in   *)
(* every world:                                                            *)
(*                                                                         *)
(*   MaintainersVersion      Spec => []NewVersionAtHand                    *)
(*   EditsAreKept            Spec => []EditsSurvive                        *)
(*   Settled                 Spec => []ConffilesSettled                    *)
(*                                                                         *)
(* The properties speak of one moment each; the invariants say at every    *)
(* stage of a command where a conffile is.  Installs follows the           *)
(* maintainer's version from extraction to its place, Recorded ties the    *)
(* list and the md5sums to what the last command left.  Safe follows what  *)
(* the user made of a file into the backup and back, and Follows the file  *)
(* that the user left alone.  Both need NoneLeft: a command finds no       *)
(* backup of an earlier one, which it would take for its own.              *)
(***************************************************************************)
EXTENDS Conffiles, TLAPS

Preparing == {"backup", "clashes", "extract", "resolve", "restore"}

\* What a command has set while it is at each of its stages.
Engaged ==
  /\ pc \in Preparing => cur \in Version /\ result = "none"
  /\ pc \in {"off", "removing"} => cur = NoVersion /\ result = "none"
  /\ pc = "done" => /\ todo = {} /\ result # "none"
                    /\ (cur = NoVersion) <=> (result = "removed")
  /\ pc = "restore" => moving \in todo /\ backup[moving] # NoFile
  /\ pc = "removing" => todo \subseteq Owned
  /\ died = "last" => pc = "off"

TypeInv == TypeOK /\ Engaged

\* An install from the time its files are extracted.
Settling == pc \in {"resolve", "restore"} \/ (pc = "done" /\ result = "ok")

Extracted ==
  pc = "extract" => /\ todo \subseteq world.files[cur]
                    /\ \A f \in world.files[cur] \ todo : disk[f] = world.ships[cur][f]

NothingFound == ~Settling => found = Nothing

\* The conffile that is moved aside is no longer one to be looked at.
Unseen(f) == f \in todo /\ (pc = "restore" => f # moving)

Resolving ==
  Settling =>
    /\ list = world.files[cur]
    /\ todo \subseteq world.conffiles[cur]
    /\ \A f \in File \ world.conffiles[cur] : found[f] = NoFile
    /\ \A f \in world.files[cur] \intersect world.conffiles[cur] :
         /\ Unseen(f) => disk[f] = world.ships[cur][f]
         /\ ~Unseen(f) => found[f] = world.ships[cur][f]
         /\ ~Unseen(f) /\ world.policy # "ignore" => world.ships[cur][f] \in {disk[f], aside[f]}
         /\ f \in todo /\ ~Unseen(f) => aside[f] = world.ships[cur][f]
         /\ f \notin todo => backup[f] = NoFile

Installs == Extracted /\ NothingFound /\ Resolving

\* What the record says of the conffiles, as long as every command ended.
Recorded ==
  died = "never" =>
    /\ status # "installed" => sums = Nothing
    /\ status = "installed" =>
         /\ \A f \in File : sums[f] # NoFile => f \in world.conffiles[recorded]
         /\ \A f \in world.files[recorded] \intersect world.conffiles[recorded] :
              /\ sums[f] = world.ships[recorded][f]
              /\ pc \in {"off", "backup", "removing"} => backup[f] = NoFile
         /\ pc \in {"off", "backup", "clashes", "removing"} => list = world.files[recorded]

NoneLeft ==
  died = "never" /\ pc \in {"off", "backup", "removing", "done"} =>
    \A f \in File : AlwaysConffile(f) /\ ~BackupsOutlive(f) => backup[f] = NoFile

InPlace(f) == disk[f] = mine[f] /\ backup[f] = NoFile
SetAside(f) == backup[f] = mine[f]

\* Where what the user made of f is: before and after the loop of extraction in
\* the backup, if the version ships f.
Safe(f) ==
  /\ InPlace(f) \/ SetAside(f)
  /\ pc = "clashes" => \/ SetAside(f) /\ (~BackupsOutlive(f) => disk[f] = mine[f])
                       \/ f \notin world.files[cur] /\ sums[f] = NoFile
  /\ pc = "extract" /\ f \in world.files[cur] => SetAside(f)
  /\ pc \in {"resolve", "restore"} /\ f \in todo => SetAside(f)

Kept == died = "never" => \A f \in File : Protected(f) => Safe(f)

KeptLast == died = "last" => \A f \in File : Protected(f) => mine[f] \in {disk[f], backup[f]}

\* Where UntouchedFollows speaks of f.
Undisturbed(f) ==
  AlwaysConffile(f) /\ world.faults = {} /\ (BackupsOutlive(f) => ~world.careless)

\* No backup is made of a file that nobody touched, so it comes and goes with the
\* versions.
Follows(f) ==
  /\ backup[f] = NoFile
  /\ pc \in {"off", "backup", "clashes", "removing"} => disk[f] \in {NoFile, sums[f]}
  /\ (pc = "extract" \/ Settling) /\ f \notin world.files[cur] => disk[f] = NoFile
  /\ Settling /\ f \in world.files[cur] \ todo => disk[f] = world.ships[cur][f]
  /\ pc = "removing" /\ f \notin todo => disk[f] = NoFile
  /\ pc = "done" => result # "hosed" /\ (result = "removed" => disk[f] = NoFile)

Untouched ==
  died = "never" => \A f \in File : Undisturbed(f) /\ mine[f] = NoFile => Follows(f)

IInv == /\ TypeInv /\ Installs /\ Recorded
        /\ NoneLeft /\ Kept /\ KeptLast /\ Untouched

(***************************************************************************)
(* Types and stages.                                                       *)
(***************************************************************************)
LEMMA WorldType ==
  ASSUME TypeOK
  PROVE  /\ world.files \in [Version -> SUBSET File]
         /\ world.conffiles \in [Version -> SUBSET File]
         /\ world.ships \in [Version -> [File -> Content]]
         /\ world.edits \subseteq Content
         /\ NoVersion \notin Version
  BY ConffilesOK DEF TypeOK, World, NoVersion

LEMMA WorldFixed == [Next]_vars => world' = world
  BY DEF Next, vars, Edit, Accept, StartInstall, ScriptFails, BackUp, UnwindInstall,
     RemoveOld, ExtractFile, ExtractFails, FinishExtract, Resolve, Restore, FinishInstall,
     StartRemove, RemoveFile, FinishRemove, Exit, Kill

LEMMA TypeStep == TypeInv /\ [Next]_vars => TypeInv'
<1> SUFFICES ASSUME TypeInv, [Next]_vars PROVE TypeInv'
  OBVIOUS
<1>a. /\ TypeOK /\ Engaged /\ NoVersion \notin Version /\ NoFile \notin Content
      /\ Torn \in Content /\ Nothing \in Place
      /\ \A v \in Version : world.files[v] \subseteq File /\ world.conffiles[v] \subseteq File
      /\ \A v \in Version : world.ships[v] \in [File -> Content]
  BY WorldType, ConffilesOK DEF TypeInv, Nothing, Place
<1>b. \A d \in Stopped : d \in Place
  BY <1>a DEF Stopped, TypeOK, Place
<1> USE DEF TypeInv, Engaged, TypeOK, Preparing, dirs, record, memory
<1>1. ASSUME NEW f \in File, Edit(f) PROVE TypeInv'
  BY <1>a, <1>1, WorldType DEF Edit, Writes, Place
<1>2. ASSUME NEW f \in File, Accept(f) PROVE TypeInv'
  BY <1>a, <1>2 DEF Accept, Writes, Place
<1>3. ASSUME NEW v \in Version, StartInstall(v) PROVE TypeInv'
  BY <1>a, <1>3 DEF StartInstall, Onward
<1>4. CASE ScriptFails
  BY <1>a, <1>4 DEF ScriptFails, Hosed
<1>5. CASE BackUp
  BY <1>a, <1>5 DEF BackUp, Place
<1>6. CASE UnwindInstall
  BY <1>a, <1>6 DEF UnwindInstall, Unwound, Hosed, Place
<1>7. CASE RemoveOld
  BY <1>a, <1>7 DEF RemoveOld, Place
<1>8. ASSUME NEW f \in File, ExtractFile(f) PROVE TypeInv'
  BY <1>a, <1>8 DEF ExtractFile, Place
<1>9. CASE ExtractFails
  BY <1>a, <1>b, <1>9 DEF ExtractFails, Hosed
<1>10. CASE FinishExtract
  BY <1>a, <1>10 DEF FinishExtract
<1>11. ASSUME NEW f \in File, Resolve(f) PROVE TypeInv'
  BY <1>a, <1>11 DEF Resolve, Settle, Differs, Place
<1>12. CASE Restore
  BY <1>a, <1>12 DEF Restore, Place
<1>13. CASE FinishInstall
  BY <1>a, <1>13 DEF FinishInstall
<1>14. CASE StartRemove
  BY <1>a, <1>14 DEF StartRemove, Owned, Onward
<1>15. ASSUME NEW f \in File, RemoveFile(f) PROVE TypeInv'
  BY <1>a, <1>15 DEF RemoveFile, Place, Owned
<1>16. CASE FinishRemove
  BY <1>a, <1>16 DEF FinishRemove
<1>17. CASE Exit
  <2>1. ConffilesField \in Place
    BY <1>a DEF ConffilesField
  <2>2. CASE result = "removed"
    BY <1>a, <1>17, <2>1, <2>2 DEF Exit, Blank
  <2>3. CASE result = "ok"
    BY <1>a, <1>17, <2>1, <2>3 DEF Exit, Blank
  <2>4. CASE result = "hosed"
    BY <1>a, <1>17, <2>1, <2>4 DEF Exit, Blank
  <2> QED
    BY <1>a, <1>17, <2>2, <2>3, <2>4 DEF Exit
<1>18. CASE Kill
  BY <1>a, <1>b, <1>18 DEF Kill, Blank, Place
<1>19. CASE UNCHANGED vars
  BY <1>a, <1>19 DEF vars, Owned
<1> QED
  BY <1>1, <1>2, <1>3, <1>4, <1>5, <1>6, <1>7, <1>8, <1>9, <1>10, <1>11, <1>12, <1>13,
     <1>14, <1>15, <1>16, <1>17, <1>18, <1>19 DEF Next

(***************************************************************************)
(* The maintainer's version.                                               *)
(***************************************************************************)
LEMMA InstallsStep == TypeInv /\ Installs /\ [Next]_vars => Installs'
<1> SUFFICES ASSUME TypeInv, Installs, [Next]_vars PROVE Installs'
  OBVIOUS
<1>a. /\ TypeOK /\ Engaged /\ NoFile \notin Content /\ world' = world
      /\ \A v \in Version : world.files[v] \subseteq File /\ world.conffiles[v] \subseteq File
      /\ \A v \in Version : world.ships[v] \in [File -> Content]
  BY WorldType, WorldFixed, ConffilesOK DEF TypeInv
<1> USE DEF Engaged, Preparing
<1>1. CASE pc' \notin Preparing \union {"done"} /\ found' = Nothing
  BY <1>1 DEF Installs, Extracted, NothingFound, Resolving, Settling
<1>2. CASE pc' \in {"backup", "clashes"} /\ pc \notin {"resolve", "restore", "done"}
           /\ found' = found
  BY <1>2 DEF Installs, Extracted, NothingFound, Resolving, Settling
<1>3. CASE pc' = "done" /\ result' # "ok" /\ pc \notin {"resolve", "restore", "done"}
           /\ found' = found
  BY <1>3 DEF Installs, Extracted, NothingFound, Resolving, Settling
<1>4. ASSUME NEW f \in File, Edit(f) \/ Accept(f) PROVE Installs'
  BY <1>1, <1>4 DEF Edit, Accept, memory, Installs, NothingFound, Settling
<1>5. ASSUME NEW v \in Version, StartInstall(v) PROVE Installs'
  BY <1>2, <1>5 DEF StartInstall
<1>6. CASE ScriptFails \/ UnwindInstall \/ ExtractFails
  BY <1>3, <1>6 DEF ScriptFails, UnwindInstall, ExtractFails, Hosed
<1>7. CASE BackUp
  BY <1>2, <1>7 DEF BackUp
<1>8. CASE RemoveOld
  BY <1>a, <1>8 DEF RemoveOld, Installs, Extracted, NothingFound, Resolving, Settling
<1>9. ASSUME NEW f \in File, ExtractFile(f) PROVE Installs'
  BY <1>a, <1>9 DEF ExtractFile, Installs, Extracted, NothingFound, Resolving, Settling,
     TypeOK, Place
<1>10. CASE FinishExtract
  BY <1>a, <1>10 DEF FinishExtract, Installs, Extracted, NothingFound, Resolving, Settling,
     Unseen, TypeOK, Nothing
<1>11. ASSUME NEW f \in File, Resolve(f) PROVE Installs'
  <2>1. /\ pc = "resolve" /\ f \in todo /\ found' = [found EXCEPT ![f] = disk[f]]
        /\ UNCHANGED <<list, cur, result>> /\ cur \in Version /\ Resolving
    BY <1>a, <1>11 DEF Resolve, record, Installs, Settling
  <2>2. f \in world.files[cur] => disk[f] = world.ships[cur][f] /\ disk[f] # NoFile
    BY <1>a, <2>1 DEF Resolving, Settling, Unseen
  <2>3. f \in world.conffiles[cur] /\ todo \subseteq world.conffiles[cur]
    BY <2>1 DEF Resolving, Settling
  <2>4. CASE disk[f] = NoFile
    BY <1>a, <1>11, <2>1, <2>2, <2>3, <2>4
       DEF Resolve, Installs, Extracted, NothingFound, Resolving, Settling, Unseen, TypeOK, Place
  <2>5. CASE disk[f] # NoFile /\ Differs(f) /\ world.policy = "keep"
    BY <1>a, <1>11, <2>1, <2>2, <2>3, <2>5
       DEF Resolve, Settle, Installs, Extracted, NothingFound, Resolving, Settling, Unseen,
           TypeOK, Place
  <2>6. CASE disk[f] # NoFile /\ ~(Differs(f) /\ world.policy = "keep")
    BY <1>a, <1>11, <2>1, <2>2, <2>3, <2>6
       DEF Resolve, Settle, Installs, Extracted, NothingFound, Resolving, Settling, Unseen,
           TypeOK, Place
  <2> QED
    BY <2>4, <2>5, <2>6
<1>12. CASE Restore
  BY <1>a, <1>12
     DEF Restore, Installs, Extracted, NothingFound, Resolving, Settling, Unseen, TypeOK,
         Place, record
<1>13. CASE FinishInstall
  BY <1>a, <1>13 DEF FinishInstall, Installs, Extracted, NothingFound, Resolving, Settling,
     Unseen, dirs, record
<1>14. CASE StartRemove \/ \E f \in File : RemoveFile(f)
  BY <1>1, <1>14 DEF StartRemove, RemoveFile, Installs, NothingFound, Settling
<1>15. CASE FinishRemove
  BY <1>3, <1>15 DEF FinishRemove
<1>16. CASE Exit \/ Kill
  BY <1>1, <1>16 DEF Exit, Kill, Blank
<1>17. CASE UNCHANGED vars
  BY <1>a, <1>17 DEF vars, memory, dirs, record, Installs, Extracted, NothingFound, Resolving,
     Settling, Unseen
<1> QED
  BY <1>4, <1>5, <1>6, <1>7, <1>8, <1>9, <1>10, <1>11, <1>12, <1>13, <1>14, <1>15, <1>16,
     <1>17 DEF Next

\* After an install the maintainer's version of every conffile is in place or
\* beside it, unless it is ignored: resolve_conffiles renames what extraction
\* put there before it gives the user's file its place back.
THEOREM MaintainersVersion == Spec => []NewVersionAtHand
<1>1. Init => TypeInv /\ Installs
  BY ConffilesOK DEF Init, TypeInv, TypeOK, Engaged, Preparing, Nothing, Place, Installs,
     Extracted, NothingFound, Resolving, Settling
<1>2. TypeInv /\ Installs => NewVersionAtHand
  BY DEF TypeInv, Engaged, Installs, Resolving, Settling, Unseen, NewVersionAtHand
<1> QED
  BY TypeStep, InstallsStep, <1>1, <1>2, PTL DEF Spec

(***************************************************************************)
(* The record.                                                             *)
(***************************************************************************)

\* Within a command nothing changes the record, the list only when files come
\* or go, and a backup only where the engine makes, drops or resolves it.
LEMMA RecordKept ==
  ASSUME [Next]_vars, ~Exit
  PROVE  UNCHANGED <<recorded, status, sums>>
  BY DEF Next, vars, record, Edit, Accept, StartInstall, ScriptFails, BackUp, UnwindInstall,
     RemoveOld, ExtractFile, ExtractFails, FinishExtract, Resolve, Restore, FinishInstall,
     StartRemove, RemoveFile, FinishRemove, Kill

\* A step that ends before files have been extracted began there, unless it is
\* the end of a command.
LEMMA BackupKept ==
  ASSUME [Next]_vars, pc' \in {"off", "backup", "removing"}, died' = "never"
  PROVE  backup' = backup /\ (Exit \/ pc \in {"off", "backup", "removing"})
<1>1. ASSUME NEW f \in File, Edit(f) \/ Accept(f)
      PROVE  backup' = backup /\ pc \in {"off", "backup", "removing"}
  BY <1>1 DEF Edit, Accept
<1>2. CASE StartRemove \/ (\E v \in Version : StartInstall(v)) \/ (\E f \in File : RemoveFile(f))
  BY <1>2 DEF StartRemove, StartInstall, RemoveFile, dirs
<1>3. CASE ScriptFails \/ UnwindInstall \/ ExtractFails \/ FinishRemove \/ FinishInstall
  BY <1>3 DEF ScriptFails, UnwindInstall, ExtractFails, FinishRemove, FinishInstall, Hosed
<1>4. CASE BackUp \/ RemoveOld \/ FinishExtract \/ Restore \/ Kill
  BY <1>4 DEF BackUp, RemoveOld, FinishExtract, Restore, Kill
<1>5. ASSUME NEW f \in File, ExtractFile(f) PROVE FALSE
  BY <1>5 DEF ExtractFile
<1>6. ASSUME NEW f \in File, Resolve(f) PROVE FALSE
  BY <1>6 DEF Resolve, Settle
<1>7. ASSUME Exit PROVE backup' = backup
  BY <1>7 DEF Exit, dirs
<1>8. CASE UNCHANGED vars
  BY <1>8 DEF vars, dirs, memory
<1> QED
  BY <1>1, <1>2, <1>3, <1>4, <1>5, <1>6, <1>7, <1>8 DEF Next

LEMMA ListKept ==
  ASSUME [Next]_vars, pc' \in {"off", "backup", "clashes", "removing"}, died' = "never", ~Exit
  PROVE  list' = list /\ pc \in {"off", "backup", "clashes", "removing"}
<1>1. ASSUME NEW f \in File, Edit(f) \/ Accept(f)
      PROVE  list' = list /\ pc \in {"off", "backup", "clashes", "removing"}
  BY <1>1 DEF Edit, Accept
<1>2. CASE BackUp \/ StartRemove \/ (\E v \in Version : StartInstall(v))
           \/ (\E f \in File : RemoveFile(f))
  BY <1>2 DEF BackUp, StartRemove, StartInstall, RemoveFile, dirs
<1>3. CASE ScriptFails \/ UnwindInstall \/ ExtractFails \/ FinishRemove \/ FinishInstall
  BY <1>3 DEF ScriptFails, UnwindInstall, ExtractFails, FinishRemove, FinishInstall, Hosed
<1>4. CASE RemoveOld \/ FinishExtract \/ Restore \/ Kill
  BY <1>4 DEF RemoveOld, FinishExtract, Restore, Kill
<1>5. ASSUME NEW f \in File, ExtractFile(f) PROVE FALSE
  BY <1>5 DEF ExtractFile
<1>6. ASSUME NEW f \in File, Resolve(f) PROVE FALSE
  BY <1>6 DEF Resolve, Settle
<1>7. CASE UNCHANGED vars
  BY <1>7 DEF vars, dirs, memory
<1> QED
  BY <1>1, <1>2, <1>3, <1>4, <1>5, <1>6, <1>7 DEF Next

LEMMA NeverDied ==
  ASSUME [Next]_vars, died' = "never"
  PROVE  died = "never" /\ ~Kill
  BY DEF Next, vars, Edit, Accept, StartInstall, Onward, ScriptFails, BackUp, UnwindInstall,
     RemoveOld, ExtractFile, ExtractFails, FinishExtract, Resolve, Restore, FinishInstall,
     StartRemove, RemoveFile, FinishRemove, Exit, Kill

LEMMA RecordedStep == TypeInv /\ Installs /\ Recorded /\ [Next]_vars => Recorded'
<1> SUFFICES ASSUME TypeInv, Installs, Recorded, [Next]_vars, died' = "never"
             PROVE  Recorded'
  BY DEF Recorded
<1>a. TypeOK /\ Engaged /\ world' = world /\ died = "never"
  BY WorldFixed, NeverDied DEF TypeInv
<1>1. CASE Exit
  <2>1. pc = "done" /\ recorded' = cur /\ sums' = ConffilesField /\ UNCHANGED <<list, backup>>
        /\ pc' = "off" /\ todo = {}
    BY <1>a, <1>1 DEF Exit, Blank, dirs, Engaged
  <2>2. CASE result = "ok"
    <3>1. status' = "installed" /\ sums' = found /\ cur \in Version
      BY <1>a, <1>1, <2>1, <2>2 DEF Exit, ConffilesField, Engaged, TypeOK
    <3> QED
      BY <1>a, <2>1, <2>2, <3>1
         DEF Recorded, Installs, Resolving, Settling, Unseen
  <2>3. CASE result # "ok"
    <3>1. status' # "installed" /\ sums' = Nothing
      BY <1>a, <1>1, <2>1, <2>3 DEF Exit, ConffilesField, Engaged, TypeOK
    <3> QED
      BY <3>1 DEF Recorded, Nothing
  <2> QED
    BY <2>2, <2>3
<1>2. CASE ~Exit
  BY <1>a, <1>2, RecordKept, BackupKept, ListKept DEF Recorded, Nothing
<1> QED
  BY <1>1, <1>2

(***************************************************************************)
(* What the user made of a conffile.                                       *)
(***************************************************************************)
\* Only some steps end a command's work.
LEMMA Ends ==
  ASSUME [Next]_vars, pc' = "done"
  PROVE  \/ ScriptFails \/ UnwindInstall \/ ExtractFails \/ FinishInstall \/ FinishRemove
         \/ UNCHANGED vars
<1>1. ASSUME NEW f \in File, Edit(f) \/ Accept(f) PROVE FALSE
  BY <1>1 DEF Edit, Accept, memory
<1>2. CASE StartRemove \/ (\E v \in Version : StartInstall(v))
  BY <1>2 DEF StartRemove, StartInstall
<1>3. CASE BackUp \/ RemoveOld \/ FinishExtract \/ Restore
  BY <1>3 DEF BackUp, RemoveOld, FinishExtract, Restore
<1>4. ASSUME NEW f \in File, ExtractFile(f) \/ RemoveFile(f) PROVE FALSE
  BY <1>4 DEF ExtractFile, RemoveFile
<1>5. ASSUME NEW f \in File, Resolve(f) PROVE FALSE
  BY <1>5 DEF Resolve, Settle
<1>6. ASSUME Exit \/ Kill PROVE FALSE
  BY <1>6 DEF Exit, Kill, Blank
<1> QED
  BY <1>1, <1>2, <1>3, <1>4, <1>5, <1>6 DEF Next

LEMMA NoneLeftStep == TypeInv /\ Installs /\ NoneLeft /\ [Next]_vars => NoneLeft'
<1> SUFFICES ASSUME TypeInv, Installs, NoneLeft, [Next]_vars, died' = "never",
                    pc' \in {"off", "backup", "removing", "done"},
                    NEW f \in File, AlwaysConffile(f), ~BackupsOutlive(f)
             PROVE  backup'[f] = NoFile
  BY WorldFixed DEF NoneLeft, AlwaysConffile, BackupsOutlive
<1>a. TypeOK /\ Engaged /\ died = "never"
  BY NeverDied DEF TypeInv
<1>b. pc \in {"off", "backup", "removing", "done"} => backup[f] = NoFile
  BY <1>a DEF NoneLeft
<1>c. cur \in Version => f \in world.files[cur] /\ f \in world.conffiles[cur]
  BY DEF AlwaysConffile, BackupsOutlive
<1>1. CASE pc' # "done"
  BY <1>b, <1>1, BackupKept DEF Exit
<1>2. CASE ScriptFails \/ FinishRemove \/ UNCHANGED vars
  BY <1>b, <1>2 DEF ScriptFails, FinishRemove, vars, dirs, memory
<1>3. CASE UnwindInstall
  BY <1>a, <1>c, <1>3 DEF UnwindInstall, Unwound, Engaged, Preparing
<1>4. CASE ExtractFails
  BY <1>4 DEF ExtractFails, BackupsOutlive
<1>5. CASE FinishInstall
  BY <1>a, <1>c, <1>5 DEF FinishInstall, dirs, Installs, Resolving, Settling, Engaged, Preparing
<1> QED
  BY <1>1, <1>2, <1>3, <1>4, <1>5, Ends

\* What the engine backs up is what the user made of the file, and what it does
\* not back up no version brings or has a backup.
LEMMA BackedUp ==
  ASSUME TypeInv, Recorded, Kept, died = "never", pc = "backup",
         NEW f \in File, Protected(f)
  PROVE  /\ f \in ToBackUp => InPlace(f)
         /\ f \notin ToBackUp => SetAside(f) \/ (f \notin world.files[cur] /\ sums[f] = NoFile)
<1>a. /\ TypeOK /\ Engaged /\ (InPlace(f) \/ SetAside(f)) /\ mine[f] # NoFile /\ cur \in Version
      /\ \A v \in Version : mine[f] # world.ships[v][f] /\ (f \in world.files[v] <=> f \in world.conffiles[v])
  BY DEF TypeInv, Kept, Safe, Protected, AlwaysConffile, Engaged, Preparing
<1>b. sums[f] # NoFile => sums[f] # mine[f] /\ backup[f] = NoFile
  BY <1>a DEF Recorded, Nothing, TypeOK
<1> QED
  BY <1>a, <1>b DEF ToBackUp, Modified, InPlace, SetAside

\* What the installed version owns has an md5sum that the user's file has not.
LEMMA OwnedIsSummed ==
  ASSUME TypeInv, Recorded, died = "never", pc \in {"clashes", "removing"},
         NEW f \in Owned, AlwaysConffile(f)
  PROVE  f \in File /\ sums[f] = world.ships[recorded][f] /\ recorded \in Version
         /\ sums[f] # NoFile
<1>1. status = "installed" /\ f \in list /\ TypeOK /\ recorded \in Version
  BY DEF Owned, TypeInv, TypeOK
<1>2. f \in File /\ f \in world.files[recorded] /\ f \in world.conffiles[recorded]
  BY <1>1 DEF Recorded, TypeOK, AlwaysConffile
<1> QED
  BY <1>1, <1>2, WorldType, ConffilesOK DEF Recorded

\* No step but the user's changes what is protected, and none leaves it unsafe.
LEMMA KeptStep ==
  TypeInv /\ Installs /\ Recorded /\ NoneLeft /\ Kept /\ [Next]_vars => Kept'
<1> SUFFICES ASSUME TypeInv, Installs, Recorded, NoneLeft, Kept, [Next]_vars, died' = "never",
                    NEW f \in File, Protected(f)'
             PROVE  Safe(f)'
  BY DEF Kept
<1>a. /\ TypeOK /\ Engaged /\ died = "never" /\ world' = world
      /\ NoFile \notin Content /\ world.policy \in {"keep", "maintainer", "ignore"}
  BY NeverDied, WorldFixed, ConffilesOK DEF TypeInv, TypeOK, World
<1>b. ASSUME UNCHANGED mine
      PROVE  Protected(f) /\ Safe(f) /\ mine[f] # NoFile /\ world.policy # "maintainer"
             /\ mine[f] \notin {world.ships[v][f] : v \in Version}
             /\ \A v \in Version : f \in world.files[v] <=> f \in world.conffiles[v]
  BY <1>a, <1>b DEF Kept, Protected, AlwaysConffile, BackupsOutlive
<1>c. ASSUME UNCHANGED <<disk, backup, mine>>,
             pc' \in {"off", "backup", "removing", "done"}
      PROVE  Safe(f)'
  BY <1>b, <1>c DEF Safe, InPlace, SetAside
<1>1. ASSUME NEW g \in File, Edit(g) \/ Accept(g) PROVE Safe(f)'
  <2>1. /\ \E c \in Content \union {NoFile} : Writes(g, c)
        /\ pc = "off" /\ pc' = "off" /\ backup' = backup /\ (world.careless \/ backup[g] = NoFile)
    BY <1>a, <1>1, WorldType DEF Edit, Accept, memory, TypeOK, Place
  <2>2. CASE f = g
    <3>1. backup[f] = NoFile
      BY <1>a, <2>1, <2>2 DEF NoneLeft, Protected, AlwaysConffile, BackupsOutlive
    <3> QED
      BY <1>a, <2>1, <2>2, <3>1 DEF Writes, Safe, InPlace, TypeOK, Place
  <2>3. CASE f # g
    <3>1. disk'[f] = disk[f] /\ mine'[f] = mine[f]
      BY <1>a, <2>1, <2>3 DEF Writes, TypeOK, Place
    <3>2. Protected(f)
      BY <1>a, <3>1 DEF Protected, AlwaysConffile, BackupsOutlive
    <3> QED
      BY <1>a, <2>1, <3>1, <3>2 DEF Kept, Safe, InPlace, SetAside
  <2> QED
    BY <2>2, <2>3
<1>2. CASE \/ \E v \in Version : StartInstall(v)
           \/ ScriptFails \/ FinishInstall \/ StartRemove \/ FinishRemove \/ Exit
  <2>1. UNCHANGED <<disk, backup, mine>> /\ pc' \in {"off", "backup", "removing", "done"}
    BY <1>2 DEF StartInstall, ScriptFails, Hosed, FinishInstall, StartRemove, FinishRemove,
       Exit, Blank, dirs
  <2> QED
    BY <1>c, <2>1
<1>3. CASE BackUp
  <2>1. /\ pc = "backup" /\ pc' = "clashes" /\ UNCHANGED <<world, disk, sums, cur, mine>>
        /\ backup'[f] = IF f \in ToBackUp THEN disk[f] ELSE backup[f]
    BY <1>3 DEF BackUp, record
  <2>2. ~BackupsOutlive(f) => backup[f] = NoFile
    BY <1>a, <1>b, <2>1 DEF NoneLeft, Protected
  <2>3. /\ f \in ToBackUp => InPlace(f)
        /\ f \notin ToBackUp => SetAside(f) \/ (f \notin world.files[cur] /\ sums[f] = NoFile)
    BY <1>a, <1>b, <2>1, BackedUp
  <2>4. BackupsOutlive(f)' <=> BackupsOutlive(f)
    BY <2>1 DEF BackupsOutlive
  <2> QED
    BY <1>b, <2>1, <2>2, <2>3, <2>4 DEF Safe, InPlace, SetAside
<1>4. CASE UnwindInstall
  <2>1. /\ pc \in {"backup", "clashes"} /\ pc' = "done" /\ UNCHANGED <<disk, mine, world>>
        /\ backup' = Unwound /\ world.faults \intersect {"backup", "unwind"} # {}
        /\ cur \in Version
    BY <1>a, <1>4 DEF UnwindInstall, Hosed, Engaged, Preparing
  <2>2. ~BackupsOutlive(f) /\ f \in world.files[cur] /\ f \in world.conffiles[cur]
    BY <1>b, <2>1 DEF Protected, AlwaysConffile, BackupsOutlive
  <2>3. disk[f] = mine[f]
    BY <1>a, <1>b, <2>1, <2>2 DEF NoneLeft, Protected, Safe, InPlace, SetAside
  <2>4. backup'[f] = NoFile
    BY <2>1, <2>2 DEF Unwound
  <2> QED
    BY <2>1, <2>3, <2>4 DEF Safe, InPlace
<1>5. CASE RemoveOld
  <2>1. /\ pc = "clashes" /\ pc' = "extract" /\ UNCHANGED <<backup, mine, cur>>
        /\ disk'[f] = IF f \in Obsolete THEN NoFile ELSE disk[f]
    BY <1>5 DEF RemoveOld
  <2>2. f \in Obsolete => f \in Owned
    BY DEF Obsolete
  <2>3. SetAside(f) \/ (InPlace(f) /\ f \notin Obsolete /\ f \notin world.files[cur])
    BY <1>a, <1>b, <2>1, <2>2, OwnedIsSummed DEF Protected, Safe
  <2> QED
    BY <1>a, <2>1, <2>3 DEF Safe, InPlace, SetAside
<1>6. ASSUME NEW g \in File, ExtractFile(g) PROVE Safe(f)'
  <2>1. /\ pc = "extract" /\ pc' = "extract" /\ UNCHANGED <<backup, mine, cur>>
        /\ g \in world.files[cur] /\ (f # g => disk'[f] = disk[f])
    BY <1>a, <1>6 DEF ExtractFile, Installs, Extracted, TypeOK, Place
  <2> QED
    BY <1>a, <1>b, <2>1 DEF Safe, InPlace, SetAside
<1>7. CASE ExtractFails
  <2>1. /\ pc = "extract" /\ pc' = "done" /\ UNCHANGED <<backup, mine, cur>>
        /\ f \notin world.files[cur] => disk'[f] = disk[f]
    BY <1>a, <1>7 DEF ExtractFails, Hosed, Stopped, Installs, Extracted, TypeOK, Place
  <2> QED
    BY <1>a, <1>b, <2>1 DEF Safe, InPlace, SetAside
<1>8. CASE FinishExtract
  BY <1>a, <1>b, <1>8 DEF FinishExtract, Safe, InPlace, SetAside, Engaged, Preparing
<1>9. ASSUME NEW g \in File, Resolve(g) PROVE Safe(f)'
  <2>1. /\ pc = "resolve" /\ g \in todo /\ UNCHANGED <<mine, cur>>
        /\ pc' \in {"resolve", "restore"} /\ todo' \subseteq todo
    BY <1>9 DEF Resolve, Settle
  <2>2. CASE f # g
    <3>1. disk'[f] = disk[f] /\ backup'[f] = backup[f]
      BY <1>a, <1>9, <2>2 DEF Resolve, Settle, TypeOK, Place
    <3> QED
      BY <1>b, <2>1, <3>1 DEF Safe, InPlace, SetAside
  <2>3. CASE f = g
    <3>1. SetAside(f)
      BY <1>b, <2>1, <2>3 DEF Safe
    <3>2. CASE backup'[f] = backup[f]
      BY <2>1, <3>1, <3>2 DEF Safe, SetAside
    <3>3. CASE backup'[f] # backup[f]
      BY <1>a, <1>b, <1>9, <2>1, <2>3, <3>1, <3>3
         DEF Resolve, Settle, Differs, Safe, InPlace, SetAside, TypeOK, Place
    <3> QED
      BY <3>2, <3>3
  <2> QED
    BY <2>2, <2>3
<1>10. CASE Restore
  <2>1. /\ pc = "restore" /\ pc' = "resolve" /\ UNCHANGED <<mine, cur>>
        /\ todo' = todo \ {moving} /\ moving \in todo
        /\ f # moving => disk'[f] = disk[f] /\ backup'[f] = backup[f]
        /\ f = moving => disk'[f] = backup[f] /\ backup'[f] = NoFile
    BY <1>a, <1>10 DEF Restore, Engaged, TypeOK, Place
  <2> QED
    BY <1>b, <2>1 DEF Safe, InPlace, SetAside
<1>11. ASSUME NEW g \in File, RemoveFile(g) PROVE Safe(f)'
  <2>1. /\ pc = "removing" /\ pc' = "removing" /\ UNCHANGED <<backup, mine>> /\ g \in Owned
        /\ f # g \/ Spared(g) => disk'[f] = disk[f]
    BY <1>a, <1>11 DEF RemoveFile, Engaged, TypeOK, Place
  <2>2. f = g /\ InPlace(f) => Spared(g)
    BY <1>a, <1>b, <2>1, OwnedIsSummed DEF Protected, Spared, Modified, InPlace
  <2> QED
    BY <1>b, <2>1, <2>2 DEF Safe, InPlace, SetAside
<1>12. CASE Kill
  BY <1>12, NeverDied
<1>13. CASE UNCHANGED vars
  <2>1. Safe(f) /\ UNCHANGED <<world, disk, backup, mine, pc, cur, todo, sums>>
    BY <1>b, <1>13 DEF vars, dirs, record, memory
  <2> QED
    BY <2>1 DEF Safe, InPlace, SetAside, BackupsOutlive
<1> QED
  BY <1>1, <1>2, <1>3, <1>4, <1>5, <1>6, <1>7, <1>8, <1>9, <1>10, <1>11, <1>12, <1>13 DEF Next

\* Where the process was killed: it has torn only what a backup of has been made,
\* or whose backup it was about to make.
LEMMA KeptLastStep ==
  TypeInv /\ Installs /\ Recorded /\ Kept /\ KeptLast /\ [Next]_vars => KeptLast'
<1> SUFFICES ASSUME TypeInv, Installs, Recorded, Kept, KeptLast, [Next]_vars, died' = "last",
                    NEW f \in File, Protected(f)'
             PROVE  mine'[f] \in {disk'[f], backup'[f]}
  BY DEF KeptLast
<1>a. TypeOK /\ Engaged /\ world' = world /\ NoFile \notin Content
  BY WorldFixed, ConffilesOK DEF TypeInv
<1>1. CASE died = "never"
  <2>1. Kill
    BY <1>1 DEF Next, vars, Edit, Accept, StartInstall, Onward, ScriptFails, BackUp,
       UnwindInstall, RemoveOld, ExtractFile, ExtractFails, FinishExtract, Resolve, Restore,
       FinishInstall, StartRemove, RemoveFile, FinishRemove, Exit
  <2>2. Protected(f) /\ Safe(f) /\ mine'[f] = mine[f]
    BY <1>a, <1>1, <2>1 DEF Kill, Kept, Protected, AlwaysConffile, BackupsOutlive
  <2>3. CASE pc = "extract"
    BY <1>a, <2>1, <2>2, <2>3
       DEF Kill, Stopped, Installs, Extracted, Safe, InPlace, SetAside, TypeOK, Place
  <2>4. CASE pc = "backup"
    <3>1. disk' = disk /\ (f \notin ToBackUp => backup'[f] = backup[f])
      BY <1>a, <2>1, <2>4 DEF Kill, TypeOK
    <3> QED
      BY <1>1, <2>2, <2>4, <3>1, BackedUp DEF Safe, InPlace, SetAside
  <2>5. CASE pc \notin {"extract", "backup"}
    BY <2>1, <2>2, <2>5 DEF Kill, Safe, InPlace, SetAside
  <2> QED
    BY <2>3, <2>4, <2>5
<1>2. CASE died = "last"
  <2>0. pc = "off"
    BY <1>a, <1>2 DEF Engaged
  <2>1. (\E g \in File : Edit(g) \/ Accept(g)) \/ UNCHANGED vars
    BY <1>2, <2>0 DEF Next, StartInstall, Onward, ScriptFails, BackUp, UnwindInstall,
       RemoveOld, ExtractFile, ExtractFails, FinishExtract, Resolve, Restore,
       FinishInstall, StartRemove, RemoveFile, FinishRemove, Exit, Kill
  <2>2. ASSUME UNCHANGED vars PROVE mine'[f] \in {disk'[f], backup'[f]}
    BY <1>2, <2>2 DEF vars, dirs, KeptLast, Protected, AlwaysConffile, BackupsOutlive
  <2>3. ASSUME NEW g \in File, Edit(g) \/ Accept(g) PROVE mine'[f] \in {disk'[f], backup'[f]}
    <3>1. backup' = backup /\ \E c \in Content \union {NoFile} : Writes(g, c)
      BY <1>a, <2>3, WorldType DEF Edit, Accept, TypeOK, Place
    <3>2. CASE f = g
      BY <1>a, <3>1, <3>2 DEF Writes, TypeOK, Place
    <3>3. CASE f # g
      <4>1. disk'[f] = disk[f] /\ mine'[f] = mine[f]
        BY <1>a, <3>1, <3>3 DEF Writes, TypeOK, Place
      <4> QED
        BY <1>a, <1>2, <3>1, <4>1 DEF KeptLast, Protected, AlwaysConffile, BackupsOutlive
    <3> QED
      BY <3>2, <3>3
  <2> QED
    BY <2>1, <2>2, <2>3
<1>3. CASE died = "before"
  BY <1>3 DEF Next, vars, Edit, Accept, StartInstall, Onward, ScriptFails, BackUp,
     UnwindInstall, RemoveOld, ExtractFile, ExtractFails, FinishExtract, Resolve, Restore,
     FinishInstall, StartRemove, RemoveFile, FinishRemove, Exit, Kill
<1> QED
  BY <1>a, <1>1, <1>2, <1>3 DEF TypeOK

\* Without force_maintainer what the user last made of a conffile is in place, or
\* in the backup, whatever fails of the steps of backup_modified_conffiles,
\* extraction and resolve_conffiles, and after the death of the process.
THEOREM EditsAreKept == Spec => []EditsSurvive
<1> DEFINE Inv == TypeInv /\ Installs /\ Recorded /\ NoneLeft /\ Kept /\ KeptLast
<1>1. Init => Inv
  BY ConffilesOK DEF Init, TypeInv, TypeOK, Engaged, Preparing, Nothing, Place, Installs,
     Extracted, NothingFound, Resolving, Settling, Recorded, NoneLeft, Kept, KeptLast, Protected
<1>2. Inv /\ [Next]_vars => Inv'
  BY TypeStep, InstallsStep, RecordedStep, NoneLeftStep, KeptStep, KeptLastStep
<1>3. Inv => EditsSurvive
  BY DEF EditsSurvive, TypeInv, TypeOK, Kept, KeptLast, Safe, InPlace, SetAside
<1> QED
  BY <1>1, <1>2, <1>3, PTL DEF Spec

(***************************************************************************)
(* What the user did not touch.                                            *)
(***************************************************************************)
\* What the installed version does not own is no file of anybody's.
LEMMA UnownedIsGone ==
  ASSUME TypeInv, Recorded, died = "never", pc \in {"off", "clashes"},
         NEW f \in File, AlwaysConffile(f), f \notin Owned
  PROVE  sums[f] = NoFile
<1>1. CASE status = "installed"
  <2>1. f \notin world.files[recorded] /\ recorded \in Version
    BY <1>1 DEF Recorded, Owned, TypeInv, TypeOK
  <2> QED
    BY <1>1, <2>1 DEF Recorded, AlwaysConffile
<1>2. CASE status # "installed"
  BY <1>2 DEF Recorded, Nothing
<1> QED
  BY <1>1, <1>2

LEMMA UntouchedStep ==
  TypeInv /\ Installs /\ Recorded /\ NoneLeft /\ Untouched /\ [Next]_vars => Untouched'
<1> SUFFICES ASSUME TypeInv, Installs, Recorded, NoneLeft, Untouched, [Next]_vars,
                    died' = "never", NEW f \in File, Undisturbed(f), mine'[f] = NoFile
             PROVE  Follows(f)'
  BY WorldFixed DEF Untouched, Undisturbed, AlwaysConffile, BackupsOutlive
<1>a. /\ TypeOK /\ Engaged /\ died = "never" /\ world' = world /\ NoFile \notin Content
      /\ AlwaysConffile(f) /\ world.faults = {}
      /\ \A v \in Version : f \in world.files[v] <=> f \in world.conffiles[v]
  BY NeverDied, WorldFixed, ConffilesOK DEF TypeInv, Undisturbed, AlwaysConffile
<1>b. ASSUME UNCHANGED mine PROVE Follows(f)
  BY <1>a, <1>b DEF Untouched
<1>1. ASSUME NEW g \in File, Edit(g) \/ Accept(g) PROVE Follows(f)'
  <2>1. /\ \E c \in Content \union {NoFile} : Writes(g, c)
        /\ pc = "off" /\ pc' = "off" /\ UNCHANGED <<backup, sums>>
        /\ world.careless \/ backup[g] = NoFile
    BY <1>a, <1>1, WorldType DEF Edit, Accept, memory, record, TypeOK, Place
  <2>2. CASE f = g
    <3>1. backup[f] = NoFile
      BY <1>a, <2>1, <2>2 DEF NoneLeft, Undisturbed
    <3> QED
      BY <1>a, <2>1, <2>2, <3>1 DEF Writes, Follows, Settling, TypeOK, Place
  <2>3. CASE f # g
    <3>1. disk'[f] = disk[f] /\ mine'[f] = mine[f]
      BY <1>a, <2>1, <2>3 DEF Writes, TypeOK, Place
    <3>2. Follows(f)
      BY <1>a, <3>1 DEF Untouched
    <3> QED
      BY <2>1, <3>1, <3>2 DEF Follows, Settling
  <2> QED
    BY <2>2, <2>3
<1>2. ASSUME NEW v \in Version, StartInstall(v) PROVE Follows(f)'
  BY <1>b, <1>2 DEF StartInstall, dirs, record, Follows, Settling
<1>3. CASE ScriptFails \/ UnwindInstall \/ ExtractFails
  BY <1>a, <1>3 DEF ScriptFails, UnwindInstall, ExtractFails
<1>4. CASE BackUp
  <2>1. Follows(f) /\ pc = "backup" /\ pc' = "clashes" /\ UNCHANGED <<disk, sums>>
        /\ backup'[f] = IF f \in ToBackUp THEN disk[f] ELSE backup[f]
    BY <1>b, <1>4 DEF BackUp, record
  <2>2. f \notin ToBackUp
    BY <2>1 DEF ToBackUp, Modified, Follows
  <2> QED
    BY <2>1, <2>2 DEF Follows, Settling
<1>5. CASE RemoveOld
  <2>1. /\ Follows(f) /\ pc = "clashes" /\ pc' = "extract" /\ UNCHANGED <<backup, cur>>
        /\ disk'[f] = IF f \in Obsolete THEN NoFile ELSE disk[f]
    BY <1>b, <1>5 DEF RemoveOld
  <2>2. disk[f] \in {NoFile, sums[f]}
    BY <2>1 DEF Follows
  <2>3. f \notin world.files[cur] => disk'[f] = NoFile
    BY <1>a, <2>1, <2>2, UnownedIsGone DEF Obsolete, Modified
  <2> QED
    BY <1>a, <2>1, <2>3 DEF Follows, Settling
<1>6. ASSUME NEW g \in File, ExtractFile(g) PROVE Follows(f)'
  <2>1. /\ Follows(f) /\ pc = "extract" /\ pc' = "extract" /\ UNCHANGED <<backup, cur>>
        /\ g \in world.files[cur] /\ (f # g => disk'[f] = disk[f])
    BY <1>a, <1>b, <1>6 DEF ExtractFile, Installs, Extracted, TypeOK, Place
  <2> QED
    BY <1>a, <2>1 DEF Follows, Settling
<1>7. CASE FinishExtract
  <2>1. /\ Follows(f) /\ pc = "extract" /\ pc' = "resolve" /\ cur \in Version
        /\ UNCHANGED <<disk, backup, cur>> /\ todo' = world.conffiles[cur]
    BY <1>a, <1>b, <1>7 DEF FinishExtract, Engaged, Preparing
  <2> QED
    BY <1>a, <2>1 DEF Follows, Settling
<1>8. ASSUME NEW g \in File, Resolve(g) PROVE Follows(f)'
  <2>1. /\ Follows(f) /\ pc = "resolve" /\ g \in todo /\ UNCHANGED cur /\ cur \in Version
        /\ pc' \in {"resolve", "restore"} /\ todo' \subseteq todo /\ todo \ todo' \subseteq {g}
    BY <1>a, <1>b, <1>8 DEF Resolve, Settle, Engaged, Preparing
  <2>2. disk'[f] = disk[f] /\ backup'[f] = backup[f]
    BY <1>a, <1>8, <2>1 DEF Resolve, Settle, Differs, Follows, TypeOK, Place
  <2>3. f = g => disk[f] = world.ships[cur][f]
    BY <1>a, <2>1 DEF Installs, Resolving, Settling, Unseen
  <2> QED
    BY <1>a, <2>1, <2>2, <2>3 DEF Follows, Settling
<1>9. CASE Restore
  <2>1. /\ Follows(f) /\ pc = "restore" /\ pc' = "resolve" /\ UNCHANGED cur
        /\ todo' = todo \ {moving} /\ backup[moving] # NoFile
        /\ f # moving => disk'[f] = disk[f] /\ backup'[f] = backup[f]
    BY <1>a, <1>b, <1>9 DEF Restore, Engaged, TypeOK, Place
  <2>2. f # moving
    BY <2>1 DEF Follows
  <2> QED
    BY <1>a, <2>1, <2>2 DEF Follows, Settling
<1>10. CASE FinishInstall
  BY <1>a, <1>b, <1>10 DEF FinishInstall, dirs, record, Follows, Settling
<1>11. CASE StartRemove
  <2>1. /\ Follows(f) /\ pc = "off" /\ pc' = "removing" /\ UNCHANGED <<disk, backup, sums>>
        /\ todo' = Owned
    BY <1>b, <1>11 DEF StartRemove, dirs, record
  <2> QED
    BY <1>a, <2>1, UnownedIsGone DEF Follows, Settling
<1>12. ASSUME NEW g \in File, RemoveFile(g) PROVE Follows(f)'
  <2>1. /\ Follows(f) /\ pc = "removing" /\ pc' = "removing" /\ UNCHANGED <<backup, sums>>
        /\ todo' = todo \ {g} /\ (f # g => disk'[f] = disk[f])
        /\ f = g => disk'[f] = IF Spared(f) THEN disk[f] ELSE NoFile
    BY <1>a, <1>b, <1>12 DEF RemoveFile, record, TypeOK, Place
  <2> QED
    BY <2>1 DEF Follows, Settling, Spared, Modified
<1>13. CASE FinishRemove
  BY <1>a, <1>b, <1>13 DEF FinishRemove, record, Follows, Settling
<1>14. CASE Exit
  <2>1. /\ Follows(f) /\ pc = "done" /\ pc' = "off" /\ UNCHANGED <<disk, backup>>
        /\ sums' = ConffilesField /\ result' = "none" /\ todo = {}
    BY <1>a, <1>b, <1>14 DEF Exit, Blank, dirs, Engaged
  <2>2. CASE result = "ok"
    <3>1. cur \in Version /\ Resolving /\ Settling
      BY <1>a, <2>1, <2>2 DEF Engaged, TypeOK, Installs, Settling
    <3>2. disk[f] \in {NoFile, found[f]}
      BY <1>a, <2>1, <3>1 DEF Follows, Resolving, Unseen
    <3> QED
      BY <2>1, <2>2, <3>2 DEF Follows, Settling, ConffilesField
  <2>3. CASE result # "ok"
    <3>1. disk[f] = NoFile
      BY <1>a, <2>1, <2>3 DEF Follows, TypeOK, Engaged
    <3> QED
      BY <2>1, <3>1 DEF Follows, Settling
  <2> QED
    BY <2>2, <2>3
<1>15. CASE Kill
  BY <1>15, NeverDied
<1>16. CASE UNCHANGED vars
  <2>1. Follows(f) /\ UNCHANGED <<disk, backup, sums, pc, cur, todo, result>>
    BY <1>b, <1>16 DEF vars, dirs, record, memory
  <2> QED
    BY <1>a, <2>1 DEF Follows, Settling
<1> QED
  BY <1>1, <1>2, <1>3, <1>4, <1>5, <1>6, <1>7, <1>8, <1>9, <1>10, <1>11, <1>12, <1>13,
     <1>14, <1>15, <1>16 DEF Next

\* Between two commands the conffiles of an installed version are settled: the
\* user's where there is one, the maintainer's otherwise, and no backup is left
\* of what the install has resolved.
THEOREM Settled == Spec => []ConffilesSettled
<1>1. Init => IInv
  BY ConffilesOK DEF Init, IInv, TypeInv, TypeOK, Engaged, Preparing, Nothing, Place, Installs,
     Extracted, NothingFound, Resolving, Settling, Recorded, NoneLeft, Kept, KeptLast,
     Protected, Untouched, Follows
<1>2. IInv /\ [Next]_vars => IInv'
  BY TypeStep, InstallsStep, RecordedStep, NoneLeftStep, KeptStep, KeptLastStep, UntouchedStep
     DEF IInv
<1>3. IInv => ConffilesSettled
  <2> SUFFICES ASSUME IInv PROVE ConffilesSettled
    OBVIOUS
  <2>1. TypeOK /\ Recorded /\ NoBackupLeft
    BY DEF IInv, TypeInv, Recorded, NoBackupLeft
  <2>2. UserVersionWins
    <3> SUFFICES ASSUME NEW f \in File, Protected(f), died = "never", pc = "off",
                        status = "installed", f \in world.files[recorded]
                 PROVE  disk[f] = mine[f]
      BY DEF UserVersionWins
    <3>1. f \in world.conffiles[recorded] /\ mine[f] # NoFile /\ recorded \in Version
      BY <2>1 DEF Protected, AlwaysConffile, TypeOK
    <3> QED
      BY <2>1, <3>1 DEF IInv, Kept, Safe, InPlace, SetAside, NoBackupLeft
  <2>3. UntouchedFollows
    <3> SUFFICES ASSUME NEW f \in File, Undisturbed(f), mine[f] = NoFile, died = "never",
                        pc = "off", status = "installed", f \in world.files[recorded]
                 PROVE  disk[f] \in {world.ships[recorded][f], NoFile}
      BY DEF UntouchedFollows, Undisturbed
    <3>1. f \in world.conffiles[recorded] /\ Follows(f)
      BY <2>1 DEF Undisturbed, AlwaysConffile, TypeOK, IInv, Untouched
    <3> QED
      BY <2>1, <3>1 DEF Follows, Recorded
  <2> QED
    BY <2>1, <2>2, <2>3 DEF ConffilesSettled
<1> QED
  BY <1>1, <1>2, <1>3, PTL DEF Spec
=============================================================================

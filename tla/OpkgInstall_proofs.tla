------------------------- MODULE OpkgInstall_proofs -------------------------
(***************************************************************************)
(* Proofs about the transaction engine, for every set of packages, files   *)
(* and options.  First                                                     *)
(*                                                                         *)
(*   TypeCorrect     Spec => []TypeOK                                      *)
(*   OneVersion      Spec => []OneVersionPerName                           *)
(*                                                                         *)
(* Neither is inductive as it stands.  Types need to know that a package   *)
(* is set while the engine works on one (Engaged).  One version per name   *)
(* needs to know that old_pkg, looked up before the install, is still the  *)
(* one recorded version when the install settles (OldIsRecorded), and that *)
(* the configure loop only promotes what is on record (PendingRecorded).   *)
(* Then, each with the invariants it takes: the scripts and lists in       *)
(* info_dir, the files on disk, and the commands for one package.          *)
(***************************************************************************)
EXTENDS OpkgInstall, TLAPS

Installing == {"prepared", "owned", "preinst", "clashes", "postrm", "prune",
               "oldfiles", "newscripts", "extract"}
Working == Installing \union {"removing", "removed"}

\* A package is set while one is worked on, and the steps that handle the old
\* version have one.
Engaged == /\ pc \in Working => cur \in Pkg
           /\ pc \in {"prune", "oldfiles"} => old \in Pkg

\* No two versions of a name are on record in s.
Unique(s) == \A p, q \in Pkg : p # q /\ name[p] = name[q] =>
               ~(s[p] # "not-installed" /\ s[q] # "not-installed")

\* During an install old is the one recorded version of the name of cur.
OldIsRecorded ==
  pc \in Installing =>
    /\ old = NoPkg => \A p \in Pkg : name[p] = name[cur] =>
                                       status[p] = "not-installed"
    /\ old # NoPkg => /\ old \in Pkg
                      /\ name[old] = name[cur]
                      /\ status[old] # "not-installed"

\* What is to be configured is on record.
PendingRecorded ==
  pc = "configuring" => \A p \in pending : status[p] # "not-installed"

TypeInv == TypeOK /\ Engaged
Versions == /\ Unique(status)
            /\ Unique(db)
            /\ OldIsRecorded
            /\ PendingRecorded
IInv == TypeInv /\ Versions

(***************************************************************************)
(* What the engine's helpers return.                                       *)
(***************************************************************************)

\* A change of owner keeps file_hash a map from files to packages, and the
\* packages it marks are packages.
LEMMA ClaimType ==
  ASSUME owner \in [File -> Pkg \union {NoPkg}],
         NEW F \in SUBSET File, NEW p \in Pkg
  PROVE  /\ Claim(F, p) \in [File -> Pkg \union {NoPkg}]
         /\ Flagged(F, p) \subseteq Pkg
<1>1. Claim(F, p) \in [File -> Pkg \union {NoPkg}]
  BY DEF Claim
<1>2. Losers(F) \subseteq Pkg
  BY DEF Losers
<1>3. Flagged(F, p) \subseteq Pkg
  BY <1>2 DEF Flagged
<1> QED
  BY <1>1, <1>3

\* In every world an archive holds files.
LEMMA FilesType ==
  ASSUME world \in Worlds, NEW p \in Pkg
  PROVE  world.files[p] \subseteq File
  BY ConstantsOK DEF World

\* The list of a package names files.
LEMMA FileListType ==
  ASSUME TypeOK, NEW p \in Pkg
  PROVE  FileList(p) \subseteq File /\ Removable(p) \subseteq File
<1>1. world.files[p] \subseteq File
  BY FilesType DEF TypeOK
<1>2. FileList(p) \subseteq File
  BY <1>1, ConstantsOK DEF FileList, TypeOK
<1> QED
  BY <1>2 DEF Removable

\* Settling an install leaves every package with a status.
LEMMA SettleType ==
  ASSUME TypeOK, NEW s \in Statuses
  PROVE  Settle(s) \in [Pkg -> Statuses]
  BY DEF Settle, TypeOK, Statuses

\* A hosed install leaves every variable it sets in its type.
LEMMA HosedType ==
  ASSUME TypeInv, NEW ch \in SUBSET Pkg, Hosed(ch)
  PROVE  /\ status' \in [Pkg -> Statuses]
         /\ changed' \subseteq Pkg
         /\ verdict' \in Verdicts
         /\ old' \in Pkg \union {NoPkg}
         /\ todo' \subseteq File
         /\ pc' = "ready"
<1>1. "half-installed" \in Statuses
  BY DEF Statuses
<1>2. status' \in [Pkg -> Statuses]
  BY <1>1, SettleType DEF Hosed, TypeInv
<1> QED
  BY <1>2 DEF Hosed, Verdicts, TypeInv, TypeOK

(***************************************************************************)
(* Types: one step per action.                                             *)
(***************************************************************************)
LEMMA TypeStep == TypeInv /\ [Next]_vars => TypeInv'
<1> SUFFICES ASSUME TypeInv, [Next]_vars
             PROVE  TypeInv'
  OBVIOUS
<1> USE DEF TypeInv, Engaged, Working, Installing
<1>a. TypeOK
  OBVIOUS
<1>1. ASSUME NEW c \in {"install", "remove", "configure"}, StartCommand(c)
      PROVE  TypeInv'
  <2>1. changed' \subseteq Pkg
    BY <1>1 DEF StartCommand, Claimants
  <2>2. pending' \subseteq Pkg
    BY <1>1 DEF StartCommand, TypeOK
  <2>3. owner' \in [File -> Pkg \union {NoPkg}]
    BY <1>1 DEF StartCommand
  <2> QED
    BY <1>1, <2>1, <2>2, <2>3 DEF StartCommand, TypeOK, onDisk, Steps
<1>2. ASSUME NEW p \in Pkg, UpToDate(p)
      PROVE  TypeInv'
  BY <1>2 DEF UpToDate, NextPackage, TypeOK, onDisk, inMem, Verdicts
<1>3. ASSUME NEW p \in Pkg, StartInstall(p)
      PROVE  TypeInv'
  <2>1. old' \in Pkg \union {NoPkg}
    BY <1>3 DEF StartInstall, Fetched, Recorded, TypeOK
  <2>2. pc' \in {"prepared", "ready"}
    BY <1>3 DEF StartInstall, NextPackage
  <2> QED
    BY <1>3, <2>1, <2>2 DEF StartInstall, TypeOK, onDisk, inMem, Verdicts, Steps
<1>4. CASE UpdateOwnership
  <2>1. Takes \subseteq File /\ cur \in Pkg
    BY <1>4, FileListType DEF UpdateOwnership, Takes
  <2>2. owner' \in [File -> Pkg \union {NoPkg}] /\ changed' \subseteq Pkg
    BY <1>4, <2>1, ClaimType DEF UpdateOwnership, TypeOK
  <2>3. obs' \subseteq File
    BY <1>4, FileListType DEF UpdateOwnership, TypeOK
  <2> QED
    BY <1>4, <2>1, <2>2, <2>3 DEF UpdateOwnership, TypeOK, onDisk, Steps
<1>5. CASE PrermUpgrade
  <2>1. CASE Hosed(changed)
    <3>1. changed \in SUBSET Pkg
      BY DEF TypeOK
    <3> QED
      BY <1>5, <2>1, <3>1, HosedType DEF PrermUpgrade, TypeOK, onDisk, Steps
  <2>2. CASE ~Hosed(changed)
    BY <1>5, <2>2 DEF PrermUpgrade, TypeOK, onDisk, Steps
  <2> QED
    BY <2>1, <2>2
<1>6. CASE Preinst
  <2>1. CASE Hosed(changed)
    <3>1. changed \in SUBSET Pkg
      BY DEF TypeOK
    <3> QED
      BY <1>6, <2>1, <3>1, HosedType DEF Preinst, TypeOK, onDisk, Steps
  <2>2. CASE ~Hosed(changed)
    BY <1>6, <2>2 DEF Preinst, TypeOK, onDisk, Steps
  <2> QED
    BY <2>1, <2>2
<1>7. CASE CheckClashes
  <2> DEFINE here == {f \in FileList(cur) : world.forceOverwrite /\ disk[f] # NoPkg}
             ch == changed \union Flagged(here, cur)
  <2>1. here \in SUBSET File /\ cur \in Pkg
    BY <1>7, FileListType DEF CheckClashes
  <2>2. Claim(here, cur) \in [File -> Pkg \union {NoPkg}] /\ ch \in SUBSET Pkg
    BY <2>1, ClaimType DEF TypeOK
  <2>3. owner' = Claim(here, cur)
    BY <1>7 DEF CheckClashes
  <2>4. \/ pc' = "postrm" /\ changed' = ch /\ UNCHANGED <<status, verdict, old, todo>>
        \/ Hosed(ch)
    BY <1>7 DEF CheckClashes
  <2>5. UNCHANGED <<world, onDisk, obs, dirty, cmd, cur, pending>>
    BY <1>7 DEF CheckClashes
  <2> HIDE DEF here, ch
  <2>6. CASE Hosed(ch)
    BY <2>2, <2>3, <2>5, <2>6, HosedType DEF TypeOK, onDisk, Steps
  <2>7. CASE ~Hosed(ch)
    BY <2>1, <2>2, <2>3, <2>4, <2>5, <2>7 DEF TypeOK, onDisk, Steps
  <2> QED
    BY <2>6, <2>7
<1>8. CASE PostrmUpgrade
  <2>1. CASE Hosed(changed)
    <3>1. changed \in SUBSET Pkg
      BY DEF TypeOK
    <3> QED
      BY <1>8, <2>1, <3>1, HosedType DEF PostrmUpgrade, TypeOK, onDisk, Steps
  <2>2. CASE ~Hosed(changed)
    BY <1>8, <2>2 DEF PostrmUpgrade, TypeOK, onDisk, Steps
  <2> QED
    BY <2>1, <2>2
<1>9. CASE RemoveObsolete
  <2>1. Removable(old) \subseteq File
    BY <1>9, FileListType DEF RemoveObsolete
  <2>2. disk' \in [File -> Pkg \union {NoPkg, User}]
    BY <1>9 DEF RemoveObsolete, TypeOK
  <2> QED
    BY <1>9, <2>1, <2>2 DEF RemoveObsolete, TypeOK, inMem, Steps
<1>10. ASSUME NEW f \in File, RemoveFile(f)
       PROVE  TypeInv'
  BY <1>10 DEF RemoveFile, TypeOK
<1>11. CASE RemoveOldInfo
  BY <1>11 DEF RemoveOldInfo, TypeOK, inMem, Steps
<1>12. CASE InstallScripts
  <2>1. scripts' \in [Names -> Pkg \union {NoPkg}]
    BY <1>12 DEF InstallScripts, TypeOK
  <2>2. CASE Hosed(changed)
    <3>1. changed \in SUBSET Pkg
      BY DEF TypeOK
    <3> QED
      BY <1>12, <2>1, <2>2, <3>1, HosedType DEF InstallScripts, TypeOK, Steps
  <2>3. CASE ~Hosed(changed)
    <3>1. todo' \subseteq File
      BY <1>12, <2>3, FilesType DEF InstallScripts, TypeOK
    <3> QED
      BY <1>12, <2>1, <2>3, <3>1 DEF InstallScripts, TypeOK, Steps
  <2> QED
    BY <2>2, <2>3
<1>13. ASSUME NEW f \in File, ExtractFile(f)
       PROVE  TypeInv'
  BY <1>13 DEF ExtractFile, TypeOK, inMem
<1>14. CASE ExtractFails
  <2>1. changed \in SUBSET Pkg /\ Hosed(changed)
    BY <1>14 DEF ExtractFails, TypeOK
  <2> QED
    BY <1>14, <2>1, HosedType DEF ExtractFails, TypeOK, onDisk, Steps
<1>15. CASE FinishInstall
  <2> DEFINE listed == IF status[cur] = "not-installed" THEN world.files[cur]
                                                        ELSE Owned(owner, cur)
             taken == {f \in listed :
                         /\ disk[f] # NoPkg
                         /\ \/ world.forceOverwrite
                            \/ owner[f] # NoPkg /\ Replaces(cur, owner[f])}
  <2>1. cur \in Pkg
    BY <1>15 DEF FinishInstall
  <2>2. Owned(owner, cur) \subseteq File
    BY DEF Owned
  <2>3. taken \in SUBSET File
    BY <2>1, <2>2, FilesType DEF TypeOK
  <2>4. Claim(taken, cur) \in [File -> Pkg \union {NoPkg}]
        /\ Flagged(taken, cur) \subseteq Pkg
    BY <2>1, <2>3, ClaimType DEF TypeOK
  <2>5. owner' = Claim(taken, cur) /\ changed' = (changed \ {cur}) \union Flagged(taken, cur)
    BY <1>15 DEF FinishInstall
  <2> HIDE DEF taken
  <2>6. status' \in [Pkg -> Statuses]
    BY <1>15, SettleType DEF FinishInstall, Statuses
  <2>7. lists' \in [Names -> SUBSET File]
    BY <1>15, <2>2 DEF FinishInstall, TypeOK
  <2>8. pc' = "ready" /\ verdict' = "ok" /\ old' = NoPkg
        /\ UNCHANGED <<world, disk, scripts, db, obs, dirty, cmd, cur, todo, pending>>
    BY <1>15 DEF FinishInstall
  <2> QED
    BY <2>4, <2>5, <2>6, <2>7, <2>8 DEF TypeOK, Steps, Verdicts
<1>16. ASSUME NEW p \in Pkg, StartRemove(p)
       PROVE  TypeInv'
  <2>1. Removable(p) \subseteq File
    BY FileListType
  <2>2. todo' \subseteq File /\ changed' \subseteq Pkg
    BY <1>16, <2>1 DEF StartRemove, TypeOK
  <2>3. pc' \in Steps \ {"prune", "oldfiles"} /\ verdict' \in Verdicts
    BY <1>16 DEF StartRemove, AfterFailedRemove, Steps, Verdicts
  <2> QED
    BY <1>16, <2>2, <2>3 DEF StartRemove, TypeOK, onDisk
<1>17. CASE RemoveList
  BY <1>17 DEF RemoveList, TypeOK, inMem, Steps
<1>18. CASE FinishRemove
  <2>1. scripts' \in [Names -> Pkg \union {NoPkg}]
    BY <1>18 DEF FinishRemove, TypeOK
  <2>2. status' \in [Pkg -> Statuses]
    BY <1>18 DEF FinishRemove, TypeOK, Statuses
  <2>3. pc' \in {"ready", "stop"} /\ verdict' \in Verdicts
    BY <1>18 DEF FinishRemove, AfterFailedRemove, Verdicts
  <2> QED
    BY <1>18, <2>1, <2>2, <2>3 DEF FinishRemove, TypeOK, Steps
<1>19. CASE BeginConfigure
  BY <1>19 DEF BeginConfigure, TypeOK, onDisk, inMem, Steps, Verdicts
<1>20. ASSUME NEW p \in Pkg, Configure(p)
       PROVE  TypeInv'
  <2>1. status' \in [Pkg -> Statuses]
    BY <1>20 DEF Configure, TypeOK, Statuses
  <2>2. dirty' \in BOOLEAN
    BY <1>20 DEF Configure, TypeOK
  <2> QED
    BY <1>20, <2>1, <2>2 DEF Configure, TypeOK, onDisk
<1>21. ASSUME Forget, db' \in [Pkg -> Statuses], lists' \in [Names -> SUBSET File],
              UNCHANGED <<world, disk, scripts>>
       PROVE  TypeInv'
  BY <1>21 DEF Forget, TypeOK, Statuses, Steps, Verdicts
<1>22. ASSUME NEW W \in SUBSET Pkg
       PROVE  WithLists(W) \in [Names -> SUBSET File]
  BY <1>a DEF WithLists, Owned, TypeOK
<1>23. Rewritten \subseteq Pkg
  BY DEF Rewritten, TypeOK
<1>24. CASE WriteAndExit
  BY <1>21, <1>22, <1>23, <1>24 DEF WriteAndExit, TypeOK
<1>25. CASE Exit
  BY <1>24, <1>25 DEF Exit
<1>26. CASE Interrupt
  BY <1>24, <1>26 DEF Interrupt
<1>27. CASE Crash
  BY <1>21, <1>27 DEF Crash, TypeOK, onDisk
<1>28. CASE CrashWhileWriting
  <2>1. Forget /\ UNCHANGED <<world, disk, scripts>>
    BY <1>28 DEF CrashWhileWriting
  <2>2. db' \in [Pkg -> Statuses]
    BY <1>28 DEF CrashWhileWriting, TypeOK, Statuses
  <2>3. lists' \in [Names -> SUBSET File]
    <3>1. CASE UNCHANGED lists
      BY <3>1 DEF TypeOK
    <3>2. CASE ~UNCHANGED lists
      <4>1. PICK W \in SUBSET Rewritten, t \in Names, L \in SUBSET File :
              lists' = [WithLists(W) EXCEPT
                          ![t] = IF \E p \in Rewritten : name[p] = t THEN L ELSE @]
        BY <1>28, <3>2 DEF CrashWhileWriting
      <4>2. WithLists(W) \in [Names -> SUBSET File]
        BY <1>22, <1>23
      <4> QED
        BY <4>1, <4>2
    <3> QED
      BY <3>1, <3>2
  <2> QED
    BY <1>21, <2>1, <2>2, <2>3
<1>29. CASE UNCHANGED vars
  BY <1>29 DEF vars, onDisk, inMem, control, TypeOK
<1> QED
  BY <1>1, <1>2, <1>3, <1>4, <1>5, <1>6, <1>7, <1>8, <1>9, <1>10, <1>11, <1>12,
     <1>13, <1>14, <1>15, <1>16, <1>17, <1>18, <1>19, <1>20, <1>25, <1>26, <1>27,
     <1>28, <1>29 DEF Next, InstallStep, RemoveStep, ConfigureStep

\* Init satisfies the type invariant.
LEMMA TypeInit == Init => TypeInv
  BY ConstantsOK DEF Init, TypeInv, TypeOK, Engaged, Working, Installing,
                     Statuses, Steps, Verdicts

\* Every variable keeps its type, whatever fails, is interrupted or dies
\* (opkg_install_pkg, opkg_remove_pkg, opkg_configure_packages and the loads
\* and stores around them).
THEOREM TypeCorrect == Spec => []TypeOK
<1>1. TypeInv => TypeOK
  BY DEF TypeInv
<1> QED
  BY TypeInit, TypeStep, <1>1, PTL DEF Spec

(***************************************************************************)
(* One version per name.                                                   *)
(***************************************************************************)

\* Whatever status cur gets, settling leaves one version on record: the other
\* one was old, and old is retired.
LEMMA SettleUnique ==
  ASSUME TypeInv, Versions, pc \in Installing, NEW s \in Statuses
  PROVE  Unique(Settle(s))
<1>1. cur \in Pkg
  BY DEF TypeInv, Engaged, Working
<1>2. CASE old = NoPkg
  BY <1>1, <1>2 DEF Settle, Unique, Versions, OldIsRecorded, TypeInv, TypeOK
<1>3. CASE old # NoPkg
  <2>1. old \in Pkg /\ name[old] = name[cur] /\ status[old] # "not-installed"
    BY <1>3 DEF Versions, OldIsRecorded
  <2>2. \A p \in Pkg \ {old} : name[p] = name[cur] => status[p] = "not-installed"
    BY <2>1 DEF Versions, Unique
  <2> QED
    BY <1>1, <1>3, <2>1, <2>2 DEF Settle, Unique, Versions, TypeInv, TypeOK
<1> QED
  BY <1>2, <1>3

\* A hosed install keeps the versions straight.
LEMMA HosedVersions ==
  ASSUME TypeInv, Versions, pc \in Installing, NEW ch, Hosed(ch), UNCHANGED db
  PROVE  Versions'
<1>1. Unique(Settle("half-installed"))
  BY SettleUnique DEF Statuses
<1> QED
  BY <1>1 DEF Hosed, Versions, Unique, OldIsRecorded, PendingRecorded, Installing

\* A step that changes neither a record, nor old and cur within an install,
\* and enters neither an install nor the configure loop keeps them straight.
LEMMA QuietVersions ==
  ASSUME Versions, UNCHANGED <<status, db>>,
         pc' \in Installing => pc \in Installing /\ UNCHANGED <<old, cur>>,
         pc' = "configuring" => pc = "configuring" /\ pending' \subseteq pending
  PROVE  Versions'
  BY DEF Versions, Unique, OldIsRecorded, PendingRecorded, Installing

\* Every step keeps the versions straight.
LEMMA VersionStep == IInv /\ [Next]_vars => IInv'
<1> SUFFICES ASSUME TypeInv, Versions, [Next]_vars
             PROVE  Versions'
  BY TypeStep DEF IInv
<1>1. ASSUME NEW c \in {"install", "remove", "configure"}, StartCommand(c)
      PROVE  Versions'
  <2>1. status' = db /\ db' = db /\ pc' \notin Installing
    BY <1>1 DEF StartCommand, onDisk, Installing
  <2>2. pc' = "configuring" => pending' = {p \in Pkg : db[p] = "unpacked"}
    BY <1>1 DEF StartCommand
  <2> QED
    BY <2>1, <2>2 DEF Versions, Unique, OldIsRecorded, PendingRecorded
<1>2. ASSUME NEW p \in Pkg, UpToDate(p)
      PROVE  Versions'
  BY <1>2, QuietVersions DEF UpToDate, NextPackage, onDisk, inMem, Installing
<1>3. ASSUME NEW p \in Pkg, StartInstall(p)
      PROVE  Versions'
  <2>1. UNCHANGED <<status, db, pending>> /\ cur' = p /\ pc = "ready"
    BY <1>3 DEF StartInstall, NextPackage, onDisk, inMem
  <2>2. CASE pc' = pc
    BY <2>1, <2>2, QuietVersions DEF Installing
  <2>3. CASE pc' # pc
    <3>1. old' \in Fetched(name[p]) /\ pc' = "prepared"
      BY <1>3, <2>3 DEF StartInstall
    <3>2. old' = NoPkg => Recorded(status, name[p]) = {}
      BY <3>1, NullIsNoPackage DEF Fetched, Recorded
    <3>3. old' # NoPkg => old' \in Recorded(status, name[p])
      BY <3>1 DEF Fetched
    <3>4. OldIsRecorded'
      BY <2>1, <3>2, <3>3 DEF OldIsRecorded, Recorded
    <3> QED
      BY <2>1, <3>1, <3>4 DEF Versions, Unique, PendingRecorded
  <2> QED
    BY <2>2, <2>3
<1>4. CASE UpdateOwnership
  BY <1>4, QuietVersions DEF UpdateOwnership, onDisk, Installing
<1>5. CASE PrermUpgrade
  <2>1. CASE Hosed(changed)
    BY <1>5, <2>1, HosedVersions DEF PrermUpgrade, onDisk, Installing
  <2>2. CASE ~Hosed(changed)
    BY <1>5, <2>2, QuietVersions DEF PrermUpgrade, onDisk, Installing
  <2> QED
    BY <2>1, <2>2
<1>6. CASE Preinst
  <2>1. CASE Hosed(changed)
    BY <1>6, <2>1, HosedVersions DEF Preinst, onDisk, Installing
  <2>2. CASE ~Hosed(changed)
    BY <1>6, <2>2, QuietVersions DEF Preinst, onDisk, Installing
  <2> QED
    BY <2>1, <2>2
<1>7. CASE CheckClashes
  <2>1. pc = "clashes" /\ UNCHANGED <<db, cur, pending>>
    BY <1>7 DEF CheckClashes, onDisk
  <2>2. \/ pc' = "postrm" /\ UNCHANGED <<status, old>>
        \/ \E ch \in {changed \union
                Flagged({f \in FileList(cur) :
                           world.forceOverwrite /\ disk[f] # NoPkg}, cur)} : Hosed(ch)
    BY <1>7 DEF CheckClashes
  <2>3. CASE pc' = "postrm" /\ UNCHANGED <<status, old>>
    BY <2>1, <2>3, QuietVersions DEF Installing
  <2>4. ASSUME NEW ch, Hosed(ch)
        PROVE  Versions'
    BY <2>1, <2>4, HosedVersions DEF Installing
  <2> QED
    BY <2>2, <2>3, <2>4
<1>8. CASE PostrmUpgrade
  <2>1. CASE Hosed(changed)
    BY <1>8, <2>1, HosedVersions DEF PostrmUpgrade, onDisk, Installing
  <2>2. CASE ~Hosed(changed)
    BY <1>8, <2>2, QuietVersions DEF PostrmUpgrade, onDisk, Installing
  <2> QED
    BY <2>1, <2>2
<1>9. CASE RemoveObsolete
  BY <1>9, QuietVersions DEF RemoveObsolete, inMem, Installing
<1>10. ASSUME NEW f \in File, RemoveFile(f)
       PROVE  Versions'
  BY <1>10, QuietVersions DEF RemoveFile, Installing
<1>11. CASE RemoveOldInfo
  BY <1>11, QuietVersions DEF RemoveOldInfo, inMem, Installing
<1>12. CASE InstallScripts
  <2>1. CASE Hosed(changed)
    BY <1>12, <2>1, HosedVersions DEF InstallScripts, Installing
  <2>2. CASE ~Hosed(changed)
    BY <1>12, <2>2, QuietVersions DEF InstallScripts, Installing
  <2> QED
    BY <2>1, <2>2
<1>13. ASSUME NEW f \in File, ExtractFile(f)
       PROVE  Versions'
  BY <1>13, QuietVersions DEF ExtractFile, inMem, Installing
<1>14. CASE ExtractFails
  BY <1>14, HosedVersions DEF ExtractFails, onDisk, Installing
<1>15. CASE FinishInstall
  <2>1. pc \in Installing /\ pc' = "ready" /\ db' = db /\ status' = Settle("unpacked")
    BY <1>15 DEF FinishInstall, Installing
  <2>2. Unique(Settle("unpacked"))
    BY <2>1, SettleUnique DEF Statuses
  <2> QED
    BY <2>1, <2>2 DEF Versions, Unique, OldIsRecorded, PendingRecorded, Installing
<1>16. ASSUME NEW p \in Pkg, StartRemove(p)
       PROVE  Versions'
  BY <1>16, QuietVersions DEF StartRemove, AfterFailedRemove, NextPackage, onDisk, Installing
<1>17. CASE RemoveList
  BY <1>17, QuietVersions DEF RemoveList, inMem, Installing
<1>18. CASE FinishRemove
  <2>1. status' = [status EXCEPT ![cur] = "not-installed"] /\ db' = db
    BY <1>18 DEF FinishRemove
  <2>2. pc' \in {"ready", "stop"}
    BY <1>18 DEF FinishRemove, AfterFailedRemove
  <2> QED
    BY <2>1, <2>2 DEF Versions, Unique, OldIsRecorded, PendingRecorded, Installing,
                      TypeInv, TypeOK
<1>19. CASE BeginConfigure
  BY <1>19 DEF BeginConfigure, onDisk, inMem, Versions, Unique, OldIsRecorded,
               PendingRecorded, Installing
<1>20. ASSUME NEW p \in Pkg, Configure(p)
       PROVE  Versions'
  <2>1. /\ pc = "configuring" /\ pc' = "configuring" /\ db' = db
        /\ pending' = pending \ {p} /\ p \in pending
    BY <1>20 DEF Configure, onDisk
  <2>2. status[p] # "not-installed"
    BY <2>1 DEF Versions, PendingRecorded
  <2>3. status' \in {status, [status EXCEPT ![p] = "installed"]}
    BY <1>20 DEF Configure
  <2>4. \A q \in Pkg : status'[q] = "not-installed" <=> status[q] = "not-installed"
    BY <2>2, <2>3 DEF TypeInv, TypeOK
  <2>5. pending \subseteq Pkg
    BY DEF TypeInv, TypeOK
  <2> QED
    BY <2>1, <2>4, <2>5 DEF Versions, Unique, OldIsRecorded, PendingRecorded, Installing
<1>21. ASSUME Forget, Unique(db)'
       PROVE  Versions'
  BY <1>21 DEF Forget, Versions, Unique, OldIsRecorded, PendingRecorded, Installing
<1>22. CASE WriteAndExit
  <2>1. Unique(db)'
    BY <1>22 DEF WriteAndExit, Versions, Unique
  <2> QED
    BY <1>21, <1>22, <2>1 DEF WriteAndExit
<1>23. CASE Exit
  BY <1>22, <1>23 DEF Exit
<1>24. CASE Interrupt
  BY <1>22, <1>24 DEF Interrupt
<1>25. CASE Crash
  BY <1>21, <1>25 DEF Crash, onDisk, Versions, Unique
<1>26. CASE CrashWhileWriting
  <2>1. Forget /\ \A p \in Pkg : db'[p] \in {status[p], "not-installed"}
    BY <1>26 DEF CrashWhileWriting
  <2>2. Unique(db)'
    BY <2>1 DEF Versions, Unique
  <2> QED
    BY <1>21, <2>1, <2>2
<1>27. CASE UNCHANGED vars
  BY <1>27, QuietVersions DEF vars, onDisk, inMem, control
<1> QED
  BY <1>1, <1>2, <1>3, <1>4, <1>5, <1>6, <1>7, <1>8, <1>9, <1>10, <1>11, <1>12,
     <1>13, <1>14, <1>15, <1>16, <1>17, <1>18, <1>19, <1>20, <1>23, <1>24, <1>25,
     <1>26, <1>27 DEF Next, InstallStep, RemoveStep, ConfigureStep

\* Init satisfies the inductive invariant.
LEMMA VersionInit == Init => IInv
<1> SUFFICES ASSUME Init PROVE Versions
  BY TypeInit DEF IInv
<1> QED
  BY DEF Init, Versions, Unique, OldIsRecorded, PendingRecorded, Installing

\* Two versions of one name are never both on record, in memory or in the
\* status file, whatever fails and wherever the process is interrupted or
\* dies: opkg_install_pkg retires the old version in the step that records
\* the new one.
THEOREM OneVersion == Spec => []OneVersionPerName
<1>1. IInv => OneVersionPerName
  BY DEF IInv, Versions, Unique, OneVersionPerName
<1> QED
  BY VersionInit, VersionStep, <1>1, PTL DEF Spec

(***************************************************************************)
(* Records: the maintainer scripts and the installed-file lists in         *)
(* info_dir belong to the packages on record, for every set of packages,   *)
(* files and options, as long as no process dies half way:                 *)
(*                                                                         *)
(*   ScriptsOfInstalled      Spec => []ScriptsMatch                        *)
(*   NoFileListedTwice       Spec => []ListsDisjoint                       *)
(*                                                                         *)
(* Scripts are replaced while the old version is still on record, and      *)
(* lists are written only when a command ends, from owners that changed    *)
(* many steps before.  So the invariants speak of every point of a         *)
(* command: what is on disk agrees with the status file until the command  *)
(* changes something (AtRest), and from then on with what is in memory.    *)
(***************************************************************************)

(***************************************************************************)
(* Where the engine is, and what that says about its variables.            *)
(***************************************************************************)
Late == {"preinst", "clashes", "postrm", "prune", "oldfiles", "newscripts",
         "extract", "removing", "removed"}

CleanWhenOff == pc = "off" => /\ ~dirty /\ obs = {}
                              /\ \A p \in Pkg : status[p] = "not-installed"
DirtyWhenLate == pc \in Late => dirty
CurIsNew == pc \in Installing => /\ status[cur] \notin InPlace
                                 /\ cur \in world.available
                                 /\ cmd = "install"
CurIsFresh == pc \in Installing /\ NoRetry => status[cur] = "not-installed" /\ old # cur
OldCleared == pc \notin Installing => old = NoPkg
PendingUnpacked == pc = "configuring" => \A p \in pending : status[p] = "unpacked"
RemovedIsFlagged == pc \in {"removing", "removed"} =>
                      /\ cur \in changed /\ status[cur] # "not-installed"
                      /\ cmd # "configure"

Context == /\ CleanWhenOff /\ DirtyWhenLate
           /\ CurIsNew /\ CurIsFresh
           /\ OldCleared /\ PendingUnpacked /\ RemovedIsFlagged

\* Between two packages there is little to say.
LEMMA ContextAtReady ==
  ASSUME pc' \in {"ready", "stop"}, old' = NoPkg
  PROVE  Context'
  BY DEF Context, CleanWhenOff, DirtyWhenLate, CurIsNew, CurIsFresh, OldCleared,
         PendingUnpacked, RemovedIsFlagged, Installing, Late

\* A step of an install that changes neither what is installed nor what is on
\* record, and that comes after a change of state was counted or counts one.
LEMMA ContextInstalling ==
  ASSUME Context, pc \in Installing, pc' \in Installing,
         UNCHANGED <<world, status, cur, old, cmd>>,
         dirty' \/ pc' \notin Late
  PROVE  Context'
  BY DEF Context, CleanWhenOff, DirtyWhenLate, CurIsNew, CurIsFresh, OldCleared,
         PendingUnpacked, RemovedIsFlagged, Installing, NoRetry

\* A version that is recorded already is never its own old version, unless it
\* is a dependency that is retried.
LEMMA StartIsFresh ==
  ASSUME IInv, NEW p \in Pkg, StartInstall(p), NoRetry
  PROVE  status[p] = "not-installed" /\ (pc' # pc => old' # p)
<1>1. PICK q \in Fetched(name[p]) :
        /\ \/ q = NoPkg
           \/ q # NoPkg /\ version[q] < version[p]
           \/ q = p /\ p \in world.dependency
        /\ \/ old' = q /\ pc' = "prepared" /\ verdict' = "none"
           \/ PrepareMayFail /\ verdict' = "failed" /\ UNCHANGED <<old, pc>>
  BY DEF StartInstall
<1>2. q # p
  BY <1>1, NullIsNoPackage, ConstantsOK DEF NoRetry
<1>3. p \notin Recorded(status, name[p])
  <2> SUFFICES ASSUME p \in Recorded(status, name[p])
               PROVE  FALSE
    OBVIOUS
  <2>1. \A r \in Recorded(status, name[p]) : r = p
    BY DEF IInv, Versions, Unique, Recorded
  <2>2. Fetched(name[p]) = {p}
    BY <2>1 DEF Fetched
  <2> QED
    BY <1>1, <1>2, <2>2
<1> QED
  BY <1>1, <1>2, <1>3 DEF Recorded

LEMMA ContextStep == IInv /\ Context /\ [Next]_vars => Context'
<1> SUFFICES ASSUME IInv, Context, [Next]_vars
             PROVE  Context'
  OBVIOUS
<1>a. TypeInv /\ TypeOK
  BY DEF IInv, TypeInv
<1>1. ASSUME NEW c \in {"install", "remove", "configure"}, StartCommand(c)
      PROVE  Context'
  <2>1. /\ pc = "off" /\ status' = db /\ old' = old
        /\ pc' \in {"ready", "configuring"}
        /\ pc' = "configuring" => pending' = {p \in Pkg : db[p] = "unpacked"}
    BY <1>1 DEF StartCommand
  <2>2. old' = NoPkg
    BY <2>1 DEF Context, OldCleared, Installing
  <2> QED
    BY <2>1, <2>2 DEF Context, CleanWhenOff, DirtyWhenLate, CurIsNew, CurIsFresh,
         OldCleared, PendingUnpacked, RemovedIsFlagged, Installing, Late
<1>2. ASSUME NEW p \in Pkg, UpToDate(p)
      PROVE  Context'
  <2>1. pc' = "ready" /\ old' = NoPkg
    BY <1>2 DEF UpToDate, NextPackage, Context, OldCleared, Installing
  <2> QED
    BY <2>1, ContextAtReady
<1>3. ASSUME NEW p \in Pkg, StartInstall(p)
      PROVE  Context'
  <2>1. /\ pc = "ready" /\ cmd = "install" /\ old = NoPkg
        /\ UNCHANGED <<world, status, dirty, cmd>> /\ cur' = p
        /\ status[p] \notin InPlace /\ p \in world.available
    BY <1>3 DEF StartInstall, NextPackage, inMem, Context, OldCleared, Installing
  <2>2. CASE pc' = pc
    <3>1. old' = old
      BY <1>3, <2>1, <2>2 DEF StartInstall
    <3> QED
      BY <2>1, <2>2, <3>1, ContextAtReady
  <2>3. CASE pc' # pc
    <3>1. pc' = "prepared"
      BY <1>3, <2>3 DEF StartInstall
    <3>2. NoRetry => status[p] = "not-installed" /\ old' # p
      BY <1>3, <2>3, StartIsFresh
    <3> QED
      BY <2>1, <3>1, <3>2 DEF Context, CleanWhenOff, DirtyWhenLate, CurIsNew,
           CurIsFresh, OldCleared, PendingUnpacked, RemovedIsFlagged, Installing,
           Late, NoRetry
  <2> QED
    BY <2>2, <2>3
<1>4. CASE UpdateOwnership
  BY <1>4, ContextInstalling DEF UpdateOwnership, Installing, Late
<1>h. ASSUME NEW ch, Hosed(ch)
      PROVE  Context'
  BY <1>h, ContextAtReady DEF Hosed
<1>5. CASE PrermUpgrade
  <2>1. CASE Hosed(changed)
    BY <1>h, <2>1
  <2>2. CASE ~Hosed(changed)
    BY <1>5, <2>2, ContextInstalling DEF PrermUpgrade, Installing
  <2> QED
    BY <2>1, <2>2
<1>d. dirty \/ pc \notin Late
  BY DEF Context, DirtyWhenLate
<1>6. CASE Preinst
  <2>1. CASE Hosed(changed)
    BY <1>h, <2>1
  <2>2. CASE ~Hosed(changed)
    BY <1>d, <1>6, <2>2, ContextInstalling DEF Preinst, Installing, Late
  <2> QED
    BY <2>1, <2>2
<1>7. CASE CheckClashes
  <2>1. pc = "clashes" /\ UNCHANGED <<world, dirty, cur, cmd>>
    BY <1>7 DEF CheckClashes
  <2>2. \/ pc' = "postrm" /\ UNCHANGED <<status, old>>
        \/ \E ch \in {changed \union
                Flagged({f \in FileList(cur) :
                           world.forceOverwrite /\ disk[f] # NoPkg}, cur)} : Hosed(ch)
    BY <1>7 DEF CheckClashes
  <2>3. CASE pc' = "postrm" /\ UNCHANGED <<status, old>>
    BY <1>d, <2>1, <2>3, ContextInstalling DEF Installing, Late
  <2> QED
    BY <1>h, <2>2, <2>3
<1>8. CASE PostrmUpgrade
  <2>1. CASE Hosed(changed)
    BY <1>h, <2>1
  <2>2. CASE ~Hosed(changed)
    BY <1>d, <1>8, <2>2, ContextInstalling DEF PostrmUpgrade, Installing, Late
  <2> QED
    BY <2>1, <2>2
<1>9. CASE RemoveObsolete
  BY <1>d, <1>9, ContextInstalling DEF RemoveObsolete, inMem, Installing, Late
<1>10. ASSUME NEW f \in File, RemoveFile(f)
       PROVE  Context'
  <2>1. UNCHANGED <<world, status, obs, changed, dirty, cmd, pc, cur, old, pending>>
    BY <1>10 DEF RemoveFile
  <2> QED
    BY <2>1 DEF Context, CleanWhenOff, DirtyWhenLate, CurIsNew, CurIsFresh, OldCleared,
         PendingUnpacked, RemovedIsFlagged, NoRetry
<1>11. CASE RemoveOldInfo
  BY <1>d, <1>11, ContextInstalling DEF RemoveOldInfo, inMem, Installing, Late
<1>12. CASE InstallScripts
  <2>1. CASE Hosed(changed)
    BY <1>h, <2>1
  <2>2. CASE ~Hosed(changed)
    BY <1>d, <1>12, <2>2, ContextInstalling DEF InstallScripts, Installing, Late
  <2> QED
    BY <2>1, <2>2
<1>13. ASSUME NEW f \in File, ExtractFile(f)
       PROVE  Context'
  BY <1>d, <1>13, ContextInstalling DEF ExtractFile, inMem, Installing, Late
<1>14. CASE ExtractFails
  BY <1>h, <1>14 DEF ExtractFails
<1>15. CASE FinishInstall
  BY <1>15, ContextAtReady DEF FinishInstall
<1>16. ASSUME NEW p \in Pkg, StartRemove(p)
       PROVE  Context'
  <2>1. /\ old' = NoPkg /\ cur' = p /\ status' = status /\ cmd' = cmd /\ dirty'
        /\ p \in changed' /\ status[p] # "not-installed"
        /\ cmd \in {"install", "remove"}
    BY <1>16 DEF StartRemove, NextPackage, Context, OldCleared, Installing
  <2>2. pc' \in {"ready", "stop", "removing"}
    BY <1>16 DEF StartRemove, AfterFailedRemove
  <2> QED
    BY <2>1, <2>2 DEF Context, CleanWhenOff, DirtyWhenLate, CurIsNew, CurIsFresh,
         OldCleared, PendingUnpacked, RemovedIsFlagged, Installing
<1>17. CASE RemoveList
  BY <1>d, <1>17 DEF RemoveList, inMem, Context, CleanWhenOff, DirtyWhenLate, CurIsNew,
       CurIsFresh, OldCleared, PendingUnpacked, RemovedIsFlagged, Installing, Late
<1>18. CASE FinishRemove
  <2>1. pc' \in {"ready", "stop"}
    BY <1>18 DEF FinishRemove, AfterFailedRemove
  <2>2. old' = NoPkg
    BY <1>18 DEF FinishRemove, Context, OldCleared, Installing
  <2> QED
    BY <2>1, <2>2, ContextAtReady
<1>19. CASE BeginConfigure
  <2>1. old' = NoPkg
    BY <1>19 DEF BeginConfigure, Context, OldCleared, Installing
  <2> QED
    BY <1>19, <2>1 DEF BeginConfigure, inMem, Context, CleanWhenOff, DirtyWhenLate,
         CurIsNew, CurIsFresh, OldCleared, PendingUnpacked, RemovedIsFlagged, Installing,
         Late
<1>20. ASSUME NEW p \in Pkg, Configure(p)
       PROVE  Context'
  <2>1. /\ pc = "configuring" /\ pc' = "configuring" /\ old' = NoPkg
        /\ pending' = pending \ {p}
    BY <1>20 DEF Configure, Context, OldCleared, Installing
  <2>2. \A q \in Pkg \ {p} : status'[q] = status[q]
    BY <1>20, <1>a DEF Configure, TypeOK
  <2>3. \A q \in pending' : status'[q] = "unpacked"
    BY <1>a, <2>1, <2>2 DEF Context, PendingUnpacked, TypeOK
  <2> QED
    BY <2>1, <2>3 DEF Context, CleanWhenOff, DirtyWhenLate, CurIsNew, CurIsFresh,
         OldCleared, PendingUnpacked, RemovedIsFlagged, Installing, Late
<1>21. ASSUME Forget
       PROVE  Context'
  BY <1>21 DEF Forget, Context, CleanWhenOff, DirtyWhenLate, CurIsNew, CurIsFresh,
       OldCleared, PendingUnpacked, RemovedIsFlagged, Installing, Late
<1>22. CASE Exit \/ Interrupt \/ Crash \/ CrashWhileWriting
  BY <1>21, <1>22 DEF Exit, Interrupt, WriteAndExit, Crash, CrashWhileWriting
<1>23. CASE UNCHANGED vars
  BY <1>23 DEF vars, onDisk, inMem, control, Context, CleanWhenOff, DirtyWhenLate,
       CurIsNew, CurIsFresh, OldCleared, PendingUnpacked, RemovedIsFlagged, NoRetry
<1> QED
  BY <1>1, <1>2, <1>3, <1>4, <1>5, <1>6, <1>7, <1>8, <1>9, <1>10, <1>11, <1>12,
     <1>13, <1>14, <1>15, <1>16, <1>17, <1>18, <1>19, <1>20, <1>22, <1>23
     DEF Next, InstallStep, RemoveStep, ConfigureStep

\* Init satisfies both.
LEMMA ContextInit == Init => Context
  BY DEF Init, Context, CleanWhenOff, DirtyWhenLate, CurIsNew, CurIsFresh, OldCleared,
         PendingUnpacked, RemovedIsFlagged, Installing, Late

(***************************************************************************)
(* Scripts.                                                                *)
(***************************************************************************)
Swapping == {"newscripts", "extract"}

\* What is in place has its own scripts, but for the version that is being
\* replaced; what the status file says is in place has them until something
\* changes; and the new version's are in before its files.
ScriptsInMemory ==
  \A p \in Pkg : status[p] \in InPlace /\ ~(p = old /\ pc \in Swapping)
                   => scripts[name[p]] = p
ScriptsAtRest == ~dirty => \A p \in Pkg : db[p] \in InPlace => scripts[name[p]] = p
NewScriptsFirst == pc = "extract" => scripts[name[cur]] = cur

Scripts == Survives => ScriptsInMemory /\ ScriptsAtRest /\ NewScriptsFirst

\* A step that touches no scripts and no record, and leaves the replacing of
\* scripts only by finishing it, keeps them right.
LEMMA QuietScripts ==
  ASSUME Scripts, UNCHANGED <<world, scripts, status, db>>,
         dirty => dirty',
         pc \in Swapping => pc' \in Swapping /\ old' = old,
         pc' = "extract" => pc = "extract" /\ cur' = cur
  PROVE  Scripts'
  BY DEF Scripts, ScriptsInMemory, ScriptsAtRest, NewScriptsFirst, Survives

\* Besides the package itself, what is in place once an install has settled was
\* so before, and has another name.
LEMMA SettledInPlace ==
  ASSUME TypeInv, Versions, pc \in Installing, NEW s \in Statuses,
         NEW p \in Pkg, Settle(s)[p] \in InPlace, p # cur
  PROVE  status[p] \in InPlace /\ p # old /\ name[p] # name[cur]
<1>1. cur \in Pkg /\ status \in [Pkg -> Statuses] /\ p # NoPkg
  BY NullIsNoPackage DEF TypeInv, TypeOK, Engaged, Working
<1>2. old \in Pkg \union {NoPkg}
  BY DEF TypeInv, TypeOK
<1>3. p # old /\ Settle(s)[p] = status[p]
  <2>1. CASE old = NoPkg
    BY <1>1, <2>1 DEF Settle
  <2>2. CASE old # NoPkg
    BY <1>1, <1>2, <2>2 DEF Settle, InPlace
  <2> QED
    BY <2>1, <2>2
<1>4. name[p] = name[cur] => FALSE
  <2> SUFFICES ASSUME name[p] = name[cur]
               PROVE  FALSE
    OBVIOUS
  <2>1. status[p] # "not-installed"
    BY <1>3 DEF InPlace
  <2>2. old # NoPkg => old \in Pkg /\ name[old] = name[cur] /\ status[old] # "not-installed"
    BY DEF Versions, OldIsRecorded
  <2> QED
    BY <1>1, <1>3, <2>1, <2>2 DEF Versions, OldIsRecorded, Unique
<1> QED
  BY <1>1, <1>3, <1>4

\* A failed install leaves the scripts of all other names alone, and what it
\* was to replace is no longer on record.
LEMMA HosedScripts ==
  ASSUME IInv, Scripts, pc \in Installing, NEW ch, Hosed(ch), dirty',
         UNCHANGED <<world, db>>,
         \A n \in Names : n # name[cur] => scripts'[n] = scripts[n]
  PROVE  Scripts'
<1> SUFFICES ASSUME Survives
             PROVE  ScriptsInMemory'
  BY DEF Hosed, Scripts, ScriptsAtRest, NewScriptsFirst, Survives
<1> SUFFICES ASSUME NEW p \in Pkg, status'[p] \in InPlace
             PROVE  scripts'[name[p]] = p
  BY DEF ScriptsInMemory
<1>1. cur \in Pkg /\ "half-installed" \in Statuses /\ name[p] \in Names
  BY ConstantsOK DEF IInv, TypeInv, Engaged, Working, Statuses
<1>2. p # cur
  BY <1>1 DEF Hosed, Settle, InPlace, IInv, TypeInv, TypeOK
<1>3. status[p] \in InPlace /\ p # old /\ name[p] # name[cur]
  BY <1>1, <1>2, SettledInPlace DEF Hosed, IInv
<1> QED
  BY <1>1, <1>3 DEF Scripts, ScriptsInMemory

\* Every step keeps the scripts right.
LEMMA ScriptsStep == IInv /\ Context /\ Scripts /\ [Next]_vars => Scripts'
<1> SUFFICES ASSUME IInv, Context, Scripts, [Next]_vars
             PROVE  Scripts'
  OBVIOUS
<1>a. /\ TypeInv /\ TypeOK /\ Unique(status)
      /\ pc \in Late => dirty
      /\ name \in [Pkg -> Names]
  BY ConstantsOK DEF IInv, TypeInv, Versions, Context, DirtyWhenLate
<1> USE DEF Swapping
<1>1. ASSUME NEW c \in {"install", "remove", "configure"}, StartCommand(c)
      PROVE  Scripts'
  <2>1. /\ pc = "off" /\ status' = db /\ pc' \in {"ready", "configuring"}
        /\ UNCHANGED <<world, scripts, db, dirty>>
    BY <1>1 DEF StartCommand, onDisk
  <2>2. ~dirty
    BY <2>1 DEF Context, CleanWhenOff
  <2> QED
    BY <2>1, <2>2 DEF Scripts, ScriptsInMemory, ScriptsAtRest, NewScriptsFirst, Survives
<1>2. ASSUME NEW p \in Pkg, UpToDate(p)
      PROVE  Scripts'
  BY <1>2, QuietScripts DEF UpToDate, NextPackage, onDisk, inMem
<1>3. ASSUME NEW p \in Pkg, StartInstall(p)
      PROVE  Scripts'
  <2>1. pc = "ready" /\ pc' \in {"ready", "prepared"}
    BY <1>3 DEF StartInstall, NextPackage
  <2> QED
    BY <1>3, <2>1, QuietScripts DEF StartInstall, onDisk, inMem
<1>4. CASE UpdateOwnership
  BY <1>4, QuietScripts DEF UpdateOwnership, onDisk
<1>h. ASSUME NEW ch, Hosed(ch), pc \in Installing, dirty', UNCHANGED <<world, scripts, db>>
      PROVE  Scripts'
  BY <1>h, HosedScripts
<1>5. CASE PrermUpgrade
  <2>1. CASE Hosed(changed)
    BY <1>5, <1>h, <2>1 DEF PrermUpgrade, onDisk, Installing
  <2>2. CASE ~Hosed(changed)
    BY <1>5, <2>2, QuietScripts DEF PrermUpgrade, onDisk
  <2> QED
    BY <2>1, <2>2
<1>6. CASE Preinst
  <2>1. CASE Hosed(changed)
    BY <1>6, <1>a, <1>h, <2>1 DEF Preinst, onDisk, Installing, Late
  <2>2. CASE ~Hosed(changed)
    BY <1>6, <2>2, QuietScripts DEF Preinst, onDisk
  <2> QED
    BY <2>1, <2>2
<1>7. CASE CheckClashes
  <2>1. pc = "clashes" /\ UNCHANGED <<world, scripts, db, dirty, cur>>
    BY <1>7 DEF CheckClashes, onDisk
  <2>2. \/ pc' = "postrm" /\ UNCHANGED <<status, old>>
        \/ \E ch \in {changed \union
                Flagged({f \in FileList(cur) :
                           world.forceOverwrite /\ disk[f] # NoPkg}, cur)} : Hosed(ch)
    BY <1>7 DEF CheckClashes
  <2>3. CASE pc' = "postrm" /\ UNCHANGED <<status, old>>
    BY <2>1, <2>3, QuietScripts
  <2>4. ASSUME NEW ch, Hosed(ch)
        PROVE  Scripts'
    BY <1>a, <1>h, <2>1, <2>4 DEF Installing, Late
  <2> QED
    BY <2>2, <2>3, <2>4
<1>8. CASE PostrmUpgrade
  <2>1. CASE Hosed(changed)
    BY <1>8, <1>a, <1>h, <2>1 DEF PostrmUpgrade, onDisk, Installing, Late
  <2>2. CASE ~Hosed(changed)
    <3>1. /\ pc = "postrm" /\ pc' \in {"newscripts", "prune"}
          /\ UNCHANGED <<world, scripts, status, db, dirty>>
      BY <1>8, <2>2 DEF PostrmUpgrade, onDisk
    <3> QED
      BY <3>1, QuietScripts
  <2> QED
    BY <2>1, <2>2
<1>9. CASE RemoveObsolete
  BY <1>9, QuietScripts DEF RemoveObsolete, inMem
<1>10. ASSUME NEW f \in File, RemoveFile(f)
       PROVE  Scripts'
  BY <1>10, QuietScripts DEF RemoveFile
<1>11. CASE RemoveOldInfo
  <2>1. /\ pc = "oldfiles" /\ pc' = "newscripts"
        /\ scripts' = [scripts EXCEPT ![name[old]] = NoPkg]
        /\ UNCHANGED <<world, status, db, dirty, old>>
    BY <1>11 DEF RemoveOldInfo, inMem
  <2>2. old \in Pkg /\ status[old] # "not-installed" /\ dirty
    BY <1>a, <2>1, NullIsNoPackage
       DEF IInv, TypeInv, Engaged, Versions, OldIsRecorded, Installing, Late
  <2>3. \A p \in Pkg : status[p] \in InPlace /\ name[p] = name[old] => p = old
    BY <1>a, <2>2 DEF Unique, InPlace
  <2> QED
    BY <1>a, <2>1, <2>2, <2>3 DEF Scripts, ScriptsInMemory, ScriptsAtRest, NewScriptsFirst,
         Survives, TypeOK
<1>12. CASE InstallScripts
  <2>1. /\ pc = "newscripts" /\ dirty /\ dirty' = dirty
        /\ cur \in Pkg /\ UNCHANGED <<world, db, cur>>
        /\ scripts' \in {scripts, [scripts EXCEPT ![name[cur]] = cur]}
    BY <1>12, <1>a DEF InstallScripts, TypeInv, Engaged, Working, Installing, Late
  <2>2. \A n \in Names : n # name[cur] => scripts'[n] = scripts[n]
    BY <1>a, <2>1 DEF TypeOK
  <2>3. CASE Hosed(changed)
    BY <2>1, <2>2, <2>3, HosedScripts DEF Installing
  <2>4. CASE ~Hosed(changed)
    <3>1. /\ scripts' = [scripts EXCEPT ![name[cur]] = cur] /\ pc' = "extract"
          /\ UNCHANGED <<status, old>>
      BY <1>12, <2>4 DEF InstallScripts
    <3>2. scripts'[name[cur]] = cur
      BY <1>a, <2>1, <3>1 DEF TypeOK
    <3>3. \A p \in Pkg : status[p] \in InPlace /\ name[p] = name[cur] => p = old
      <4>1. CASE old = NoPkg
        BY <2>1, <4>1 DEF IInv, Versions, OldIsRecorded, Installing, InPlace
      <4>2. CASE old # NoPkg
        BY <2>1, <4>2 DEF IInv, Versions, OldIsRecorded, Installing, InPlace, Unique
      <4> QED
        BY <4>1, <4>2
    <3> QED
      BY <1>a, <2>1, <2>2, <3>1, <3>2, <3>3
         DEF Scripts, ScriptsInMemory, ScriptsAtRest, NewScriptsFirst, Survives
  <2> QED
    BY <2>3, <2>4
<1>13. ASSUME NEW f \in File, ExtractFile(f)
       PROVE  Scripts'
  BY <1>13, QuietScripts DEF ExtractFile, inMem
<1>14. CASE ExtractFails
  BY <1>14, <1>a, <1>h DEF ExtractFails, onDisk, Installing, Late
<1>15. CASE FinishInstall
  <2>1. /\ pc = "extract" /\ pc' = "ready" /\ dirty /\ cur \in Pkg
        /\ status' = Settle("unpacked")
        /\ UNCHANGED <<world, scripts, db, dirty>>
    BY <1>15, <1>a DEF FinishInstall, TypeInv, Engaged, Working, Installing, Late
  <2>2. \A p \in Pkg : p # cur /\ status'[p] \in InPlace => status[p] \in InPlace /\ p # old
    BY <2>1, SettledInPlace DEF IInv, Installing, Statuses
  <2>3. Survives => scripts[name[cur]] = cur
    BY <2>1 DEF Scripts, NewScriptsFirst
  <2> QED
    BY <2>1, <2>2, <2>3 DEF Scripts, ScriptsInMemory, ScriptsAtRest, NewScriptsFirst, Survives
<1>16. ASSUME NEW p \in Pkg, StartRemove(p)
       PROVE  Scripts'
  BY <1>16, QuietScripts DEF StartRemove, AfterFailedRemove, NextPackage, onDisk
<1>17. CASE RemoveList
  BY <1>17, QuietScripts DEF RemoveList, inMem
<1>18. CASE FinishRemove
  <2>1. /\ pc = "removed" /\ pc' \in {"ready", "stop"} /\ dirty /\ cur \in Pkg
        /\ scripts' = [scripts EXCEPT ![name[cur]] = NoPkg]
        /\ status' = [status EXCEPT ![cur] = "not-installed"]
        /\ UNCHANGED <<world, db, dirty>>
    BY <1>18, <1>a DEF FinishRemove, AfterFailedRemove, TypeInv, Engaged, Working, Late
  <2>2. status[cur] # "not-installed"
    BY <2>1 DEF Context, RemovedIsFlagged
  <2>3. \A p \in Pkg : status'[p] \in InPlace =>
          status[p] \in InPlace /\ name[p] # name[cur]
    BY <1>a, <2>1, <2>2 DEF TypeOK, InPlace, Unique
  <2> QED
    BY <1>a, <2>1, <2>3 DEF Scripts, ScriptsInMemory, ScriptsAtRest, NewScriptsFirst,
         Survives, TypeOK
<1>19. CASE BeginConfigure
  BY <1>19, QuietScripts DEF BeginConfigure, onDisk, inMem
<1>20. ASSUME NEW p \in Pkg, Configure(p)
       PROVE  Scripts'
  <2>1. pc = "configuring" /\ pc' = pc /\ UNCHANGED <<world, scripts, db>> /\ (dirty => dirty')
    BY <1>20 DEF Configure, onDisk
  <2>2. status[p] = "unpacked"
    BY <1>20, <2>1 DEF Configure, Context, PendingUnpacked
  <2>3. \A q \in Pkg : status'[q] \in InPlace => status[q] \in InPlace
    BY <1>20, <1>a, <2>2 DEF Configure, TypeOK, InPlace
  <2> QED
    BY <2>1, <2>3 DEF Scripts, ScriptsInMemory, ScriptsAtRest, NewScriptsFirst, Survives
<1>21. CASE Exit \/ Interrupt
  <2>1. /\ pc \notin Swapping /\ Forget /\ UNCHANGED <<world, scripts>>
        /\ db' = IF dirty THEN status ELSE db
    BY <1>21 DEF Exit, Interrupt, Interruptible, WriteAndExit
  <2> QED
    BY <2>1 DEF Forget, Scripts, ScriptsInMemory, ScriptsAtRest, NewScriptsFirst,
         Survives, InPlace
<1>22. CASE Crash \/ CrashWhileWriting
  BY <1>22 DEF Crash, CrashWhileWriting, Scripts, Survives
<1>23. CASE UNCHANGED vars
  BY <1>23, QuietScripts DEF vars, onDisk, inMem, control
<1> QED
  BY <1>1, <1>2, <1>3, <1>4, <1>5, <1>6, <1>7, <1>8, <1>9, <1>10, <1>11, <1>12,
     <1>13, <1>14, <1>15, <1>16, <1>17, <1>18, <1>19, <1>20, <1>21, <1>22, <1>23
     DEF Next, InstallStep, RemoveStep, ConfigureStep

\* Whenever no process dies, the scripts in info_dir under the name of an
\* installed package are those of the installed version: opkg_install_pkg
\* removes the old ones and puts the new ones in while the old version is on
\* record, and whatever fails in between takes that version off the record.
THEOREM ScriptsOfInstalled == Spec => []ScriptsMatch
<1>1. Init => Scripts
  BY DEF Init, Scripts, ScriptsInMemory, ScriptsAtRest, NewScriptsFirst, InPlace
<1>2. Scripts => ScriptsMatch
  BY DEF Scripts, ScriptsInMemory, ScriptsMatch, Busy, Swapping
<1> QED
  BY VersionInit, VersionStep, ContextInit, ContextStep, ScriptsStep, <1>1, <1>2, PTL
     DEF Spec

(***************************************************************************)
(* Lists.                                                                  *)
(***************************************************************************)

\* A command that rebuilt file_hash, and one that has changed nothing that is
\* on disk so far, or never does.
Tracking == pc # "off" /\ cmd # "configure"
AtRest == ~dirty \/ cmd = "configure"

\* opkg configure changes no list and puts nothing in place that was not.
ConfigureKeeps ==
  cmd = "configure" => /\ changed = {}
                       /\ pc = "configuring"
                       /\ \A p \in Pkg : status[p] \in InPlace => db[p] \in InPlace

\* On disk no file is on the lists of two installed packages.
DisjointAtRest ==
  AtRest => \A p, q \in Pkg : p # q /\ db[p] \in InPlace /\ db[q] \in InPlace =>
              lists[name[p]] \intersect lists[name[q]] = {}

\* An installed package that is not marked to have its list written still owns
\* what its list names, but for the old version whose files are being removed.
ListedIsOwned ==
  Tracking => \A p \in Pkg :
    status[p] \in InPlace /\ p \notin changed /\ ~(pc = "oldfiles" /\ p = old)
      => lists[name[p]] \subseteq Owned(owner, p)

ListsAgree == Survives => ConfigureKeeps /\ DisjointAtRest /\ ListedIsOwned

\* The files that are being removed belong to the package they are removed from.
TodoOwned == /\ pc = "removing" => \A f \in todo : owner[f] = cur
             /\ pc = "oldfiles" => \A f \in todo : owner[f] = old

LEMMA TodoStep == TypeOK /\ TodoOwned /\ [Next]_vars => TodoOwned'
<1> SUFFICES ASSUME TypeOK, TodoOwned, [Next]_vars
             PROVE  TodoOwned'
  OBVIOUS
<1>1. CASE UNCHANGED vars
  BY <1>1 DEF vars, inMem, control, TodoOwned
<1>2. ASSUME NEW f \in File, RemoveFile(f)
      PROVE  TodoOwned'
  BY <1>2 DEF RemoveFile, TodoOwned, TypeOK
<1>3. CASE RemoveObsolete
  BY <1>3 DEF RemoveObsolete, inMem, Removable, TodoOwned
<1>4. ASSUME NEW p \in Pkg, StartRemove(p)
      PROVE  TodoOwned'
  BY <1>4 DEF StartRemove, AfterFailedRemove, Removable, TodoOwned
<1>5. CASE pc' \notin {"removing", "oldfiles"}
  BY <1>5 DEF TodoOwned
<1>6. CASE InstallStep /\ ~RemoveObsolete
  BY <1>5, <1>6 DEF InstallStep, UpToDate, StartInstall, NextPackage, UpdateOwnership,
     PrermUpgrade, Preinst, CheckClashes, PostrmUpgrade, RemoveOldInfo, InstallScripts,
     ExtractFile, ExtractFails, FinishInstall, Hosed
<1>7. CASE RemoveList \/ FinishRemove \/ ConfigureStep
  BY <1>5, <1>7 DEF RemoveList, FinishRemove, AfterFailedRemove, ConfigureStep,
     BeginConfigure, Configure
<1>8. CASE Exit \/ Interrupt \/ Crash \/ CrashWhileWriting
  BY <1>5, <1>8 DEF Exit, Interrupt, WriteAndExit, Crash, CrashWhileWriting, Forget
<1>9. ASSUME NEW c \in {"install", "remove", "configure"}, StartCommand(c)
      PROVE  TodoOwned'
  BY <1>5, <1>9 DEF StartCommand
<1> QED
  BY <1>1, <1>2, <1>3, <1>4, <1>6, <1>7, <1>8, <1>9 DEF Next, RemoveStep

\* A step that moves no owner and writes no list.
LEMMA QuietLists ==
  ASSUME ListsAgree, UNCHANGED <<world, lists, db, owner, cmd>>,
         dirty => dirty',
         cmd # "configure",
         pc # "off",
         pc = "oldfiles" => pc' = "oldfiles" /\ old' = old,
         \A p \in Pkg : status'[p] \in InPlace /\ p \notin changed'
                          => status[p] \in InPlace /\ p \notin changed
  PROVE  ListsAgree'
  BY DEF ListsAgree, ConfigureKeeps, DisjointAtRest, ListedIsOwned, Tracking, AtRest,
         Survives, Owned

\* A change of owners marks those that lose a file.
LEMMA ClaimLists ==
  ASSUME TypeOK, ListsAgree, pc # "off", cmd # "configure", pc # "oldfiles",
         NEW F \in SUBSET File, NEW c \in Pkg,
         owner' = Claim(F, c),
         dirty => dirty',
         UNCHANGED <<world, lists, db, cmd>>,
         \A p \in Pkg : status'[p] \in InPlace /\ p \notin changed'
                          => status[p] \in InPlace /\ p \notin changed
                             /\ (p # c => p \notin Flagged(F, c))
  PROVE  ListsAgree'
<1> SUFFICES ASSUME Survives, NEW p \in Pkg, status'[p] \in InPlace, p \notin changed'
             PROVE  lists[name[p]] \subseteq Owned(Claim(F, c), p)
  BY DEF ListsAgree, ConfigureKeeps, DisjointAtRest, ListedIsOwned, Tracking, AtRest, Survives
<1>1. lists[name[p]] \subseteq Owned(owner, p)
  BY DEF ListsAgree, ListedIsOwned, Tracking
<1>2. ASSUME NEW f \in File, owner[f] = p
      PROVE  Claim(F, c)[f] = p
  <2>1. CASE f \in F
    <3>1. owner[f] \in Losers(F)
      BY <1>2, <2>1, NullIsNoPackage DEF Losers
    <3> QED
      BY <1>2, <2>1, <3>1 DEF Flagged, Claim
  <2>2. CASE f \notin F
    BY <1>2, <2>2 DEF Claim
  <2> QED
    BY <2>1, <2>2
<1> QED
  BY <1>1, <1>2 DEF Owned

\* What the lists of the installed packages name once they are written.
LEMMA WrittenIsOwned ==
  ASSUME IInv, ListedIsOwned, Tracking, pc # "oldfiles",
         NEW p \in Pkg, status[p] \in InPlace
  PROVE  WithLists(Rewritten)[name[p]] \subseteq Owned(owner, p)
<1>1. name[p] \in Names
  BY ConstantsOK
<1>2. \A r \in Rewritten : name[r] = name[p] => r = p
  BY DEF Rewritten, InPlace, IInv, TypeInv, TypeOK, Versions, Unique
<1>3. CASE p \in changed
  <2>1. p \in Rewritten
    BY <1>3 DEF Rewritten
  <2>2. {r \in Rewritten : name[r] = name[p]} = {p}
    BY <1>2, <2>1
  <2> QED
    BY <1>1, <2>1, <2>2 DEF WithLists
<1>4. CASE p \notin changed
  <2>1. \A r \in Rewritten : name[r] # name[p]
    BY <1>2, <1>4 DEF Rewritten
  <2>2. WithLists(Rewritten)[name[p]] = lists[name[p]]
    BY <1>1, <2>1 DEF WithLists
  <2> QED
    BY <1>4, <2>2 DEF ListedIsOwned
<1> QED
  BY <1>3, <1>4

\* After a failed install everything in place was so before, and is marked if
\* it was.
LEMMA HosedInPlace ==
  ASSUME IInv, pc \in Installing, NEW ch, Hosed(ch),
         NEW p \in Pkg, status'[p] \in InPlace, p \notin changed'
  PROVE  status[p] \in InPlace /\ p # cur /\ p \notin ch
<1>1. cur \in Pkg /\ "half-installed" \in Statuses
  BY DEF IInv, TypeInv, Engaged, Working, Statuses
<1>2. p # cur
  BY <1>1 DEF Hosed, Settle, InPlace, IInv, TypeInv, TypeOK
<1> QED
  BY <1>1, <1>2, SettledInPlace DEF Hosed, IInv

\* Every step keeps the lists right.
LEMMA ListsStep ==
  IInv /\ Context /\ TodoOwned /\ ListsAgree /\ [Next]_vars => ListsAgree'
<1> SUFFICES ASSUME IInv, Context, TodoOwned, ListsAgree, [Next]_vars, Survives
             PROVE  ListsAgree'
  BY DEF ListsAgree, Survives, Next, vars, onDisk, inMem, StartCommand, InstallStep,
         UpToDate, StartInstall, UpdateOwnership, PrermUpgrade, Preinst, CheckClashes,
         PostrmUpgrade, RemoveObsolete, RemoveOldInfo, InstallScripts, ExtractFile,
         ExtractFails, FinishInstall, RemoveStep, StartRemove, RemoveFile, RemoveList,
         FinishRemove, ConfigureStep, BeginConfigure, Configure, Exit, Interrupt,
         WriteAndExit, Crash, CrashWhileWriting
<1>a. /\ TypeInv /\ TypeOK /\ Unique(status)
      /\ pc \in Late => dirty
      /\ pc \in Installing => cur \in Pkg /\ cmd # "configure"
      /\ name \in [Pkg -> Names]
      /\ ConfigureKeeps /\ DisjointAtRest /\ ListedIsOwned
  BY ConstantsOK DEF IInv, TypeInv, Engaged, Working, Versions, Context, DirtyWhenLate,
     CurIsNew, ListsAgree
<1>h. ASSUME pc \in Installing, pc # "oldfiles", Hosed(changed), dirty => dirty',
             UNCHANGED <<world, lists, db, owner, cmd>>
      PROVE  ListsAgree'
  BY <1>a, <1>h, HosedInPlace, QuietLists DEF Installing
<1>c. cmd = "configure" => pc = "configuring"
  BY <1>a DEF ConfigureKeeps
<1>1. ASSUME NEW c \in {"install", "remove", "configure"}, StartCommand(c)
      PROVE  ListsAgree'
  <2>1. /\ pc = "off" /\ status' = db /\ cmd' = c
        /\ UNCHANGED <<world, lists, db, dirty>>
    BY <1>1 DEF StartCommand, onDisk
  <2>2. ~dirty
    BY <2>1 DEF Context, CleanWhenOff
  <2>3. CASE c = "configure"
    BY <1>1, <1>a, <2>1, <2>2, <2>3 DEF StartCommand, ListsAgree, ConfigureKeeps,
       DisjointAtRest, ListedIsOwned, Tracking, AtRest
  <2>4. CASE c # "configure"
    <3>1. /\ owner' \in [File -> Pkg \union {NoPkg}]
          /\ \A f \in File : IF Claimants(f) = {} THEN owner'[f] = NoPkg
                                                   ELSE owner'[f] \in Claimants(f)
          /\ pc' = "ready"
      BY <1>1, <2>4 DEF StartCommand
    <3>2. ASSUME NEW p \in Pkg, db[p] \in InPlace, NEW f \in lists[name[p]]
          PROVE  f \in Owned(owner', p)
      <4>1. f \in File /\ p \in Claimants(f)
        BY <1>a, <3>2 DEF Claimants, TypeOK
      <4>2. \A q \in Claimants(f) : q = p
        BY <1>a, <2>2, <3>2 DEF Claimants, DisjointAtRest, AtRest
      <4> QED
        BY <3>1, <4>1, <4>2 DEF Owned
    <3> QED
      BY <1>a, <2>1, <2>2, <2>4, <3>1, <3>2 DEF ListsAgree, ConfigureKeeps,
         DisjointAtRest, ListedIsOwned, Tracking, AtRest
  <2> QED
    BY <2>3, <2>4
<1>2. ASSUME NEW p \in Pkg, UpToDate(p)
      PROVE  ListsAgree'
  BY <1>2, QuietLists DEF UpToDate, NextPackage, onDisk, inMem
<1>3. ASSUME NEW p \in Pkg, StartInstall(p)
      PROVE  ListsAgree'
  BY <1>3, QuietLists DEF StartInstall, NextPackage, onDisk, inMem
<1>4. CASE UpdateOwnership
  <2>1. Takes \in SUBSET File /\ cur \in Pkg
    BY <1>4, <1>a, FileListType DEF UpdateOwnership, Takes, Installing
  <2>2. /\ pc = "prepared" /\ owner' = Claim(Takes, cur)
        /\ changed' = changed \union Flagged(Takes, cur)
        /\ UNCHANGED <<world, lists, db, status, dirty, cmd>>
    BY <1>4 DEF UpdateOwnership, onDisk
  <2> QED
    BY <1>a, <2>1, <2>2, ClaimLists DEF Installing
<1>5. CASE PrermUpgrade
  <2>1. CASE Hosed(changed)
    BY <1>5, <1>h, <2>1 DEF PrermUpgrade, onDisk, Installing
  <2>2. CASE ~Hosed(changed)
    BY <1>5, <1>a, <2>2, QuietLists DEF PrermUpgrade, onDisk, Installing
  <2> QED
    BY <2>1, <2>2
<1>6. CASE Preinst
  <2>1. CASE Hosed(changed)
    BY <1>6, <1>h, <2>1 DEF Preinst, onDisk, Installing
  <2>2. CASE ~Hosed(changed)
    BY <1>6, <1>a, <2>2, QuietLists DEF Preinst, onDisk, Installing
  <2> QED
    BY <2>1, <2>2
<1>7. CASE CheckClashes
  <2> DEFINE here == {f \in FileList(cur) : world.forceOverwrite /\ disk[f] # NoPkg}
             ch == changed \union Flagged(here, cur)
  <2>1. pc = "clashes" /\ here \in SUBSET File /\ cur \in Pkg
    BY <1>7, <1>a, FileListType DEF CheckClashes, Installing
  <2>2. owner' = Claim(here, cur) /\ UNCHANGED <<world, lists, db, dirty, cmd>>
    BY <1>7 DEF CheckClashes, onDisk
  <2>3. \/ pc' = "postrm" /\ changed' = ch /\ UNCHANGED <<status, verdict, old, todo>>
        \/ Hosed(ch)
    BY <1>7 DEF CheckClashes
  <2> HIDE DEF here
  <2>4. CASE changed' = ch /\ status' = status
    BY <1>a, <2>1, <2>2, <2>4, ClaimLists DEF Installing
  <2>5. CASE Hosed(ch)
    <3>1. \A p \in Pkg : status'[p] \in InPlace /\ p \notin changed'
                           => status[p] \in InPlace /\ p \notin ch
      <4> HIDE DEF ch
      <4> QED
        BY <2>1, <2>5, HosedInPlace DEF Installing
    <3> QED
      BY <1>a, <2>1, <2>2, <3>1, ClaimLists DEF Installing
  <2> QED
    BY <2>3, <2>4, <2>5
<1>8. CASE PostrmUpgrade
  <2>1. CASE Hosed(changed)
    BY <1>8, <1>h, <2>1 DEF PostrmUpgrade, onDisk, Installing
  <2>2. CASE ~Hosed(changed)
    BY <1>8, <1>a, <2>2, QuietLists DEF PostrmUpgrade, onDisk, Installing
  <2> QED
    BY <2>1, <2>2
<1>9. CASE RemoveObsolete
  BY <1>9, <1>a, QuietLists DEF RemoveObsolete, inMem, Installing
<1>10. ASSUME NEW f \in File, RemoveFile(f)
       PROVE  ListsAgree'
  <2>1. /\ pc \in {"oldfiles", "removing"} /\ f \in todo
        /\ owner' = [owner EXCEPT ![f] = NoPkg]
        /\ UNCHANGED <<world, lists, db, status, changed, dirty, cmd, pc, cur, old>>
    BY <1>10 DEF RemoveFile
  <2>2. /\ pc = "oldfiles" => owner[f] = old
        /\ pc = "removing" => owner[f] = cur /\ cur \in changed
    BY <2>1 DEF TodoOwned, Context, RemovedIsFlagged
  <2>3. \A p \in Pkg : owner[f] # p => Owned(owner, p) = Owned(owner', p)
    BY <1>a, <2>1, NullIsNoPackage DEF Owned, TypeOK
  <2> QED
    BY <1>a, <2>1, <2>2, <2>3 DEF ListsAgree, ConfigureKeeps, DisjointAtRest,
       ListedIsOwned, Tracking, AtRest
<1>11. CASE RemoveOldInfo
  <2>1. /\ pc = "oldfiles" /\ pc' = "newscripts" /\ old \in Pkg
        /\ lists' = [lists EXCEPT ![name[old]] = {}]
        /\ UNCHANGED <<world, status, db, owner, changed, dirty, cmd, old>>
    BY <1>11, <1>a DEF RemoveOldInfo, inMem, TypeInv, Engaged
  <2>2. dirty /\ cmd # "configure"
    BY <1>a, <2>1 DEF Late, Installing
  <2>3. \A p \in Pkg : lists'[name[p]] \subseteq lists[name[p]]
                       /\ (p = old => lists'[name[p]] = {})
    BY <1>a, <2>1 DEF TypeOK
  <2> QED
    BY <1>a, <2>1, <2>2, <2>3 DEF ListsAgree, ConfigureKeeps, DisjointAtRest,
       ListedIsOwned, Tracking, AtRest
<1>12. CASE InstallScripts
  <2>1. CASE Hosed(changed)
    BY <1>12, <1>h, <2>1 DEF InstallScripts, Installing
  <2>2. CASE ~Hosed(changed)
    BY <1>12, <1>a, <2>2, QuietLists DEF InstallScripts, Installing
  <2> QED
    BY <2>1, <2>2
<1>13. ASSUME NEW f \in File, ExtractFile(f)
       PROVE  ListsAgree'
  BY <1>13, <1>a, QuietLists DEF ExtractFile, inMem, Installing
<1>14. CASE ExtractFails
  BY <1>14, <1>h DEF ExtractFails, onDisk, Installing
<1>15. CASE FinishInstall
  <2> DEFINE listed == IF status[cur] = "not-installed" THEN world.files[cur]
                                                        ELSE Owned(owner, cur)
             taken == {f \in listed :
                         /\ disk[f] # NoPkg
                         /\ \/ world.forceOverwrite
                            \/ owner[f] # NoPkg /\ Replaces(cur, owner[f])}
  <2>1. /\ pc = "extract" /\ pc' = "ready" /\ dirty /\ cur \in Pkg /\ cmd # "configure"
        /\ status' = Settle("unpacked")
        /\ lists' = [lists EXCEPT ![name[cur]] = Owned(owner, cur)]
        /\ UNCHANGED <<world, db, dirty, cmd, cur>>
    BY <1>15, <1>a DEF FinishInstall, Installing, Late
  <2>2. owner' = Claim(taken, cur) /\ changed' = (changed \ {cur}) \union Flagged(taken, cur)
    BY <1>15 DEF FinishInstall
  <2>3. taken \in SUBSET File
    BY <1>a, <2>1, FilesType DEF TypeOK, Owned
  <2> HIDE DEF taken
  <2>4. ASSUME NEW p \in Pkg, status'[p] \in InPlace, p \notin changed'
        PROVE  lists'[name[p]] \subseteq Owned(owner', p)
    <3>1. CASE p = cur
      <4>1. lists'[name[p]] = Owned(owner, cur)
        BY <1>a, <2>1, <3>1 DEF TypeOK
      <4> QED
        BY <2>2, <2>3, <3>1, <4>1 DEF Claim, Owned
    <3>2. CASE p # cur
      <4>1. status[p] \in InPlace /\ name[p] # name[cur]
        BY <2>1, <2>4, <3>2, SettledInPlace DEF IInv, Installing, Statuses
      <4>2. p \notin changed /\ p \notin Flagged(taken, cur)
        BY <2>2, <2>4, <3>2
      <4>3. lists'[name[p]] = lists[name[p]]
        BY <1>a, <2>1, <4>1 DEF TypeOK
      <4>4. lists[name[p]] \subseteq Owned(owner, p)
        BY <1>a, <2>1, <4>1, <4>2 DEF ListedIsOwned, Tracking
      <4>5. \A f \in taken : owner[f] # p
        BY <4>2, NullIsNoPackage DEF Flagged, Losers
      <4>6. Owned(owner, p) \subseteq Owned(owner', p)
        BY <2>2, <4>5 DEF Claim, Owned
      <4> QED
        BY <4>3, <4>4, <4>6
    <3> QED
      BY <3>1, <3>2
  <2> QED
    BY <2>1, <2>4 DEF ListsAgree, ConfigureKeeps, DisjointAtRest, ListedIsOwned,
       Tracking, AtRest
<1>16. ASSUME NEW p \in Pkg, StartRemove(p)
       PROVE  ListsAgree'
  BY <1>16, QuietLists DEF StartRemove, NextPackage, onDisk
<1>17. CASE RemoveList
  <2>1. /\ pc = "removing" /\ pc' = "removed" /\ cur \in Pkg
        /\ lists' = [lists EXCEPT ![name[cur]] = {}]
        /\ UNCHANGED <<world, status, db, owner, changed, dirty, cmd>>
    BY <1>17, <1>a DEF RemoveList, inMem, TypeInv, Engaged, Working
  <2>2. dirty /\ cmd # "configure"
    BY <1>a, <2>1 DEF Late, Context, RemovedIsFlagged
  <2>3. \A p \in Pkg : lists'[name[p]] \subseteq lists[name[p]]
    BY <1>a, <2>1 DEF TypeOK
  <2> QED
    BY <1>a, <2>1, <2>2, <2>3 DEF ListsAgree, ConfigureKeeps, DisjointAtRest,
       ListedIsOwned, Tracking, AtRest
<1>18. CASE FinishRemove
  <2>1. /\ pc = "removed"
        /\ status' = [status EXCEPT ![cur] = "not-installed"]
        /\ UNCHANGED <<world, lists, db, owner, changed, dirty, cmd>>
        /\ pc' \in {"ready", "stop"}
    BY <1>18 DEF FinishRemove, AfterFailedRemove
  <2>2. \A p \in Pkg : status'[p] \in InPlace => status[p] \in InPlace
    BY <1>a, <2>1 DEF TypeOK, InPlace
  <2>3. cmd # "configure"
    BY <2>1 DEF Context, RemovedIsFlagged
  <2> QED
    BY <2>1, <2>2, <2>3, QuietLists
<1>19. CASE BeginConfigure
  BY <1>19, QuietLists DEF BeginConfigure, onDisk, inMem
<1>20. ASSUME NEW p \in Pkg, Configure(p)
       PROVE  ListsAgree'
  <2>1. /\ pc = "configuring" /\ pc' = pc
        /\ UNCHANGED <<world, lists, db, owner, changed, cmd>> /\ (dirty => dirty')
    BY <1>20 DEF Configure, onDisk
  <2>2. status[p] = "unpacked"
    BY <1>20, <2>1 DEF Configure, Context, PendingUnpacked
  <2>3. \A q \in Pkg : status'[q] \in InPlace => status[q] \in InPlace
    BY <1>20, <1>a, <2>2 DEF Configure, TypeOK, InPlace
  <2> QED
    BY <1>a, <2>1, <2>3 DEF ListsAgree, ConfigureKeeps, DisjointAtRest, ListedIsOwned,
       Tracking, AtRest, Owned
<1>21. CASE Exit \/ Interrupt
  <2>1. pc # "off" /\ pc # "oldfiles" /\ Forget
    BY <1>21 DEF Exit, Interrupt, Interruptible, WriteAndExit
  <2>2. IF dirty THEN db' = status /\ lists' = WithLists(Rewritten) ELSE UNCHANGED <<db, lists>>
    BY <1>21 DEF Exit, Interrupt, WriteAndExit
  <2>3. ASSUME NEW p \in Pkg, NEW q \in Pkg, p # q, db'[p] \in InPlace, db'[q] \in InPlace
        PROVE  lists'[name[p]] \intersect lists'[name[q]] = {}
    <3>1. CASE ~dirty
      BY <1>a, <2>2, <2>3, <3>1 DEF DisjointAtRest, AtRest
    <3>2. CASE dirty /\ cmd = "configure"
      <4>1. Rewritten = {}
        BY <1>a, <3>2 DEF ConfigureKeeps, Rewritten
      <4>2. lists' = [n \in Names |-> lists[n]]
        BY <2>2, <3>2, <4>1 DEF WithLists
      <4>3. db[p] \in InPlace /\ db[q] \in InPlace
        BY <1>a, <2>2, <2>3, <3>2 DEF ConfigureKeeps
      <4> QED
        BY <1>a, <2>3, <3>2, <4>2, <4>3 DEF DisjointAtRest, AtRest
    <3>3. CASE dirty /\ cmd # "configure"
      <4>1. lists'[name[p]] \subseteq Owned(owner, p) /\ lists'[name[q]] \subseteq Owned(owner, q)
        BY <1>a, <2>1, <2>2, <2>3, <3>3, WrittenIsOwned DEF Tracking
      <4> QED
        BY <2>3, <4>1 DEF Owned
    <3> QED
      BY <3>1, <3>2, <3>3
  <2> QED
    BY <2>1, <2>3 DEF Forget, ListsAgree, ConfigureKeeps, DisjointAtRest, ListedIsOwned,
       Tracking, AtRest
<1>22. CASE Crash \/ CrashWhileWriting
  BY <1>22 DEF Crash, CrashWhileWriting, Survives
<1>23. CASE UNCHANGED vars
  BY <1>23, <1>a DEF vars, onDisk, inMem, control, ListsAgree, ConfigureKeeps,
     DisjointAtRest, ListedIsOwned, Tracking, AtRest, Owned
<1> QED
  BY <1>1, <1>2, <1>3, <1>4, <1>5, <1>6, <1>7, <1>8, <1>9, <1>10, <1>11, <1>12,
     <1>13, <1>14, <1>15, <1>16, <1>17, <1>18, <1>19, <1>20, <1>21, <1>22, <1>23
     DEF Next, InstallStep, RemoveStep, ConfigureStep

\* Whenever no process dies, the lists of two installed packages have no file
\* in common between commands: a package that takes a file of another marks
\* the loser, and whoever is marked and in place when the command ends has its
\* list written from file_hash, where a file has one owner.
THEOREM NoFileListedTwice == Spec => []ListsDisjoint
<1>1. Init => ListsAgree /\ TodoOwned
  BY DEF Init, ListsAgree, ConfigureKeeps, DisjointAtRest, ListedIsOwned, Tracking,
     AtRest, InPlace, TodoOwned
<1>2. Context /\ ListsAgree => ListsDisjoint
  BY DEF Context, CleanWhenOff, ListsAgree, DisjointAtRest, AtRest, ListsDisjoint
<1>3. IInv => TypeOK
  BY DEF IInv, TypeInv
<1> QED
  BY VersionInit, VersionStep, ContextInit, ContextStep, TodoStep, ListsStep, <1>1, <1>2,
     <1>3, PTL DEF Spec

(***************************************************************************)
(* Files: what file_hash and the lists say an installed package has        *)
(* is on disk, for every set of packages, files and options, as long as no *)
(* process dies half way and no package is installed over its own failed   *)
(* installation:                                                           *)
(*                                                                         *)
(*   FilesStay               Spec => []FilesInPlace                        *)
(*   OthersFilesStay         Spec => OnlyOwnFilesDeleted                   *)
(*                                                                         *)
(* Owners change in three steps of an install and files in three others,   *)
(* with points of failure between.  The invariants say what the former     *)
(* promise the latter: once ownership is settled no file of the new        *)
(* version is left without an owner or with the old version (Taken), and   *)
(* once clashes are checked what still belongs to another package may be   *)
(* overwritten (Asked).                                                    *)
(***************************************************************************)

(***************************************************************************)
(* What a step can do to one variable, over all actions.                   *)
(***************************************************************************)

\* The world never changes.
LEMMA WorldFixed == [Next]_vars => world' = world
  BY DEF Next, vars, onDisk, inMem, StartCommand, InstallStep,
     UpToDate, StartInstall, UpdateOwnership, PrermUpgrade, Preinst, CheckClashes,
     PostrmUpgrade, RemoveObsolete, RemoveOldInfo, InstallScripts, ExtractFile,
     ExtractFails, FinishInstall, RemoveStep, StartRemove, RemoveFile, RemoveList,
     FinishRemove, ConfigureStep, BeginConfigure, Configure, Exit, Interrupt,
     WriteAndExit, Crash, CrashWhileWriting

\* The content of a file changes when it is extracted or removed.
LEMMA DiskStep ==
  ASSUME TypeOK, [Next]_vars, NEW f \in File
  PROVE  \/ disk'[f] = disk[f]
         \/ ExtractFile(f)
         \/ RemoveFile(f)
         \/ RemoveObsolete /\ f \in Removable(old) /\ disk'[f] = NoPkg
<1>1. CASE RemoveObsolete
  BY <1>1 DEF RemoveObsolete, TypeOK
<1>2. ASSUME NEW g \in File, ExtractFile(g)
      PROVE  disk'[f] = disk[f] \/ f = g
  BY <1>2 DEF ExtractFile, TypeOK
<1>3. ASSUME NEW g \in File, RemoveFile(g)
      PROVE  disk'[f] = disk[f] \/ f = g
  BY <1>3 DEF RemoveFile, TypeOK
<1>4. CASE /\ ~RemoveObsolete
           /\ \A g \in File : ~ExtractFile(g) /\ ~RemoveFile(g)
  BY <1>4 DEF Next, vars, onDisk, inMem, StartCommand, InstallStep,
     UpToDate, StartInstall, UpdateOwnership, PrermUpgrade, Preinst, CheckClashes,
     PostrmUpgrade, RemoveOldInfo, InstallScripts,
     ExtractFails, FinishInstall, RemoveStep, StartRemove, RemoveList,
     FinishRemove, ConfigureStep, BeginConfigure, Configure, Exit, Interrupt,
     WriteAndExit, Crash, CrashWhileWriting
<1> QED
  BY <1>1, <1>2, <1>3, <1>4

\* The files a finished install takes from the packages it replaces.
TakenAtEnd ==
  {f \in IF status[cur] = "not-installed" THEN world.files[cur] ELSE Owned(owner, cur) :
     /\ disk[f] # NoPkg
     /\ \/ world.forceOverwrite
        \/ owner[f] # NoPkg /\ Replaces(cur, owner[f])}

\* The files an install takes by force.
TakenByForce == {f \in FileList(cur) : world.forceOverwrite /\ disk[f] # NoPkg}

\* Within a command owners change by an install that claims files, or by the
\* removal of a file.
LEMMA OwnerStep ==
  ASSUME [Next]_vars, pc # "off"
  PROVE  \/ UNCHANGED owner
         \/ UpdateOwnership /\ owner' = Claim(Takes, cur)
         \/ CheckClashes /\ owner' = Claim(TakenByForce, cur)
         \/ FinishInstall /\ owner' = Claim(TakenAtEnd, cur)
         \/ \E f \in File : RemoveFile(f)
         \/ Forget
  BY DEF Next, vars, onDisk, inMem, StartCommand, InstallStep,
     UpToDate, StartInstall, UpdateOwnership, PrermUpgrade, Preinst, CheckClashes,
     PostrmUpgrade, RemoveObsolete, RemoveOldInfo, InstallScripts, ExtractFile,
     ExtractFails, FinishInstall, RemoveStep, StartRemove, RemoveList,
     FinishRemove, ConfigureStep, BeginConfigure, Configure, Exit, Interrupt,
     WriteAndExit, Crash, CrashWhileWriting, TakenByForce, TakenAtEnd

\* What is in place after a step of a command was so before, and is not an old
\* version whose replacement has ended; or its install has just finished.
LEMMA StatusStep ==
  ASSUME IInv, Context, [Next]_vars, pc # "off",
         NEW p \in Pkg, status'[p] \in InPlace
  PROVE  \/ status[p] \in InPlace /\ (pc \in Installing => pc' \in Installing \/ p # old)
         \/ FinishInstall /\ p = cur
<1>a. TypeInv /\ TypeOK /\ status \in [Pkg -> Statuses]
  BY DEF IInv, TypeInv, TypeOK
<1>1. ASSUME NEW ch, Hosed(ch), pc \in Installing
      PROVE  status[p] \in InPlace /\ p # old
  <2>1. cur \in Pkg /\ "half-installed" \in Statuses
    BY <1>1, <1>a DEF TypeInv, Engaged, Working, Statuses
  <2>2. p # cur
    BY <1>1, <1>a, <2>1 DEF Hosed, Settle, InPlace
  <2> QED
    BY <1>1, <2>1, <2>2, SettledInPlace DEF Hosed, IInv
<1>2. CASE FinishInstall
  BY <1>2, SettledInPlace DEF FinishInstall, IInv, Installing, Statuses
<1>3. CASE UNCHANGED status /\ (pc \in Installing => pc' \in Installing)
  BY <1>3
<1>4. CASE PrermUpgrade
  BY <1>1, <1>3, <1>4 DEF PrermUpgrade, Installing
<1>5. CASE Preinst
  BY <1>1, <1>3, <1>5 DEF Preinst, Installing
<1>6. CASE CheckClashes
  BY <1>1, <1>3, <1>6 DEF CheckClashes, Installing
<1>7. CASE PostrmUpgrade
  BY <1>1, <1>3, <1>7 DEF PostrmUpgrade, Installing
<1>8. CASE InstallScripts
  BY <1>1, <1>3, <1>8 DEF InstallScripts, Installing
<1>9. CASE ExtractFails
  BY <1>1, <1>9 DEF ExtractFails, Installing
<1>10. CASE UpdateOwnership \/ RemoveObsolete \/ RemoveOldInfo
            \/ \E f \in File : ExtractFile(f) \/ RemoveFile(f)
  BY <1>3, <1>10 DEF UpdateOwnership, RemoveObsolete, RemoveOldInfo, ExtractFile,
     RemoveFile, inMem, Installing
<1>11. CASE RemoveList \/ BeginConfigure
            \/ \E q \in Pkg : UpToDate(q) \/ StartInstall(q) \/ StartRemove(q)
  BY <1>3, <1>11 DEF RemoveList, BeginConfigure, UpToDate, StartInstall, StartRemove,
     NextPackage, inMem, Installing
<1>12. CASE FinishRemove
  BY <1>12, <1>a DEF FinishRemove, InPlace, Installing
<1>13. ASSUME NEW q \in Pkg, Configure(q)
       PROVE  status[p] \in InPlace /\ pc \notin Installing
  <2>1. pc = "configuring" /\ status[q] = "unpacked"
    BY <1>13 DEF Configure, Context, PendingUnpacked
  <2> QED
    BY <1>13, <1>a, <2>1 DEF Configure, InPlace, Installing
<1>14. CASE Exit \/ Interrupt \/ Crash \/ CrashWhileWriting
  BY <1>14 DEF Exit, Interrupt, WriteAndExit, Crash, CrashWhileWriting, Forget, InPlace
<1>15. CASE UNCHANGED vars
  BY <1>3, <1>15 DEF vars, inMem, control
<1>16. \A c \in {"install", "remove", "configure"} : ~StartCommand(c)
  BY DEF StartCommand
<1> QED
  BY <1>2, <1>4, <1>5, <1>6, <1>7, <1>8, <1>9, <1>10, <1>11, <1>12, <1>13, <1>14,
     <1>15, <1>16 DEF Next, InstallStep, RemoveStep, ConfigureStep

\* How an install gets to each of its stages.
LEMMA Came ==
  ASSUME [Next]_vars, pc' \in Installing
  PROVE  \/ UNCHANGED vars
         \/ pc' = "prepared" /\ \E p \in Pkg : StartInstall(p)
         \/ pc' = "owned" /\ UpdateOwnership
         \/ pc' = "preinst" /\ PrermUpgrade /\ UNCHANGED <<status, old>>
         \/ pc' = "clashes" /\ Preinst /\ UNCHANGED <<status, old>>
         \/ pc' = "postrm" /\ CheckClashes /\ UNCHANGED <<status, old>>
         \/ pc' \in {"newscripts", "prune"} /\ PostrmUpgrade /\ UNCHANGED <<status, old>>
         \/ pc' = "oldfiles" /\ RemoveObsolete
         \/ pc' = "oldfiles" /\ \E f \in File : RemoveFile(f)
         \/ pc' = "newscripts" /\ RemoveOldInfo
         \/ pc' = "extract" /\ InstallScripts /\ UNCHANGED <<status, old>>
         \/ pc' = "extract" /\ \E f \in File : ExtractFile(f)
<1>1. CASE InstallStep
  BY <1>1 DEF Installing, InstallStep, UpToDate, StartInstall, NextPackage,
     UpdateOwnership, PrermUpgrade, Preinst, CheckClashes, PostrmUpgrade, RemoveObsolete,
     RemoveOldInfo, InstallScripts, ExtractFile, ExtractFails, FinishInstall, Hosed
<1>2. CASE RemoveStep
  BY <1>2 DEF Installing, RemoveStep, StartRemove, AfterFailedRemove, RemoveFile,
     RemoveList, FinishRemove
<1>3. CASE ConfigureStep
  BY <1>3 DEF Installing, ConfigureStep, BeginConfigure, Configure
<1>4. CASE Exit \/ Interrupt \/ Crash \/ CrashWhileWriting
  BY <1>4 DEF Installing, Exit, Interrupt, WriteAndExit, Crash, CrashWhileWriting, Forget
<1>5. ASSUME NEW c \in {"install", "remove", "configure"}, StartCommand(c)
      PROVE  FALSE
  BY <1>5 DEF Installing, StartCommand
<1> QED
  BY <1>1, <1>2, <1>3, <1>4, <1>5 DEF Next

\* As long as a command has changed nothing, neither has what is on disk.
LEMMA RestStep ==
  ASSUME TypeOK, Context, [Next]_vars, Survives, AtRest', ~Exit, ~Interrupt
  PROVE  AtRest /\ UNCHANGED <<disk, lists, db>>
<1>1. pc \in Late => ~AtRest
  BY DEF Context, DirtyWhenLate, CurIsNew, RemovedIsFlagged, AtRest, Late, Installing
<1>2. ASSUME NEW c \in {"install", "remove", "configure"}, StartCommand(c)
      PROVE  AtRest /\ UNCHANGED <<disk, lists, db>>
  BY <1>2 DEF StartCommand, onDisk, AtRest, Context, CleanWhenOff
<1>3. CASE cmd' = cmd /\ (dirty => dirty') /\ UNCHANGED <<disk, lists, db>>
  BY <1>3 DEF AtRest
<1>4. CASE cmd' = cmd /\ (dirty => dirty') /\ pc \in Late
  BY <1>1, <1>4 DEF AtRest
<1>5. CASE UNCHANGED vars
  BY <1>3, <1>5 DEF vars, onDisk, inMem, control
<1>6. CASE InstallStep
  BY <1>3, <1>4, <1>6 DEF InstallStep, UpToDate, StartInstall, UpdateOwnership,
     PrermUpgrade, Preinst, CheckClashes, PostrmUpgrade, RemoveObsolete, RemoveOldInfo,
     InstallScripts, ExtractFile, ExtractFails, FinishInstall, onDisk, inMem, Late
<1>7. CASE RemoveStep
  BY <1>3, <1>4, <1>7 DEF RemoveStep, StartRemove, RemoveFile, RemoveList, FinishRemove,
     onDisk, inMem, Late
<1>8. CASE ConfigureStep
  BY <1>3, <1>8 DEF ConfigureStep, BeginConfigure, Configure, onDisk, inMem
<1> QED
  BY <1>2, <1>5, <1>6, <1>7, <1>8 DEF Next, Crash, CrashWhileWriting, Survives

\* What the end of a command leaves: what was there, if it changed nothing or
\* only configured, or else the statuses and what the owners say.
LEMMA Saved ==
  ASSUME IInv, Context, ListsAgree, Survives, Exit \/ Interrupt
  PROVE  /\ disk' = disk
         /\ \/ /\ AtRest
               /\ \A p \in Pkg : db'[p] \in InPlace =>
                    db[p] \in InPlace /\ lists'[name[p]] = lists[name[p]]
            \/ /\ Tracking /\ db' = status /\ lists' = WithLists(Rewritten)
               /\ pc \notin {"off", "prune", "oldfiles"}
               /\ \A p \in Pkg : status[p] \in InPlace =>
                    lists'[name[p]] \subseteq Owned(owner, p)
<1>1. /\ pc \notin {"off", "prune", "oldfiles"} /\ disk' = disk
      /\ IF dirty THEN db' = status /\ lists' = WithLists(Rewritten) ELSE UNCHANGED <<db, lists>>
  BY DEF Exit, Interrupt, Interruptible, WriteAndExit
<1>2. CASE ~dirty
  BY <1>1, <1>2 DEF AtRest
<1>3. CASE dirty /\ cmd = "configure"
  <2>1. changed = {} /\ \A p \in Pkg : status[p] \in InPlace => db[p] \in InPlace
    BY <1>3 DEF ListsAgree, ConfigureKeeps
  <2>2. \A p \in Pkg : lists'[name[p]] = lists[name[p]]
    BY <1>1, <1>3, <2>1, ConstantsOK DEF WithLists, Rewritten
  <2> QED
    BY <1>1, <1>3, <2>1, <2>2 DEF AtRest
<1>4. CASE dirty /\ cmd # "configure"
  BY <1>1, <1>4, WrittenIsOwned DEF Tracking, ListsAgree
<1> QED
  BY <1>2, <1>3, <1>4

(***************************************************************************)
(* Packages have and own what their archives bring.                        *)
(***************************************************************************)
Orderly == Survives /\ NoRetry

OwnersBring == \A f \in File, p \in Pkg : owner[f] = p => f \in world.files[p]
DiskBrought == \A f \in File, p \in Pkg : disk[f] = p => f \in world.files[p]
ListsBring  == AtRest => \A p \in Pkg : db[p] \in InPlace =>
                           lists[name[p]] \subseteq world.files[p]
Extracting  == pc = "extract" => /\ todo \subseteq world.files[cur]
                                 /\ \A f \in world.files[cur] \ todo : disk[f] = cur

Brought == Orderly => OwnersBring /\ DiskBrought /\ ListsBring /\ Extracting

\* The list of a package that is being installed is its archive's.
LEMMA NewFileList ==
  ASSUME IInv, Context, Orderly, pc \in Installing
  PROVE  /\ cur \in Pkg /\ status[cur] = "not-installed" /\ old # cur
         /\ FileList(cur) = world.files[cur] /\ world.files[cur] \subseteq File
<1>1. cur \in Pkg /\ world \in Worlds
  BY DEF IInv, TypeInv, TypeOK, Engaged, Working
<1> QED
  BY <1>1, FilesType DEF Context, CurIsFresh, Orderly, FileList

LEMMA BroughtStep ==
  IInv /\ Context /\ ListsAgree /\ Brought /\ [Next]_vars => Brought'
<1> SUFFICES ASSUME IInv, Context, ListsAgree, Brought, [Next]_vars, Orderly
             PROVE  OwnersBring' /\ DiskBrought' /\ ListsBring' /\ Extracting'
  BY WorldFixed DEF Brought, Orderly, Survives, NoRetry
<1>a. /\ TypeInv /\ TypeOK /\ world' = world /\ Survives
      /\ OwnersBring /\ DiskBrought /\ ListsBring /\ Extracting
  BY WorldFixed DEF IInv, TypeInv, Brought, Orderly
<1>1. OwnersBring'
  <2> SUFFICES ASSUME NEW f \in File, NEW p \in Pkg, owner'[f] = p
               PROVE  f \in world.files[p]
    BY <1>a DEF OwnersBring
  <2>1. ASSUME NEW F, F \subseteq FileList(cur), owner' = Claim(F, cur), pc \in Installing
        PROVE  f \in world.files[p]
    BY <1>a, <2>1, NewFileList DEF Claim, OwnersBring
  <2>2. CASE UNCHANGED owner
    BY <1>a, <2>2 DEF OwnersBring
  <2>3. CASE UpdateOwnership /\ owner' = Claim(Takes, cur)
    BY <2>1, <2>3 DEF UpdateOwnership, Takes, Installing
  <2>4. CASE CheckClashes /\ owner' = Claim(TakenByForce, cur)
    BY <2>1, <2>4 DEF CheckClashes, TakenByForce, Installing
  <2>5. CASE FinishInstall /\ owner' = Claim(TakenAtEnd, cur)
    BY <2>1, <2>5, NewFileList DEF FinishInstall, TakenAtEnd, Installing
  <2>6. ASSUME NEW g \in File, RemoveFile(g)
        PROVE  f \in world.files[p]
    BY <1>a, <2>6, NullIsNoPackage DEF RemoveFile, OwnersBring, TypeOK
  <2>7. CASE Forget
    BY <2>7, NullIsNoPackage DEF Forget
  <2>8. CASE pc = "off"
    <3>1. CASE UNCHANGED vars
      BY <1>a, <3>1 DEF vars, inMem, OwnersBring
    <3>2. ASSUME NEW c \in {"install", "remove", "configure"}, StartCommand(c)
          PROVE  f \in world.files[p]
      <4>1. p \in Claimants(f)
        BY <3>2, NullIsNoPackage DEF StartCommand
      <4>2. AtRest
        BY <2>8 DEF Context, CleanWhenOff, AtRest
      <4> QED
        BY <1>a, <4>1, <4>2 DEF Claimants, ListsBring
    <3>3. UNCHANGED vars \/ \E c \in {"install", "remove", "configure"} : StartCommand(c)
      BY <1>a, <2>8 DEF Next, InstallStep, UpToDate, StartInstall, NextPackage,
         UpdateOwnership, PrermUpgrade, Preinst, CheckClashes, PostrmUpgrade,
         RemoveObsolete, RemoveOldInfo, InstallScripts, ExtractFile, ExtractFails,
         FinishInstall, RemoveStep, StartRemove, RemoveFile, RemoveList, FinishRemove,
         ConfigureStep, BeginConfigure, Configure, Exit, Interrupt, Interruptible, Crash,
         CrashWhileWriting
    <3> QED
      BY <3>1, <3>2, <3>3
  <2> QED
    BY <2>2, <2>3, <2>4, <2>5, <2>6, <2>7, <2>8, OwnerStep
<1>2. DiskBrought'
  <2> SUFFICES ASSUME NEW f \in File, NEW p \in Pkg, disk'[f] = p
               PROVE  f \in world.files[p]
    BY <1>a DEF DiskBrought
  <2>1. CASE disk'[f] = disk[f]
    BY <1>a, <2>1 DEF DiskBrought
  <2>2. CASE ExtractFile(f)
    BY <1>a, <2>2 DEF ExtractFile, Extracting, TypeOK
  <2>3. CASE disk'[f] = NoPkg
    BY <2>3, NullIsNoPackage
  <2>4. CASE RemoveFile(f)
    BY <1>a, <2>3, <2>4 DEF RemoveFile, TypeOK
  <2> QED
    BY <1>a, <2>1, <2>2, <2>3, <2>4, DiskStep
<1>3. ListsBring'
  <2> SUFFICES ASSUME AtRest', NEW p \in Pkg, db'[p] \in InPlace
               PROVE  lists'[name[p]] \subseteq world.files[p]
    BY <1>a DEF ListsBring
  <2>1. CASE ~Exit /\ ~Interrupt
    BY <1>a, <2>1, RestStep DEF ListsBring
  <2>2. CASE Exit \/ Interrupt
    <3>1. Owned(owner, p) \subseteq world.files[p]
      BY <1>a DEF Owned, OwnersBring
    <3> QED
      BY <1>a, <2>2, <3>1, Saved DEF ListsBring
  <2> QED
    BY <2>1, <2>2
<1>4. Extracting'
  <2> SUFFICES ASSUME pc' = "extract"
               PROVE  Extracting'
    BY DEF Extracting
  <2>1. CASE UNCHANGED vars
    BY <1>a, <2>1 DEF vars, onDisk, control, Extracting
  <2>2. CASE InstallScripts /\ UNCHANGED <<status, old>>
    <3>1. todo' = world.files[cur] /\ cur' = cur
      BY <2>2 DEF InstallScripts, Hosed
    <3> QED
      BY <1>a, <3>1 DEF Extracting
  <2>3. ASSUME NEW f \in File, ExtractFile(f)
        PROVE  Extracting'
    <3>1. cur \in Pkg /\ world.files[cur] \subseteq File
      BY <2>3, NewFileList DEF ExtractFile, Installing
    <3> QED
      BY <1>a, <2>3, <3>1 DEF ExtractFile, Extracting, TypeOK
  <2> QED
    BY <2>1, <2>2, <2>3, Came DEF Installing
<1> QED
  BY <1>1, <1>2, <1>3, <1>4

(***************************************************************************)
(* No file of the new version is without an owner or left to the old one.  *)
(***************************************************************************)
Settled == {"owned", "preinst", "clashes", "postrm", "prune", "oldfiles",
            "newscripts", "extract"}
Unchecked == {"owned", "preinst", "clashes"}

Taken == Orderly /\ pc \in Settled =>
  \A f \in world.files[cur] :
    /\ owner[f] \notin {NoPkg, old}
    /\ f \in obs /\ pc \in Unchecked => owner[f] = cur

LEMMA TakenStep ==
  IInv /\ Context /\ TodoOwned /\ Taken /\ [Next]_vars => Taken'
<1> SUFFICES ASSUME IInv, Context, TodoOwned, Taken, [Next]_vars, Orderly,
                    pc' \in Settled, NEW f \in world.files[cur']
             PROVE  /\ owner'[f] \notin {NoPkg, old'}
                    /\ f \in obs' /\ pc' \in Unchecked => owner'[f] = cur'
  BY WorldFixed DEF Taken, Orderly, Survives, NoRetry
<1>a. TypeInv /\ TypeOK /\ world' = world
  BY WorldFixed DEF IInv, TypeInv
<1>b. pc \in Installing => /\ cur \in Pkg /\ old # cur /\ FileList(cur) = world.files[cur]
                           /\ world.files[cur] \subseteq File
  BY NewFileList
<1>c. pc \in Settled => \A g \in world.files[cur] :
        /\ owner[g] \notin {NoPkg, old}
        /\ g \in obs /\ pc \in Unchecked => owner[g] = cur
  BY DEF Taken
<1> USE DEF Settled, Unchecked
<1>1. CASE pc \in Settled /\ UNCHANGED <<owner, obs, cur, old>>
           /\ (pc' \in Unchecked => pc \in Unchecked)
  BY <1>1, <1>c
<1>2. CASE UNCHANGED vars
  BY <1>1, <1>2 DEF vars, inMem, control
<1>3. CASE UpdateOwnership
  <2>1. /\ pc = "prepared" /\ owner' = Claim(Takes, cur) /\ UNCHANGED <<cur, old>>
        /\ obs' = obs \union
             IF old = NoPkg THEN {}
             ELSE {g \in FileList(old) : owner'[g] \in {NoPkg, old}}
    BY <1>3 DEF UpdateOwnership
  <2>2. f \in File /\ cur \in Pkg /\ old # cur /\ FileList(cur) = world.files[cur]
    BY <1>b, <2>1 DEF Installing
  <2>3. owner'[f] = IF f \in Takes THEN cur ELSE owner[f]
    BY <2>1, <2>2 DEF Claim
  <2>4. f \notin Takes => owner[f] \notin {NoPkg, old} /\ f \notin obs
    BY <2>1, <2>2 DEF Takes
  <2> QED
    BY <2>1, <2>2, <2>3, <2>4, NullIsNoPackage
<1>4. CASE PrermUpgrade /\ pc' = "preinst" /\ UNCHANGED <<status, old>>
  BY <1>1, <1>4 DEF PrermUpgrade
<1>5. CASE Preinst /\ pc' = "clashes" /\ UNCHANGED <<status, old>>
  BY <1>1, <1>5 DEF Preinst
<1>6. CASE CheckClashes /\ pc' = "postrm" /\ UNCHANGED <<status, old>>
  <2>1. pc = "clashes" /\ cur' = cur /\ owner' = Claim(TakenByForce, cur)
    BY <1>6 DEF CheckClashes, TakenByForce
  <2>2. owner'[f] \in {owner[f], cur} /\ cur \notin {NoPkg, old}
    BY <1>b, <2>1, NullIsNoPackage DEF Claim, Installing
  <2> QED
    BY <1>6, <1>c, <2>1, <2>2
<1>7. CASE PostrmUpgrade /\ pc' \in {"newscripts", "prune"} /\ UNCHANGED <<status, old>>
  BY <1>1, <1>7 DEF PostrmUpgrade
<1>8. CASE RemoveObsolete \/ RemoveOldInfo
  BY <1>1, <1>8 DEF RemoveObsolete, RemoveOldInfo, inMem
<1>9. ASSUME NEW g \in File, RemoveFile(g), pc' = "oldfiles"
      PROVE  owner'[f] \notin {NoPkg, old'}
  <2>1. /\ pc = "oldfiles" /\ owner[g] = old /\ UNCHANGED <<cur, old>>
        /\ owner' = [owner EXCEPT ![g] = NoPkg]
    BY <1>9 DEF RemoveFile, TodoOwned
  <2>2. owner[f] \notin {NoPkg, old}
    BY <1>c, <2>1
  <2> QED
    BY <1>a, <2>1, <2>2 DEF TypeOK
<1>10. CASE InstallScripts /\ pc' = "extract" /\ UNCHANGED <<status, old>>
  BY <1>1, <1>10 DEF InstallScripts
<1>11. ASSUME NEW g \in File, ExtractFile(g)
       PROVE  owner'[f] \notin {NoPkg, old'}
  BY <1>1, <1>11 DEF ExtractFile, inMem
<1> QED
  BY <1>2, <1>3, <1>4, <1>5, <1>6, <1>7, <1>8, <1>9, <1>10, <1>11, Came DEF Installing

(***************************************************************************)
(* What is owned is on disk.                                               *)
(***************************************************************************)
Checked == {"postrm", "prune", "oldfiles", "newscripts", "extract"}

\* What an installed package owns is there, but for what is being removed.
OwnedIsThere ==
  \A f \in File, p \in Pkg :
    owner[f] = p /\ status[p] \in InPlace /\ ~(pc = "oldfiles" /\ f \in todo)
      => Acceptable(p, disk[f])

\* So is what the lists name as long as nothing has changed.
ListedIsThere ==
  AtRest => \A p \in Pkg : db[p] \in InPlace =>
              \A f \in lists[name[p]] : Acceptable(p, disk[f])

\* Once clashes are checked, a file of the new version that still belongs to
\* an installed package belongs to one that it replaces.
Asked ==
  pc \in Checked /\ ~world.forceOverwrite =>
    \A f \in world.files[cur], p \in Pkg :
      owner[f] = p /\ status[p] \in InPlace => Replaces(cur, p)

There == Orderly => OwnedIsThere /\ ListedIsThere /\ Asked

\* A file that is there has content from a package.
LEMMA ThereIsContent ==
  ASSUME NEW p \in Pkg, NEW c, Acceptable(p, c)
  PROVE  c \in Pkg /\ c # NoPkg
  BY NullIsNoPackage DEF Acceptable

\* The version that is being replaced is the only one of its name in place.
LEMMA OldIsTheOnly ==
  ASSUME IInv, pc \in Installing, NEW p \in Pkg, status[p] \in InPlace, name[p] = name[cur]
  PROVE  p = old
<1>1. old = NoPkg => FALSE
  BY DEF IInv, Versions, OldIsRecorded, InPlace
<1>2. old \in Pkg /\ name[old] = name[cur] /\ status[old] # "not-installed"
  BY <1>1 DEF IInv, Versions, OldIsRecorded
<1> QED
  BY <1>2 DEF IInv, Versions, Unique, InPlace

\* Before a command starts nothing else can happen.
LEMMA FromOff ==
  ASSUME [Next]_vars, pc = "off"
  PROVE  \/ UNCHANGED vars
         \/ \E c \in {"install", "remove", "configure"} : StartCommand(c)
         \/ CrashWhileWriting
  BY DEF Next, InstallStep, UpToDate, StartInstall, NextPackage,
     UpdateOwnership, PrermUpgrade, Preinst, CheckClashes, PostrmUpgrade,
     RemoveObsolete, RemoveOldInfo, InstallScripts, ExtractFile, ExtractFails,
     FinishInstall, RemoveStep, StartRemove, RemoveFile, RemoveList, FinishRemove,
     ConfigureStep, BeginConfigure, Configure, Exit, Interrupt, Interruptible, Crash

\* The old version's files are removed to the last one.
LEMMA FromOldFiles ==
  ASSUME [Next]_vars, pc = "oldfiles", Survives
  PROVE  UNCHANGED vars \/ RemoveOldInfo \/ \E f \in File : RemoveFile(f)
  BY DEF Next, StartCommand, InstallStep, UpToDate, StartInstall, NextPackage,
     UpdateOwnership, PrermUpgrade, Preinst, CheckClashes, PostrmUpgrade,
     RemoveObsolete, InstallScripts, ExtractFile, ExtractFails,
     FinishInstall, RemoveStep, StartRemove, RemoveList, FinishRemove,
     ConfigureStep, BeginConfigure, Configure, Exit, Interrupt, Interruptible, Crash,
     CrashWhileWriting, Survives

\* Owners of packages in place are not made within a command but by an install
\* that finishes.
LEMMA OwnerKept ==
  ASSUME IInv, Context, [Next]_vars, Orderly, pc # "off",
         NEW f \in File, NEW p \in Pkg, owner'[f] = p, status'[p] \in InPlace
  PROVE  \/ FinishInstall /\ p = cur
         \/ /\ owner[f] = p /\ status[p] \in InPlace
            /\ pc \in Installing => pc' \in Installing \/ p # old
<1>a. TypeOK /\ p # NoPkg
  BY NullIsNoPackage DEF IInv, TypeInv
<1>b. pc \in Installing => status[cur] \notin InPlace
  BY DEF Context, CurIsNew
<1> SUFFICES ASSUME ~(FinishInstall /\ p = cur)
             PROVE  owner[f] = p
  BY StatusStep
<1>1. status[p] \in InPlace
  BY StatusStep
<1>2. ASSUME NEW F, owner' = Claim(F, cur), pc \in Installing
      PROVE  owner[f] = p
  BY <1>1, <1>2, <1>b DEF Claim
<1>3. ASSUME NEW g \in File, RemoveFile(g)
      PROVE  owner[f] = p
  BY <1>a, <1>3 DEF RemoveFile, TypeOK
<1>4. CASE Forget
  BY <1>4, <1>a DEF Forget
<1> QED
  BY <1>2, <1>3, <1>4, OwnerStep
     DEF UpdateOwnership, CheckClashes, FinishInstall, Installing

LEMMA ThereStep ==
  IInv /\ Context /\ ListsAgree /\ TodoOwned /\ Brought /\ Taken /\ There /\ [Next]_vars
    => There'
<1> SUFFICES ASSUME IInv, Context, ListsAgree, TodoOwned, Brought, Taken, There,
                    [Next]_vars, Orderly
             PROVE  OwnedIsThere' /\ ListedIsThere' /\ Asked'
  BY WorldFixed DEF There, Orderly, Survives, NoRetry
<1>a. /\ TypeInv /\ TypeOK /\ world' = world /\ Survives
      /\ OwnersBring /\ Extracting
      /\ OwnedIsThere /\ ListedIsThere /\ Asked
  BY WorldFixed DEF IInv, TypeInv, Orderly, Brought, There
<1>b. pc \in Installing => /\ cur \in Pkg /\ FileList(cur) = world.files[cur]
                           /\ world.files[cur] \subseteq File
                           /\ status[cur] \notin InPlace
  BY NewFileList DEF InPlace
<1>c. pc \in Settled => \A f \in world.files[cur], p \in Pkg :
        owner[f] = p /\ status[p] \in InPlace => name[p] # name[cur]
  BY OldIsTheOnly DEF Taken, Settled, Installing
<1>1. OwnedIsThere'
  <2> SUFFICES ASSUME NEW f \in File, NEW p \in Pkg, owner'[f] = p, status'[p] \in InPlace,
                      ~(pc' = "oldfiles" /\ f \in todo')
               PROVE  Acceptable(p, disk'[f])
    BY <1>a DEF OwnedIsThere, Acceptable, Replaces
  <2>1. CASE pc = "off"
    <3>1. CASE UNCHANGED vars
      BY <1>a, <3>1 DEF vars, onDisk, inMem, control, OwnedIsThere
    <3>2. ASSUME NEW c \in {"install", "remove", "configure"}, StartCommand(c)
          PROVE  Acceptable(p, disk'[f])
      <4>1. p \in Claimants(f) /\ disk' = disk
        BY <3>2, NullIsNoPackage DEF StartCommand, onDisk
      <4>2. AtRest
        BY <2>1 DEF Context, CleanWhenOff, AtRest
      <4> QED
        BY <1>a, <4>1, <4>2 DEF Claimants, ListedIsThere
    <3> QED
      BY <1>a, <2>1, <3>1, <3>2, FromOff DEF CrashWhileWriting, Survives
  <2>2. CASE FinishInstall /\ p = cur
    <3>1. f \in world.files[cur]
      <4>1. CASE f \in TakenAtEnd
        BY <1>b, <2>2, <4>1, NewFileList DEF TakenAtEnd, FinishInstall, Installing
      <4>2. CASE f \notin TakenAtEnd
        BY <1>a, <1>b, <2>2, <4>2 DEF FinishInstall, Claim, TakenAtEnd, OwnersBring, Installing
      <4> QED
        BY <4>1, <4>2
    <3>2. disk'[f] = cur
      BY <1>a, <2>2, <3>1 DEF FinishInstall, Extracting
    <3> QED
      BY <2>2, <3>2 DEF Acceptable
  <2>3. CASE /\ pc # "off" /\ owner[f] = p /\ status[p] \in InPlace
             /\ pc \in Installing => pc' \in Installing \/ p # old
    <3>1. pc = "oldfiles" => f \notin todo
      <4>1. ASSUME NEW g \in File, RemoveFile(g), f \in todo
            PROVE  pc = pc' /\ f \in todo'
        BY <1>a, <2>3, <4>1, NullIsNoPackage DEF RemoveFile, TypeOK
      <4>2. UNCHANGED vars => pc = pc' /\ todo = todo'
        BY DEF vars, control
      <4> QED
        BY <1>a, <4>1, <4>2, FromOldFiles DEF RemoveOldInfo
    <3>2. Acceptable(p, disk[f])
      BY <1>a, <2>3, <3>1 DEF OwnedIsThere
    <3>3. CASE disk'[f] = disk[f]
      BY <3>2, <3>3
    <3>4. CASE ExtractFile(f)
      <4>1. pc = "extract" /\ cur \in Pkg /\ f \in world.files[cur] /\ disk'[f] = cur
        BY <1>a, <1>b, <3>4 DEF ExtractFile, Extracting, Installing, TypeOK
      <4>2. world.forceOverwrite \/ Replaces(cur, p)
        BY <1>a, <2>3, <4>1 DEF Asked, Checked
      <4> QED
        BY <4>1, <4>2 DEF Acceptable
    <3>5. CASE RemoveFile(f)
      BY <1>a, <2>3, <3>5, NullIsNoPackage DEF RemoveFile, TypeOK
    <3>6. CASE RemoveObsolete /\ f \in Removable(old)
      BY <3>6 DEF RemoveObsolete
    <3> QED
      BY <1>a, <3>3, <3>4, <3>5, <3>6, DiskStep
  <2> QED
    BY <2>1, <2>2, <2>3, OwnerKept
<1>2. ListedIsThere'
  <2> SUFFICES ASSUME AtRest', NEW p \in Pkg, db'[p] \in InPlace, NEW f \in lists'[name[p]]
               PROVE  Acceptable(p, disk'[f])
    BY <1>a DEF ListedIsThere, Acceptable, Replaces
  <2>1. CASE ~Exit /\ ~Interrupt
    BY <1>a, <2>1, RestStep DEF ListedIsThere
  <2>2. CASE Exit \/ Interrupt
    <3>1. CASE AtRest /\ db[p] \in InPlace /\ lists'[name[p]] = lists[name[p]]
      BY <1>a, <2>2, <3>1, Saved DEF ListedIsThere
    <3>2. CASE /\ status[p] \in InPlace /\ f \in Owned(owner, p) /\ pc # "oldfiles"
      BY <1>a, <2>2, <3>2, Saved DEF OwnedIsThere, Owned
    <3> QED
      BY <1>a, <2>2, <3>1, <3>2, Saved
  <2> QED
    BY <2>1, <2>2
<1>3. Asked'
  <2> SUFFICES ASSUME pc' \in Checked, ~world.forceOverwrite, NEW f \in world.files[cur'],
                      NEW p \in Pkg, owner'[f] = p, status'[p] \in InPlace
               PROVE  Replaces(cur', p)
    BY <1>a DEF Asked, Replaces
  <2>1. CASE /\ pc \in Checked /\ UNCHANGED <<status, cur>>
             /\ owner'[f] = owner[f]
    BY <1>a, <2>1 DEF Asked
  <2>2. CASE CheckClashes /\ UNCHANGED <<status, old>>
    <3>1. pc = "clashes" /\ cur' = cur /\ owner' = Claim({}, cur) /\ Clashes = {}
      BY <2>2 DEF CheckClashes, Hosed, Checked
    <3>2. f \in File /\ f \in FileList(cur)
      BY <1>b, <3>1 DEF Installing
    <3>3. owner[f] = p /\ p # NoPkg /\ p # cur
      BY <1>b, <2>2, <3>1, <3>2, NullIsNoPackage DEF Claim, Installing
    <3>4. disk[f] # NoPkg
      BY <1>a, <2>2, <3>1, <3>2, <3>3, ThereIsContent DEF OwnedIsThere
    <3>5. f \notin obs
      BY <1>b, <3>1, <3>3 DEF Taken, Settled, Unchecked, Installing
    <3>6. name[p] # name[cur]
      BY <1>c, <2>2, <3>1, <3>3 DEF Settled
    <3>7. old # NoPkg => name[old] = name[cur]
      BY <3>1 DEF IInv, Versions, OldIsRecorded, Installing
    <3> QED
      BY <3>1, <3>2, <3>3, <3>4, <3>5, <3>6, <3>7 DEF Clashes
  <2>3. CASE UNCHANGED vars
    BY <2>1, <2>3 DEF vars, inMem, control
  <2>4. CASE PostrmUpgrade /\ UNCHANGED <<status, old>>
    BY <2>1, <2>4 DEF PostrmUpgrade, Checked
  <2>5. CASE RemoveObsolete \/ RemoveOldInfo
    BY <2>1, <2>5 DEF RemoveObsolete, RemoveOldInfo, inMem, Checked
  <2>6. ASSUME NEW g \in File, RemoveFile(g)
        PROVE  Replaces(cur', p)
    <3>1. owner'[f] = owner[f]
      BY <1>a, <2>6, NullIsNoPackage DEF RemoveFile, TypeOK
    <3> QED
      BY <2>1, <2>6, <3>1 DEF RemoveFile, Checked
  <2>7. CASE InstallScripts /\ UNCHANGED <<status, old>>
    BY <2>1, <2>7 DEF InstallScripts, Checked
  <2>8. ASSUME NEW g \in File, ExtractFile(g)
        PROVE  Replaces(cur', p)
    BY <2>1, <2>8 DEF ExtractFile, inMem, Checked
  <2> QED
    BY <2>2, <2>3, <2>4, <2>5, <2>6, <2>7, <2>8, Came DEF Checked, Installing
<1> QED
  BY <1>1, <1>2, <1>3

\* Whenever no process dies and no failed package is retried, every file that
\* file_hash gives to an installed package is on disk, and between commands
\* every file on its list, with its contents or with those of a package that
\* replaces it or was forced: check_data_file_clashes asks about each file
\* that extraction will overwrite, long before it does.
THEOREM FilesStay == Spec => []FilesInPlace
<1>1. Init => ListsAgree /\ TodoOwned /\ Brought /\ Taken /\ There
  BY NullIsNoPackage DEF Init, ListsAgree, ConfigureKeeps, DisjointAtRest, ListedIsOwned,
     Tracking, AtRest, InPlace, TodoOwned, Brought, OwnersBring, DiskBrought, ListsBring,
     Extracting, Taken, Settled, There, OwnedIsThere, ListedIsThere, Asked, Checked
<1>2. IInv => TypeOK
  BY DEF IInv, TypeInv
<1>3. IInv /\ Context /\ TodoOwned /\ There => FilesInPlace
  <2> SUFFICES ASSUME IInv, Context, TodoOwned, There, Orderly
               PROVE  OwnedFilesInPlace /\ ListedFilesInPlace
    BY DEF FilesInPlace, OwnedFilesInPlace, ListedFilesInPlace, Orderly
  <2>1. OwnedFilesInPlace
    <3> SUFFICES ASSUME NEW f \in File, owner[f] # NoPkg, status[owner[f]] \in InPlace,
                        ~Busy(owner[f])
                 PROVE  Acceptable(owner[f], disk[f])
      BY DEF OwnedFilesInPlace
    <3>1. owner[f] \in Pkg
      BY DEF IInv, TypeInv, TypeOK
    <3>2. pc = "oldfiles" => f \notin todo
      BY DEF TodoOwned, Busy
    <3> QED
      BY <3>1, <3>2 DEF There, OwnedIsThere
  <2>2. ListedFilesInPlace
    BY DEF ListedFilesInPlace, There, ListedIsThere, AtRest, Context, CleanWhenOff
  <2> QED
    BY <2>1, <2>2
<1> QED
  BY VersionInit, VersionStep, ContextInit, ContextStep, TodoStep, ListsStep, BroughtStep,
     TakenStep, ThereStep, <1>1, <1>2, <1>3, PTL DEF Spec

(***************************************************************************)
(* What one installed package owns is not another one's on disk.           *)
(***************************************************************************)
OwnedIsNoOthers ==
  \A f \in File, p, q \in Pkg :
    owner[f] = p /\ disk[f] = q /\ status[p] \in InPlace /\ status[q] \in InPlace => p = q

ListedIsNoOthers ==
  AtRest => \A p, q \in Pkg : db[p] \in InPlace /\ db[q] \in InPlace =>
              \A f \in lists[name[p]] : disk[f] = q => p = q

Apart == Orderly => OwnedIsNoOthers /\ ListedIsNoOthers

\* What a finished install leaves to others it neither replaces nor brings.
LEMMA FinishedOwns ==
  ASSUME IInv, Context, Brought, Taken, There, Orderly, FinishInstall,
         NEW f \in File, disk[f] = cur, owner'[f] # cur,
         owner[f] \in Pkg => status[owner[f]] \in InPlace
  PROVE  FALSE
<1>1. /\ pc = "extract" /\ owner' = Claim(TakenAtEnd, cur)
      /\ status[cur] = "not-installed" /\ cur \in Pkg
  BY NewFileList DEF FinishInstall, TakenAtEnd, Installing
<1>2. f \in world.files[cur]
  BY <1>1 DEF Brought, DiskBrought
<1>3. f \notin TakenAtEnd
  BY <1>1 DEF Claim
<1>4. owner[f] \in Pkg
  BY <1>1, <1>2 DEF Taken, Settled, IInv, TypeInv, TypeOK
<1>5. ~world.forceOverwrite /\ ~Replaces(cur, owner[f])
  BY <1>1, <1>2, <1>3, <1>4, NullIsNoPackage DEF TakenAtEnd
<1> QED
  BY <1>1, <1>2, <1>4, <1>5 DEF There, Asked, Checked

LEMMA ApartStep ==
  IInv /\ Context /\ ListsAgree /\ Brought /\ Taken /\ There /\ Apart /\ [Next]_vars
    => Apart'
<1> SUFFICES ASSUME IInv, Context, ListsAgree, Brought, Taken, There, Apart,
                    [Next]_vars, Orderly
             PROVE  OwnedIsNoOthers' /\ ListedIsNoOthers'
  BY WorldFixed DEF Apart, Orderly, Survives, NoRetry
<1>a. /\ TypeInv /\ TypeOK /\ Survives /\ NoPkg \notin Pkg
      /\ OwnersBring /\ Extracting /\ OwnedIsNoOthers /\ ListedIsNoOthers
  BY NullIsNoPackage DEF IInv, TypeInv, Orderly, Brought, Apart
<1>1. OwnedIsNoOthers'
  <2> SUFFICES ASSUME NEW f \in File, NEW p \in Pkg, NEW q \in Pkg,
                      owner'[f] = p, disk'[f] = q,
                      status'[p] \in InPlace, status'[q] \in InPlace
               PROVE  p = q
    BY DEF OwnedIsNoOthers
  <2>1. CASE pc = "off"
    <3>1. CASE UNCHANGED vars
      BY <1>a, <3>1 DEF vars, onDisk, inMem, OwnedIsNoOthers
    <3>2. ASSUME NEW c \in {"install", "remove", "configure"}, StartCommand(c)
          PROVE  p = q
      <4>1. p \in Claimants(f) /\ disk' = disk /\ status' = db
        BY <1>a, <3>2 DEF StartCommand, onDisk
      <4>2. AtRest
        BY <2>1 DEF Context, CleanWhenOff, AtRest
      <4> QED
        BY <1>a, <4>1, <4>2 DEF Claimants, ListedIsNoOthers
    <3> QED
      BY <1>a, <2>1, <3>1, <3>2, FromOff DEF CrashWhileWriting, Survives
  <2>2. CASE FinishInstall
    <3>1. disk' = disk /\ pc = "extract" /\ owner' = Claim(TakenAtEnd, cur)
      BY <2>2 DEF FinishInstall, TakenAtEnd
    <3>2. CASE p = cur
      <4>1. f \in world.files[cur]
        BY <1>a, <2>2, <3>1, <3>2, NewFileList
           DEF Claim, TakenAtEnd, OwnersBring, Installing
      <4> QED
        BY <1>a, <2>2, <3>1, <3>2, <4>1 DEF Extracting, FinishInstall
    <3>3. CASE p # cur
      <4>1. owner[f] = p /\ status[p] \in InPlace
        BY <1>a, <2>2, <3>1, <3>3, OwnerKept
      <4>2. q # cur
        BY <2>2, <3>1, <3>3, <4>1, FinishedOwns
      <4>3. status[q] \in InPlace
        BY <2>2, <3>1, <4>2, StatusStep
      <4> QED
        BY <1>a, <3>1, <4>1, <4>3 DEF OwnedIsNoOthers
    <3> QED
      BY <3>2, <3>3
  <2>3. CASE pc # "off" /\ ~FinishInstall
    <3>1. owner[f] = p /\ status[p] \in InPlace /\ status[q] \in InPlace
      BY <2>3, OwnerKept, StatusStep
    <3>2. CASE disk'[f] = disk[f]
      BY <1>a, <3>1, <3>2 DEF OwnedIsNoOthers
    <3>3. ~ExtractFile(f)
      BY <1>a, <3>1 DEF ExtractFile, TypeOK, Context, CurIsNew, Installing
    <3>4. ~RemoveFile(f)
      BY <1>a DEF RemoveFile, TypeOK
    <3> QED
      BY <1>a, <3>2, <3>3, <3>4, DiskStep
  <2> QED
    BY <2>1, <2>2, <2>3
<1>2. ListedIsNoOthers'
  <2> SUFFICES ASSUME AtRest', NEW p \in Pkg, NEW q \in Pkg,
                      db'[p] \in InPlace, db'[q] \in InPlace,
                      NEW f \in lists'[name[p]], disk'[f] = q
               PROVE  p = q
    BY DEF ListedIsNoOthers
  <2>1. CASE ~Exit /\ ~Interrupt
    BY <1>a, <2>1, RestStep DEF ListedIsNoOthers
  <2>2. CASE Exit \/ Interrupt
    <3>1. CASE /\ AtRest
               /\ \A r \in Pkg : db'[r] \in InPlace =>
                    db[r] \in InPlace /\ lists'[name[r]] = lists[name[r]]
      BY <1>a, <2>2, <3>1, Saved DEF ListedIsNoOthers
    <3>2. CASE db' = status /\ f \in Owned(owner, p)
      BY <1>a, <2>2, <3>2, Saved DEF OwnedIsNoOthers, Owned
    <3> QED
      BY <1>a, <2>2, <3>1, <3>2, Saved
  <2> QED
    BY <2>1, <2>2
<1> QED
  BY <1>1, <1>2

(***************************************************************************)
(* In a command that handles one package.                                  *)
(***************************************************************************)

\* A command that has not handled its package yet.
Fresh == pc = "ready" /\ verdict = "none"

\* Who owns a file is in place, or is being installed.
OwnersStand ==
  Fresh \/ pc \in Installing \union {"removing"} =>
    \A f \in File, p \in Pkg :
      owner[f] = p => status[p] \in InPlace \/ (pc \in Installing /\ p = cur)

\* No file is obsolete before its owner is replaced.
NothingObsolete == Fresh \/ pc = "prepared" => obs = {}

Single == Orderly /\ ~world.batch => OwnersStand /\ NothingObsolete

\* How a command gets to handle its package.
LEMMA Begins ==
  ASSUME [Next]_vars, ~world.batch
  PROVE  /\ Fresh' => \/ UNCHANGED vars
                      \/ \E c \in {"install", "remove"} : StartCommand(c)
         /\ pc' = "prepared" => \/ UNCHANGED vars
                                \/ Fresh /\ \E p \in Pkg : StartInstall(p)
         /\ pc' = "removing" => \/ UNCHANGED vars
                                \/ Fresh /\ \E p \in Pkg : StartRemove(p)
                                \/ pc = "removing" /\ \E f \in File : RemoveFile(f)
<1>1. CASE UNCHANGED vars
  BY <1>1
<1>2. ASSUME NEW c \in {"install", "remove", "configure"}, StartCommand(c)
      PROVE  pc' \in {"ready", "configuring"} /\ (pc' = "ready" => c \in {"install", "remove"})
  BY <1>2 DEF StartCommand
<1>3. CASE InstallStep
  BY <1>3 DEF Fresh, InstallStep, UpToDate, StartInstall, NextPackage,
     UpdateOwnership, PrermUpgrade, Preinst, CheckClashes, PostrmUpgrade, RemoveObsolete,
     RemoveOldInfo, InstallScripts, ExtractFile, ExtractFails, FinishInstall, Hosed
<1>4. CASE RemoveStep
  BY <1>4 DEF Fresh, RemoveStep, StartRemove, NextPackage, AfterFailedRemove, RemoveFile,
     RemoveList, FinishRemove
<1>5. CASE ConfigureStep
  BY <1>5 DEF Fresh, ConfigureStep, BeginConfigure, Configure
<1>6. CASE Exit \/ Interrupt \/ Crash \/ CrashWhileWriting
  BY <1>6 DEF Fresh, Exit, Interrupt, WriteAndExit, Crash, CrashWhileWriting, Forget
<1> QED
  BY <1>1, <1>2, <1>3, <1>4, <1>5, <1>6 DEF Next, Fresh

LEMMA SingleStep == IInv /\ Context /\ Single /\ [Next]_vars => Single'
<1> SUFFICES ASSUME IInv, Context, Single, [Next]_vars, Orderly, ~world.batch
             PROVE  OwnersStand' /\ NothingObsolete'
  BY WorldFixed DEF Single, Orderly, Survives, NoRetry
<1>a. /\ TypeInv /\ TypeOK /\ OwnersStand /\ NothingObsolete /\ NoPkg \notin Pkg
  BY NullIsNoPackage DEF IInv, TypeInv, Single
<1>1. OwnersStand'
  <2> SUFFICES ASSUME Fresh' \/ pc' \in Installing \union {"removing"},
                      NEW f \in File, NEW p \in Pkg, owner'[f] = p
               PROVE  status'[p] \in InPlace \/ (pc' \in Installing /\ p = cur')
    BY DEF OwnersStand
  <2>1. CASE UNCHANGED vars
    BY <1>a, <2>1 DEF vars, inMem, control, OwnersStand, Fresh
  <2>2. ASSUME NEW c \in {"install", "remove", "configure"}, StartCommand(c)
        PROVE  status'[p] \in InPlace
    BY <1>a, <2>2 DEF StartCommand, Claimants
  <2>3. CASE /\ Fresh \/ pc \in Installing \union {"removing"}
             /\ owner[f] = p /\ status' = status
             /\ pc \in Installing => pc' \in Installing /\ cur' = cur
    BY <1>a, <2>3 DEF OwnersStand
  <2>4. ASSUME NEW q \in Pkg, Fresh, StartInstall(q) \/ StartRemove(q)
        PROVE  status'[p] \in InPlace \/ (pc' \in Installing /\ p = cur')
    BY <2>3, <2>4 DEF StartInstall, StartRemove, inMem, Installing, Fresh
  <2>5. ASSUME NEW g \in File, RemoveFile(g)
        PROVE  status'[p] \in InPlace \/ (pc' \in Installing /\ p = cur')
    BY <1>a, <2>3, <2>5 DEF RemoveFile, TypeOK, Installing
  <2>6. ASSUME NEW F, owner' = Claim(F, cur), pc \in Installing, pc' \in Installing,
               UNCHANGED <<status, cur>>
        PROVE  status'[p] \in InPlace \/ (pc' \in Installing /\ p = cur')
    BY <1>a, <2>6 DEF Claim, OwnersStand
  <2>7. CASE UpdateOwnership
    BY <2>6, <2>7 DEF UpdateOwnership, Installing
  <2>8. CASE CheckClashes /\ pc' \in Installing /\ UNCHANGED <<status, old>>
    BY <2>6, <2>8 DEF CheckClashes, Installing
  <2>9. CASE /\ pc' \in Installing /\ UNCHANGED <<status, old>>
             /\ PrermUpgrade \/ Preinst \/ PostrmUpgrade \/ InstallScripts
    BY <2>3, <2>9 DEF PrermUpgrade, Preinst, PostrmUpgrade, InstallScripts, Installing
  <2>10. CASE RemoveObsolete \/ RemoveOldInfo \/ \E g \in File : ExtractFile(g)
    BY <2>3, <2>10 DEF RemoveObsolete, RemoveOldInfo, ExtractFile, inMem, Installing
  <2> QED
    BY <2>1, <2>2, <2>4, <2>5, <2>7, <2>8, <2>9, <2>10, Begins, Came DEF Installing
<1>2. NothingObsolete'
  <2> SUFFICES ASSUME Fresh' \/ pc' = "prepared"
               PROVE  obs' = {}
    BY DEF NothingObsolete
  <2>1. CASE UNCHANGED vars
    BY <1>a, <2>1 DEF vars, inMem, control, NothingObsolete, Fresh
  <2>2. ASSUME NEW c \in {"install", "remove"}, StartCommand(c)
        PROVE  obs' = {}
    BY <2>2 DEF StartCommand, Context, CleanWhenOff
  <2>3. ASSUME NEW p \in Pkg, Fresh, StartInstall(p)
        PROVE  obs' = {}
    BY <1>a, <2>3 DEF StartInstall, inMem, NothingObsolete
  <2> QED
    BY <2>1, <2>2, <2>3, Begins
<1> QED
  BY <1>1, <1>2

\* When no process dies and no failed package is retried, a file of an
\* installed package is removed only with that package or by the version that
\* supersedes it, or in a command that handles several packages by one whose
\* own installation has failed: remove_data_files_and_list asks file_hash for
\* the owner of each file, and file_hash gives no file of one installed package
\* to another.
THEOREM OthersFilesStay == Spec => OnlyOwnFilesDeleted
<1> DEFINE Inv == /\ IInv /\ Context /\ ListsAgree /\ TodoOwned
                  /\ Brought /\ Taken /\ There /\ Apart /\ Single
<1>1. Init => Inv
  <2>1. Init => ListsAgree /\ TodoOwned /\ Brought /\ Taken /\ There /\ Apart /\ Single
    BY NullIsNoPackage DEF Init, ListsAgree, ConfigureKeeps, DisjointAtRest, ListedIsOwned,
       Tracking, AtRest, InPlace, TodoOwned, Brought, OwnersBring, DiskBrought, ListsBring,
       Extracting, Taken, Settled, There, OwnedIsThere, ListedIsThere, Asked, Checked,
       Apart, OwnedIsNoOthers, ListedIsNoOthers, Single, OwnersStand, NothingObsolete,
       Fresh, Installing
  <2> QED
    BY <2>1, VersionInit, ContextInit
<1>2. Inv /\ [Next]_vars => Inv'
  BY VersionStep, ContextStep, TodoStep, ListsStep, BroughtStep, TakenStep, ThereStep,
     ApartStep, SingleStep DEF IInv, TypeInv
<1>3. Inv /\ [Next]_vars => [DeletesOwn]_vars
  <2> SUFFICES ASSUME Inv, [Next]_vars, Orderly, NEW f \in File, NEW p \in Pkg,
                      disk[f] = p, disk'[f] = NoPkg, status[p] \in InPlace
               PROVE  p \in {cur, old} \/ (world.batch /\ status[Leaving] = "half-installed")
    BY DEF DeletesOwn, Orderly
  <2>a. TypeInv /\ TypeOK /\ NoPkg \notin Pkg
    BY NullIsNoPackage DEF IInv, TypeInv
  <2>1. /\ owner[f] = Leaving /\ Leaving \in Pkg /\ Leaving \in {cur, old}
        /\ status[Leaving] # "not-installed"
        /\ pc = "removing" \/ (pc \in Installing /\ Leaving # cur)
    <3>1. CASE RemoveFile(f)
      <4>1. CASE pc = "removing"
        BY <2>a, <3>1, <4>1
           DEF RemoveFile, TodoOwned, Leaving, Context, RemovedIsFlagged, TypeInv, Engaged,
               Working
      <4>2. CASE pc = "oldfiles"
        BY <2>a, <3>1, <4>2, NewFileList
           DEF RemoveFile, TodoOwned, Leaving, IInv, Versions, OldIsRecorded, TypeInv,
               Engaged, Installing
      <4> QED
        BY <3>1, <4>1, <4>2 DEF RemoveFile
    <3>2. CASE RemoveObsolete /\ f \in Removable(old)
      BY <2>a, <3>2, NewFileList
         DEF RemoveObsolete, Removable, Leaving, IInv, Versions, OldIsRecorded, TypeInv,
             Engaged, Installing
    <3>3. CASE ExtractFile(f)
      BY <2>a, <3>3 DEF ExtractFile, TypeOK, TypeInv, Engaged, Working, Installing
    <3> QED
      BY <2>a, <3>1, <3>2, <3>3, DiskStep
  <2>2. CASE status[Leaving] \in InPlace
    BY <2>1, <2>2 DEF Apart, OwnedIsNoOthers
  <2>3. CASE status[Leaving] \notin InPlace
    <3>1. status[Leaving] = "half-installed"
      BY <2>a, <2>1, <2>3 DEF TypeOK, Statuses, InPlace
    <3>2. world.batch
      <4> SUFFICES ASSUME ~world.batch PROVE FALSE
        OBVIOUS
      <4>1. OwnersStand
        BY DEF Single
      <4>2. pc \in Installing \union {"removing"}
        BY <2>1
      <4>3. owner[f] = Leaving /\ Leaving \in Pkg
        BY <2>1
      <4>4. status[Leaving] \in InPlace \/ (pc \in Installing /\ Leaving = cur)
        BY <4>1, <4>2, <4>3 DEF OwnersStand
      <4>5. "removing" \notin Installing
        BY DEF Installing
      <4> QED
        BY <2>1, <2>3, <4>4, <4>5
    <3> QED
      BY <3>1, <3>2
  <2> QED
    BY <2>2, <2>3
<1> QED
  BY <1>1, <1>2, <1>3, PTL DEF Spec, OnlyOwnFilesDeleted

(***************************************************************************)
(* The commands that handle one package, for every set of                  *)
(* packages and files and every option but --force-overwrite:              *)
(*                                                                         *)
(*   ListsStayComplete       Spec => []ListsComplete                       *)
(*   OverwritesAreAsked      Spec => NoSilentOverwriteAlone                *)
(*   UnwindTakesNothing      Spec => UnwindKeepsOwners                     *)
(*                                                                         *)
(* The converse of the part on files: what an installed package has        *)
(* on disk, file_hash gives to it (DiskIsOwned) and its list names         *)
(* (DiskIsListed), and what its archive brought is there (BroughtIsThere). *)
(* A second package of the same command may break all of it: its install   *)
(* finds the obsolete files of the first one's still in obs_file_hash.     *)
(***************************************************************************)

(***************************************************************************)
(* What is owned is listed.                                                *)
(***************************************************************************)

\* An installed package that is not marked to have its list written owns no
\* more than its list names, but for the old version.
OwnedIsListed ==
  Orderly /\ Tracking =>
    \A p \in Pkg : status[p] \in InPlace /\ p \notin changed /\ p # old
                     => Owned(owner, p) \subseteq lists[name[p]]

\* Where a command keeps lists and marks.
LEMMA ListKept ==
  ASSUME [Next]_vars, Tracking, Tracking'
  PROVE  \/ UNCHANGED lists
         \/ RemoveOldInfo
         \/ FinishInstall
         \/ RemoveList
  BY DEF Tracking, Next, vars, onDisk, StartCommand, InstallStep,
     UpToDate, StartInstall, UpdateOwnership, PrermUpgrade, Preinst, CheckClashes,
     PostrmUpgrade, RemoveObsolete, InstallScripts, ExtractFile,
     ExtractFails, RemoveStep, StartRemove, RemoveFile,
     FinishRemove, ConfigureStep, BeginConfigure, Configure, Exit, Interrupt,
     WriteAndExit, Forget, Crash, CrashWhileWriting

LEMMA MarkKept ==
  ASSUME [Next]_vars, Tracking, Tracking', NEW p \in changed
  PROVE  p \in changed' \/ (pc \in Installing /\ p = cur)
  BY DEF Tracking, Installing, Next, vars, inMem, StartCommand, InstallStep,
     UpToDate, StartInstall, UpdateOwnership, PrermUpgrade, Preinst, CheckClashes,
     PostrmUpgrade, RemoveObsolete, RemoveOldInfo, InstallScripts, ExtractFile,
     ExtractFails, FinishInstall, Hosed, RemoveStep, StartRemove, RemoveFile, RemoveList,
     FinishRemove, ConfigureStep, BeginConfigure, Configure, Exit, Interrupt,
     WriteAndExit, Forget, Crash, CrashWhileWriting

\* The old version stays the old version during an install.
LEMMA OldKept ==
  ASSUME Context, [Next]_vars, pc \in Installing, pc' \in Installing
  PROVE  old' = old
<1>1. ~\E p \in Pkg : StartInstall(p)
  BY DEF StartInstall, NextPackage, Installing
<1> QED
  BY <1>1, Came DEF UpdateOwnership, RemoveObsolete, RemoveFile, RemoveOldInfo,
     ExtractFile, vars, control

\* What is in place after a step of a command, and not the old version, was so
\* before, unless its install has just finished.
LEMMA OtherInPlace ==
  ASSUME IInv, Context, [Next]_vars, pc # "off",
         NEW p \in Pkg, status'[p] \in InPlace, p # old', ~(FinishInstall /\ p = cur)
  PROVE  status[p] \in InPlace /\ p # old
<1>1. status[p] \in InPlace /\ (pc \in Installing => pc' \in Installing \/ p # old)
  BY StatusStep
<1>2. pc \notin Installing => p # old
  BY NullIsNoPackage DEF Context, OldCleared
<1> QED
  BY <1>1, <1>2, OldKept

\* A command starts by rebuilding file_hash.
LEMMA Starts ==
  ASSUME [Next]_vars, pc = "off", Tracking', Survives
  PROVE  \E c \in {"install", "remove"} : StartCommand(c)
  BY FromOff DEF Tracking, StartCommand, vars, control, CrashWhileWriting, Survives

\* What a command is does not change while it runs.
LEMMA TrackingKept ==
  ASSUME [Next]_vars, pc # "off", Tracking'
  PROVE  Tracking
  BY DEF Tracking, Next, vars, control, StartCommand, InstallStep,
     UpToDate, StartInstall, UpdateOwnership, PrermUpgrade, Preinst, CheckClashes,
     PostrmUpgrade, RemoveObsolete, RemoveOldInfo, InstallScripts, ExtractFile,
     ExtractFails, FinishInstall, RemoveStep, StartRemove, RemoveFile, RemoveList,
     FinishRemove, ConfigureStep, BeginConfigure, Configure, Exit, Interrupt,
     WriteAndExit, Forget, Crash, CrashWhileWriting

LEMMA OwnedIsListedStep ==
  IInv /\ Context /\ Taken /\ OwnedIsListed /\ [Next]_vars => OwnedIsListed'
<1> SUFFICES ASSUME IInv, Context, Taken, OwnedIsListed, [Next]_vars, Orderly, Tracking',
                    NEW p \in Pkg, status'[p] \in InPlace, p \notin changed', p # old',
                    NEW f \in File, owner'[f] = p
             PROVE  f \in lists'[name[p]]
  BY WorldFixed DEF OwnedIsListed, Orderly, Survives, NoRetry, Owned
<1>a. TypeInv /\ TypeOK /\ NoPkg \notin Pkg /\ Survives /\ name \in [Pkg -> Names]
  BY NullIsNoPackage, ConstantsOK DEF IInv, TypeInv, Orderly
<1>1. CASE pc = "off"
  <2>1. PICK c \in {"install", "remove"} : StartCommand(c)
    BY <1>a, <1>1, Starts
  <2> QED
    BY <1>a, <2>1 DEF StartCommand, Claimants, onDisk
<1>2. CASE pc # "off" /\ FinishInstall /\ p = cur
  <2>1. /\ pc = "extract" /\ owner' = Claim(TakenAtEnd, cur)
        /\ changed' = (changed \ {cur}) \union Flagged(TakenAtEnd, cur)
        /\ lists'[name[cur]] = Owned(owner, cur)
    BY <1>a, <1>2 DEF FinishInstall, TakenAtEnd, TypeOK
  <2>2. CASE f \in TakenAtEnd
    <3>1. f \in world.files[cur]
      BY <2>1, <2>2, NewFileList DEF TakenAtEnd, Installing
    <3>2. owner[f] # NoPkg
      BY <2>1, <3>1 DEF Taken, Settled
    <3>3. cur \in Flagged(TakenAtEnd, cur)
      BY <2>2, <3>2 DEF Flagged, Losers
    <3> QED
      BY <1>2, <2>1, <3>3
  <2>3. CASE f \notin TakenAtEnd
    BY <1>2, <2>1, <2>3 DEF Claim, Owned
  <2> QED
    BY <2>2, <2>3
<1>3. CASE pc # "off" /\ ~(FinishInstall /\ p = cur)
  <2>1. /\ owner[f] = p /\ status[p] \in InPlace /\ p # old
        /\ Tracking /\ (pc \in Installing => p # cur)
    BY <1>3, TrackingKept, OwnerKept, OtherInPlace DEF Context, CurIsNew
  <2>2. p \notin changed
    BY <2>1, MarkKept
  <2>3. f \in lists[name[p]]
    BY <2>1, <2>2 DEF OwnedIsListed, Owned
  <2>4. CASE RemoveOldInfo
    <3>1. old \in Pkg /\ status[old] # "not-installed" /\ pc = "oldfiles"
      BY <1>a, <2>4 DEF RemoveOldInfo, IInv, TypeInv, Engaged, Versions, OldIsRecorded, Installing
    <3>2. name[p] # name[old]
      BY <2>1, <3>1 DEF IInv, Versions, Unique, InPlace
    <3> QED
      BY <1>a, <2>3, <2>4, <3>1, <3>2 DEF RemoveOldInfo, TypeOK
  <2>5. CASE FinishInstall
    <3>1. pc \in Installing /\ "unpacked" \in Statuses /\ status' = Settle("unpacked")
          /\ lists' = [lists EXCEPT ![name[cur]] = Owned(owner, cur)]
      BY <2>5 DEF FinishInstall, Installing, Statuses
    <3>2. p # cur
      BY <1>3, <2>5
    <3>3. name[p] # name[cur]
      BY <3>1, <3>2, SettledInPlace DEF IInv
    <3> QED
      BY <1>a, <2>3, <3>1, <3>3 DEF TypeOK
  <2>6. CASE RemoveList
    <3>1. /\ pc = "removing" /\ cur \in Pkg /\ cur \in changed
          /\ status[cur] # "not-installed"
      BY <1>a, <2>6 DEF RemoveList, Context, RemovedIsFlagged, TypeInv, Engaged, Working
    <3>2. name[p] # name[cur]
      BY <2>1, <2>2, <3>1 DEF IInv, Versions, Unique, InPlace
    <3> QED
      BY <1>a, <2>3, <2>6, <3>1, <3>2 DEF RemoveList, TypeOK
  <2> QED
    BY <2>1, <2>3, <2>4, <2>5, <2>6, ListKept
<1> QED
  BY <1>1, <1>2, <1>3

\* What is owned at the end of a command is on the lists it leaves.
LEMMA OwnedIsWritten ==
  ASSUME IInv, OwnedIsListed, Orderly, Tracking, old = NoPkg,
         NEW p \in Pkg, status[p] \in InPlace
  PROVE  Owned(owner, p) \subseteq WithLists(Rewritten)[name[p]]
<1>a. name[p] \in Names /\ p # NoPkg
  BY ConstantsOK, NullIsNoPackage
<1>1. CASE p \in changed
  <2>1. p \in Rewritten
    BY <1>1 DEF Rewritten
  <2> QED
    BY <1>a, <2>1 DEF WithLists
<1>2. CASE p \notin changed
  <2>1. \A q \in Rewritten : q \in Pkg /\ q # p /\ status[q] # "not-installed"
    BY <1>2 DEF Rewritten, InPlace, IInv, TypeInv, TypeOK
  <2>2. \A q \in Rewritten : name[q] # name[p]
    BY <2>1 DEF IInv, Versions, Unique, InPlace
  <2>3. WithLists(Rewritten)[name[p]] = lists[name[p]]
    BY <1>a, <2>2 DEF WithLists
  <2> QED
    BY <1>a, <1>2, <2>3 DEF OwnedIsListed
<1> QED
  BY <1>1, <1>2

(***************************************************************************)
(* What is on disk is owned and listed.                                    *)
(***************************************************************************)

\* A command that has changed nothing in memory yet but owners.
Untouched == Alone /\ (Fresh \/ pc \in {"prepared", "owned"}) => ~dirty

LEMMA UntouchedStep == IInv /\ Context /\ Untouched /\ [Next]_vars => Untouched'
<1> SUFFICES ASSUME IInv, Context, Untouched, [Next]_vars, Alone,
                    Fresh' \/ pc' \in {"prepared", "owned"}
             PROVE  ~dirty'
  BY WorldFixed DEF Untouched, Alone, Survives, NoRetry
<1>1. CASE UNCHANGED vars
  BY <1>1 DEF vars, inMem, control, Untouched, Fresh
<1>2. ASSUME NEW c \in {"install", "remove"}, StartCommand(c)
      PROVE  ~dirty'
  BY <1>2 DEF StartCommand, Context, CleanWhenOff
<1>3. ASSUME NEW p \in Pkg, Fresh, StartInstall(p)
      PROVE  ~dirty'
  BY <1>3 DEF StartInstall, inMem, Untouched
<1>4. CASE UpdateOwnership
  BY <1>4 DEF UpdateOwnership, Untouched
<1> QED
  BY <1>1, <1>2, <1>3, <1>4, Begins, Came DEF Alone, Installing

\* What an installed package has on disk is its own, but for the old version.
DiskIsOwned ==
  Tracking => \A f \in File, p \in Pkg :
    disk[f] = p /\ status[p] \in InPlace /\ p # old => owner[f] = p

\* It is on its list as long as nothing has changed.
DiskIsListed ==
  AtRest => \A f \in File, p \in Pkg :
    disk[f] = p /\ db[p] \in InPlace => f \in lists[name[p]]

Mine == Alone /\ ~world.forceOverwrite => DiskIsOwned /\ DiskIsListed

\* The steps of such a command that take a file from an installed package that
\* has it: the removal of the file, and the end of an install, which takes what
\* it has overwritten.
LEMMA Loses ==
  ASSUME IInv, Context, Single, [Next]_vars, Alone, ~world.forceOverwrite, pc # "off",
         NEW f \in File, NEW p \in Pkg, owner[f] = p, p # old, p # cur,
         owner'[f] # p
  PROVE  RemoveFile(f) \/ (FinishInstall /\ f \in TakenAtEnd) \/ pc' = "off"
<1>a. TypeOK /\ NoPkg # p
  BY NullIsNoPackage DEF IInv, TypeInv
<1>1. CASE UpdateOwnership /\ owner' = Claim(Takes, cur)
  <2>1. obs = {}
    BY <1>1 DEF UpdateOwnership, Single, NothingObsolete, Alone, Orderly
  <2> QED
    BY <1>a, <1>1, <2>1 DEF Claim, Takes
<1>2. CASE CheckClashes /\ owner' = Claim(TakenByForce, cur)
  BY <1>2 DEF Claim, TakenByForce
<1>3. CASE FinishInstall /\ owner' = Claim(TakenAtEnd, cur)
  BY <1>3 DEF Claim
<1>4. ASSUME NEW g \in File, RemoveFile(g)
      PROVE  RemoveFile(f)
  <2>1. f = g
    BY <1>a, <1>4 DEF RemoveFile, TypeOK
  <2> QED
    BY <1>4, <2>1
<1> QED
  BY <1>1, <1>2, <1>3, <1>4, OwnerStep DEF Forget

\* A finished install owns what it has extracted.
LEMMA FinishedOwnsAll ==
  ASSUME IInv, Context, Brought, Taken, There, Single, Alone, ~world.forceOverwrite,
         FinishInstall, NEW f \in File, disk[f] = cur
  PROVE  owner'[f] = cur
<1> SUFFICES ASSUME owner'[f] # cur PROVE FALSE
  OBVIOUS
<1>1. pc = "extract" /\ owner' = Claim(TakenAtEnd, cur)
  BY DEF FinishInstall, TakenAtEnd
<1>2. owner[f] # cur
  BY <1>1 DEF Claim
<1>3. Orderly /\ OwnersStand
  BY DEF Single, Alone, Orderly
<1>4. owner[f] \in Pkg => status[owner[f]] \in InPlace
  BY <1>1, <1>2, <1>3 DEF OwnersStand, Installing
<1> QED
  BY <1>3, <1>4, FinishedOwns

\* What it takes from the packages it replaces is on disk as its own.
LEMMA TakenIsMine ==
  ASSUME IInv, Context, Brought, Orderly, FinishInstall, NEW f \in TakenAtEnd
  PROVE  f \in world.files[cur] /\ disk[f] = cur
<1>1. pc = "extract" /\ todo = {}
  BY DEF FinishInstall
<1> QED
  BY <1>1, NewFileList DEF TakenAtEnd, Brought, Extracting, Installing

LEMMA MineStep ==
  IInv /\ Context /\ ListsAgree /\ Brought /\ Taken /\ There /\ Single
    /\ OwnedIsListed /\ Untouched /\ Mine /\ [Next]_vars => Mine'
<1> SUFFICES ASSUME IInv, Context, ListsAgree, Brought, Taken, There, Single,
                    OwnedIsListed, Untouched, Mine, [Next]_vars,
                    Alone, ~world.forceOverwrite
             PROVE  DiskIsOwned' /\ DiskIsListed'
  BY WorldFixed DEF Mine, Alone, Survives, NoRetry
<1>a. /\ TypeInv /\ TypeOK /\ NoPkg \notin Pkg /\ Survives /\ Orderly
      /\ name \in [Pkg -> Names] /\ DiskIsOwned /\ DiskIsListed
  BY NullIsNoPackage, ConstantsOK DEF IInv, TypeInv, Mine, Alone, Orderly
<1>1. DiskIsOwned'
  <2> SUFFICES ASSUME Tracking', NEW f \in File, NEW p \in Pkg,
                      disk'[f] = p, status'[p] \in InPlace, p # old'
               PROVE  owner'[f] = p
    BY DEF DiskIsOwned
  <2>1. CASE pc = "off"
    <3>1. PICK c \in {"install", "remove"} : StartCommand(c)
      BY <1>a, <2>1, Starts
    <3>2. AtRest /\ disk' = disk /\ status' = db
      BY <2>1, <3>1 DEF StartCommand, onDisk, Context, CleanWhenOff, AtRest
    <3>3. p \in Claimants(f)
      BY <1>a, <3>2 DEF DiskIsListed, Claimants
    <3>4. \A q \in Claimants(f) : q = p
      BY <1>a, <3>2, <3>3 DEF ListsAgree, DisjointAtRest, Claimants
    <3>5. owner'[f] \in Claimants(f)
      BY <3>1, <3>3 DEF StartCommand
    <3> QED
      BY <3>4, <3>5
  <2>2. CASE FinishInstall /\ p = cur
    <3>1. disk' = disk
      BY <2>2 DEF FinishInstall
    <3> QED
      BY <2>2, <3>1, FinishedOwnsAll
  <2>3. CASE pc # "off" /\ ~(FinishInstall /\ p = cur)
    <3>1. status[p] \in InPlace /\ p # old /\ Tracking
      BY <2>3, OtherInPlace, TrackingKept
    <3>2. disk[f] = p
      <4>1. ~ExtractFile(f)
        BY <1>a, <3>1 DEF ExtractFile, TypeOK, Context, CurIsNew, Installing
      <4>2. ~RemoveFile(f)
        BY <1>a DEF RemoveFile, TypeOK
      <4> QED
        BY <1>a, <4>1, <4>2, DiskStep
    <3>3. owner[f] = p
      BY <1>a, <3>1, <3>2 DEF DiskIsOwned
    <3>4. CASE p = cur
      <4>1. pc \notin Installing
        BY <3>1, <3>4 DEF Context, CurIsNew
      <4>2. ~UpdateOwnership /\ ~CheckClashes /\ ~FinishInstall
        BY <4>1 DEF UpdateOwnership, CheckClashes, FinishInstall, Installing
      <4>3. ASSUME NEW g \in File, RemoveFile(g)
            PROVE  owner'[f] = p
        BY <1>a, <3>2, <3>3, <4>3 DEF RemoveFile, TypeOK
      <4>4. ~Forget
        BY DEF Forget, Tracking
      <4> QED
        BY <2>3, <3>3, <4>2, <4>3, <4>4, OwnerStep
    <3>5. CASE p # cur
      <4>1. ~RemoveFile(f)
        BY <1>a DEF RemoveFile, TypeOK
      <4>2. ~(FinishInstall /\ f \in TakenAtEnd)
        BY <1>a, <3>2, <3>5, TakenIsMine
      <4> QED
        BY <2>3, <3>1, <3>3, <3>5, <4>1, <4>2, Loses DEF Tracking
    <3> QED
      BY <3>4, <3>5
  <2> QED
    BY <2>1, <2>2, <2>3
<1>2. DiskIsListed'
  <2> SUFFICES ASSUME AtRest', NEW f \in File, NEW p \in Pkg,
                      disk'[f] = p, db'[p] \in InPlace
               PROVE  f \in lists'[name[p]]
    BY DEF DiskIsListed
  <2>1. CASE ~Exit /\ ~Interrupt
    BY <1>a, <2>1, RestStep DEF DiskIsListed
  <2>2. CASE Exit \/ Interrupt
    <3>1. CASE /\ AtRest
               /\ \A q \in Pkg : db'[q] \in InPlace =>
                    db[q] \in InPlace /\ lists'[name[q]] = lists[name[q]]
      BY <1>a, <2>2, <3>1, Saved DEF DiskIsListed
    <3>2. CASE AtRest
      <4>1. CASE dirty
        BY <1>a, <2>2, <3>1, <3>2, <4>1, Saved DEF AtRest, Tracking
      <4>2. CASE ~dirty
        BY <2>2, <3>1, <3>2, <4>2 DEF Exit, Interrupt, WriteAndExit
      <4> QED
        BY <4>1, <4>2
    <3>3. CASE ~AtRest
      <4>1. /\ Tracking /\ db' = status /\ lists' = WithLists(Rewritten)
            /\ disk' = disk
        BY <1>a, <2>2, <3>3, Saved
      <4>2. old = NoPkg
        BY <2>2, <3>3 DEF Exit, Interrupt, Interruptible, Untouched, AtRest, Context,
           OldCleared, Installing
      <4>3. owner[f] = p
        BY <1>a, <4>1, <4>2 DEF DiskIsOwned
      <4> QED
        BY <1>a, <4>1, <4>2, <4>3, OwnedIsWritten DEF Owned
    <3> QED
      BY <3>2, <3>3
  <2> QED
    BY <2>1, <2>2
<1> QED
  BY <1>1, <1>2

(***************************************************************************)
(* What a package brought is there.                                        *)
(***************************************************************************)
BeingRemoved(p) == pc \in {"removing", "removed"} /\ p = cur

\* An installed package has what it brought, but for files that a package that
\* replaces it brings too.
BroughtIsOwned ==
  Tracking => \A p \in Pkg : status[p] \in InPlace /\ p # old /\ ~BeingRemoved(p) =>
    \A f \in world.files[p] : Contested(p, f) \/ (owner[f] = p /\ disk[f] = p)

BroughtIsListed ==
  AtRest => \A p \in Pkg : db[p] \in InPlace =>
    \A f \in world.files[p] : Contested(p, f) \/ (f \in lists[name[p]] /\ disk[f] = p)

Whole == Alone /\ ~world.forceOverwrite /\ ~world.interrupts
           => BroughtIsOwned /\ BroughtIsListed

\* A removal that nothing interrupts goes on until the package is removed.
LEMMA FromRemoving ==
  ASSUME [Next]_vars, pc \in {"removing", "removed"}, Survives, ~world.interrupts
  PROVE  \/ pc' \in {"removing", "removed"} /\ cur' = cur
         \/ FinishRemove
  BY DEF Next, vars, control, StartCommand, InstallStep, UpToDate, StartInstall,
     NextPackage, UpdateOwnership, PrermUpgrade, Preinst, CheckClashes, PostrmUpgrade,
     RemoveObsolete, RemoveOldInfo, InstallScripts, ExtractFile, ExtractFails,
     FinishInstall, RemoveStep, StartRemove, RemoveFile, RemoveList, FinishRemove,
     ConfigureStep, BeginConfigure, Configure, Exit, Interrupt, Crash,
     CrashWhileWriting, Survives

LEMMA WholeStep ==
  IInv /\ Context /\ ListsAgree /\ TodoOwned /\ Brought /\ Taken /\ There /\ Single
    /\ OwnedIsListed /\ Untouched /\ Whole /\ [Next]_vars => Whole'
<1> SUFFICES ASSUME IInv, Context, ListsAgree, TodoOwned, Brought, Taken, There, Single,
                    OwnedIsListed, Untouched, Whole, [Next]_vars,
                    Alone, ~world.forceOverwrite, ~world.interrupts
             PROVE  BroughtIsOwned' /\ BroughtIsListed'
  BY WorldFixed DEF Whole, Alone, Survives, NoRetry
<1>a. /\ TypeInv /\ TypeOK /\ NoPkg \notin Pkg /\ Survives /\ Orderly
      /\ name \in [Pkg -> Names] /\ BroughtIsOwned /\ BroughtIsListed
  BY NullIsNoPackage, ConstantsOK DEF IInv, TypeInv, Whole, Alone, Orderly
<1>b. \A p, f : Contested(p, f)' <=> Contested(p, f)
  BY WorldFixed DEF Contested, Replaces
<1>c. world' = world /\ \A p \in Pkg : world.files[p] \subseteq File
  BY <1>a, WorldFixed, FilesType DEF TypeOK
<1>1. BroughtIsOwned'
  <2> SUFFICES ASSUME Tracking', NEW p \in Pkg, status'[p] \in InPlace, p # old',
                      ~BeingRemoved(p)', NEW f \in world.files[p], ~Contested(p, f)
               PROVE  owner'[f] = p /\ disk'[f] = p
    BY <1>b, <1>c DEF BroughtIsOwned
  <2>a. f \in File
    BY <1>c
  <2>1. CASE pc = "off"
    <3>1. PICK c \in {"install", "remove"} : StartCommand(c)
      BY <1>a, <2>1, Starts
    <3>2. AtRest /\ disk' = disk /\ status' = db
      BY <2>1, <3>1 DEF StartCommand, onDisk, Context, CleanWhenOff, AtRest
    <3>3. p \in Claimants(f) /\ disk[f] = p
      BY <1>a, <3>2 DEF BroughtIsListed, Claimants
    <3>4. \A q \in Claimants(f) : q = p
      BY <1>a, <3>2, <3>3 DEF ListsAgree, DisjointAtRest, Claimants
    <3>5. owner'[f] \in Claimants(f)
      BY <2>a, <3>1, <3>3 DEF StartCommand
    <3> QED
      BY <3>2, <3>3, <3>4, <3>5
  <2>2. CASE FinishInstall /\ p = cur
    <3>1. disk' = disk /\ disk[f] = cur
      BY <1>a, <2>2 DEF FinishInstall, Brought, Extracting
    <3> QED
      BY <2>2, <2>a, <3>1, FinishedOwnsAll
  <2>3. CASE pc # "off" /\ ~(FinishInstall /\ p = cur)
    <3>1. status[p] \in InPlace /\ p # old /\ Tracking
      BY <2>3, OtherInPlace, TrackingKept
    <3>2. ~BeingRemoved(p)
      <4>1. FinishRemove => status'[cur] \notin InPlace \/ cur \notin Pkg
        BY <1>a DEF FinishRemove, TypeOK, InPlace
      <4> QED
        BY <1>a, <4>1, FromRemoving DEF BeingRemoved
    <3>3. owner[f] = p /\ disk[f] = p
      BY <1>a, <3>1, <3>2 DEF BroughtIsOwned
    <3>4. ~RemoveFile(f)
      BY <3>1, <3>2, <3>3 DEF RemoveFile, TodoOwned, BeingRemoved
    <3>5. disk'[f] = p
      <4>1. ~ExtractFile(f)
        <5> SUFFICES ASSUME ExtractFile(f) PROVE FALSE
          OBVIOUS
        <5>1. pc = "extract" /\ f \in world.files[cur] /\ cur \in world.available
          BY <1>a DEF ExtractFile, Brought, Extracting, Context, CurIsNew, Installing
        <5>2. Replaces(cur, p)
          BY <1>a, <3>1, <3>3, <5>1 DEF There, Asked, Checked
        <5> QED
          BY <5>1, <5>2 DEF Contested
      <4>2. ~(RemoveObsolete /\ f \in Removable(old))
        BY <3>1, <3>3 DEF Removable
      <4> QED
        BY <1>a, <2>a, <3>3, <3>4, <4>1, <4>2, DiskStep
    <3>6. CASE p = cur
      <4>1. pc \notin Installing
        BY <3>1, <3>6 DEF Context, CurIsNew
      <4>2. ~UpdateOwnership /\ ~CheckClashes /\ ~FinishInstall
        BY <4>1 DEF UpdateOwnership, CheckClashes, FinishInstall, Installing
      <4>3. ASSUME NEW g \in File, RemoveFile(g)
            PROVE  owner'[f] = p
        <5>1. f # g
          BY <3>4, <4>3
        <5> QED
          BY <1>a, <3>3, <4>3, <5>1 DEF RemoveFile, TypeOK
      <4>4. ~Forget
        BY DEF Forget, Tracking
      <4> QED
        BY <2>3, <3>3, <3>5, <4>2, <4>3, <4>4, OwnerStep
    <3>7. CASE p # cur
      <4>1. ~(FinishInstall /\ f \in TakenAtEnd)
        BY <1>a, <3>3, <3>7, TakenIsMine
      <4> QED
        BY <2>a, <2>3, <3>1, <3>3, <3>4, <3>5, <3>7, <4>1, Loses DEF Tracking
    <3> QED
      BY <3>6, <3>7
  <2> QED
    BY <2>1, <2>2, <2>3
<1>2. BroughtIsListed'
  <2> SUFFICES ASSUME AtRest', NEW p \in Pkg, db'[p] \in InPlace,
                      NEW f \in world.files[p], ~Contested(p, f)
               PROVE  f \in lists'[name[p]] /\ disk'[f] = p
    BY <1>b, <1>c DEF BroughtIsListed
  <2>1. CASE ~Exit
    <3>1. ~Interrupt
      BY DEF Interrupt
    <3> QED
      BY <1>a, <2>1, <3>1, RestStep DEF BroughtIsListed
  <2>2. CASE Exit
    <3>1. CASE /\ AtRest
               /\ \A q \in Pkg : db'[q] \in InPlace =>
                    db[q] \in InPlace /\ lists'[name[q]] = lists[name[q]]
      BY <1>a, <2>2, <3>1, Saved DEF BroughtIsListed
    <3>2. CASE AtRest
      <4>1. CASE dirty
        BY <1>a, <2>2, <3>1, <3>2, <4>1, Saved DEF AtRest, Tracking
      <4>2. CASE ~dirty
        BY <2>2, <3>1, <3>2, <4>2 DEF Exit, WriteAndExit
      <4> QED
        BY <4>1, <4>2
    <3>3. CASE ~AtRest
      <4>1. /\ Tracking /\ db' = status /\ lists' = WithLists(Rewritten)
            /\ disk' = disk
        BY <1>a, <2>2, <3>3, Saved
      <4>2. old = NoPkg /\ ~BeingRemoved(p)
        BY <2>2 DEF Exit, Context, OldCleared, Installing, BeingRemoved
      <4>3. owner[f] = p /\ disk[f] = p
        BY <1>a, <4>1, <4>2 DEF BroughtIsOwned
      <4> QED
        BY <1>a, <1>c, <4>1, <4>2, <4>3, OwnedIsWritten DEF Owned
    <3> QED
      BY <3>2, <3>3
  <2> QED
    BY <2>1, <2>2
<1> QED
  BY <1>1, <1>2

(***************************************************************************)
(* The theorems.                                                           *)
(***************************************************************************)
AloneInv == /\ IInv /\ Context /\ ListsAgree /\ TodoOwned
            /\ Brought /\ Taken /\ There /\ Single
            /\ OwnedIsListed /\ Untouched /\ Mine /\ Whole

LEMMA AloneInit == Init => AloneInv
<1>1. Init => ListsAgree /\ TodoOwned /\ Brought /\ Taken /\ There /\ Single
  BY NullIsNoPackage DEF Init, ListsAgree, ConfigureKeeps, DisjointAtRest, ListedIsOwned,
     Tracking, AtRest, InPlace, TodoOwned, Brought, OwnersBring, DiskBrought, ListsBring,
     Extracting, Taken, Settled, There, OwnedIsThere, ListedIsThere, Asked, Checked,
     Single, OwnersStand, NothingObsolete, Fresh, Installing
<1>2. Init => OwnedIsListed /\ Untouched /\ Mine /\ Whole
  BY NullIsNoPackage DEF Init, OwnedIsListed, Untouched, Mine, DiskIsOwned, DiskIsListed,
     Whole, BroughtIsOwned, BroughtIsListed, Tracking, AtRest, InPlace
<1> QED
  BY <1>1, <1>2, VersionInit, ContextInit DEF AloneInv

LEMMA AloneStep == AloneInv /\ [Next]_vars => AloneInv'
  BY VersionStep, ContextStep, TodoStep, ListsStep, BroughtStep, TakenStep, ThereStep,
     SingleStep, OwnedIsListedStep, UntouchedStep, MineStep, WholeStep
     DEF AloneInv, IInv, TypeInv

\* When each command handles one package, no process dies, no failed package is
\* retried and no file is forced, the list of an installed package names every
\* file it has on disk between two commands, and if nothing interrupts a
\* removal every file of its archive is on its list and on disk, but for those
\* that a package that replaces it brings too.
THEOREM ListsStayComplete == Spec => []ListsComplete
<1>1. AloneInv => ListsComplete
  <2> SUFFICES ASSUME AloneInv PROVE InstalledComplete /\ NoGhostFiles
    BY DEF ListsComplete
  <2>1. pc = "off" => AtRest
    BY DEF AloneInv, Context, CleanWhenOff, AtRest
  <2>2. InstalledComplete
    BY <2>1 DEF InstalledComplete, AloneInv, Whole, BroughtIsListed
  <2>3. NoGhostFiles
    BY <2>1 DEF NoGhostFiles, AloneInv, Mine, DiskIsListed
  <2> QED
    BY <2>2, <2>3
<1> QED
  BY AloneInit, AloneStep, <1>1, PTL DEF Spec

\* Under the same conditions extraction overwrites a file of an installed
\* package of another name only if the new package replaces it or it is forced:
\* what is on disk is in file_hash, where check_data_file_clashes finds it.
THEOREM OverwritesAreAsked == Spec => NoSilentOverwriteAlone
<1>1. AloneInv /\ [Next]_vars => [Alone => Asks]_vars
  <2> SUFFICES ASSUME AloneInv, [Next]_vars, Alone, ~world.forceOverwrite,
                      NEW f \in File, Overwrites(f)
               PROVE  Replaces(disk'[f], disk[f])
    BY DEF Asks
  <2>a. TypeInv /\ TypeOK /\ NoPkg \notin Pkg /\ Orderly
    BY NullIsNoPackage DEF AloneInv, IInv, TypeInv, Alone, Orderly
  <2>1. ExtractFile(f)
    <3>1. ~RemoveFile(f)
      BY <2>a DEF RemoveFile, TypeOK, Overwrites
    <3> QED
      BY <2>a, <3>1, DiskStep DEF Overwrites
  <2>2. /\ pc = "extract" /\ disk'[f] = cur /\ f \in world.files[cur] /\ Tracking
    BY <2>a, <2>1 DEF ExtractFile, TypeOK, AloneInv, Brought, Extracting, Context, CurIsNew,
       Installing, Tracking
  <2>3. disk[f] # old
    BY <2>a, <2>2 DEF Overwrites, AloneInv, IInv, Versions, OldIsRecorded, Installing
  <2>4. owner[f] = disk[f]
    BY <2>2, <2>3 DEF Overwrites, AloneInv, Mine, DiskIsOwned
  <2> QED
    BY <2>a, <2>2, <2>4 DEF Overwrites, AloneInv, There, Asked, Checked
<1> QED
  BY AloneInit, AloneStep, <1>1, PTL DEF Spec, NoSilentOverwriteAlone

\* Under the same conditions, and with nothing forced, an install that unwinds
\* after update_file_ownership has taken no file that is on disk as another
\* installed package's own away from that package.
THEOREM UnwindTakesNothing == Spec => UnwindKeepsOwners
<1>1. AloneInv /\ [Next]_vars => [UnwindsClean]_vars
  <2> SUFFICES ASSUME AloneInv, [Next]_vars, Alone, ~world.forceOverwrite,
                      pc \in {"owned", "preinst", "clashes", "postrm"},
                      NEW f \in File, NEW p \in Pkg,
                      disk[f] = p, name[p] # name[cur], status[p] \in InPlace
               PROVE  owner'[f] # cur
    BY DEF UnwindsClean
  <2>1. /\ cur \in Pkg /\ cur # p /\ cur # NoPkg /\ Tracking /\ p # old
    BY NullIsNoPackage DEF AloneInv, IInv, TypeInv, Engaged, Working, Installing, Versions,
       OldIsRecorded, Context, CurIsNew, Tracking
  <2>2. owner[f] = p
    BY <2>1 DEF AloneInv, Mine, DiskIsOwned
  <2>3. CASE CheckClashes /\ owner' = Claim(TakenByForce, cur)
    BY <2>1, <2>2, <2>3 DEF Claim, TakenByForce
  <2>4. ~(\E g \in File : RemoveFile(g)) /\ ~UpdateOwnership /\ ~FinishInstall
    BY DEF RemoveFile, UpdateOwnership, FinishInstall
  <2> QED
    BY <2>1, <2>2, <2>3, <2>4, OwnerStep DEF Forget
<1> QED
  BY AloneInit, AloneStep, <1>1, PTL DEF Spec, UnwindKeepsOwners
=============================================================================

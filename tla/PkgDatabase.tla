---------------------------- MODULE PkgDatabase ----------------------------
(***************************************************************************)
(* The package database: pkg_hash, with a vector of records per name, which*)
(* every command builds from the feeds and the status file and writes back *)
(* to the status file; and file_hash, the owners of files.  Which package a*)
(* command chooses, and how its files are moved, is left to OpkgSolver and *)
(* OpkgInstall.                                                            *)
(***************************************************************************)
EXTENDS Versions

CONSTANTS
  Names,      \* package names
  File,
  Buckets,    \* of a hash table
  NameHash,   \* the bucket of every name in pkg_hash
  FileHash,   \* the bucket of every file in file_hash
  Info,       \* what a list says of the archive of a package: Filename, sums
  Worlds,     \* [feeds: lists a source may have, status: the status file,
              \*  flags: what opkg flag is given, fails: whether installs fail,
              \*  removesHeld: whether packages that are held are removed,
              \*  askers: whether users (TRUE), dependences or both ask for packages,
              \*  asked: versions that constraints name]
  NoKey, NoData,
  NoInfo      \* no Filename, no sums

VARIABLES
  world,
  feed,       \* the list of the source, a sequence of stanzas
  statusFile, \* a sequence of stanzas
  pc,         \* whether a command runs: "off", "on"
  pkgHash,    \* name |-> vector of records
  fileHash,   \* file |-> pointer to the record of its owner
  providedBy, \* the names of the packages that provide a name
  neededBy    \* depended_upon_by

vars == <<world, feed, statusFile, pc, pkgHash, fileHash, providedBy, neededBy>>

PkgTable  == INSTANCE HashTable WITH Hash <- NameHash
FileTable == INSTANCE HashTable WITH Hash <- FileHash

(***************************************************************************)
(* Stanzas and records.  A stanza is what a paragraph of a list says; the  *)
(* list of installed files, <package>.list, is taken as a part of it.      *)
(***************************************************************************)
Wants       == {"unknown", "install", "deinstall", "purge"}
NonVolatile == {"hold", "noprune", "prefer", "obsolete", "user"}
Flags       == NonVolatile \cup {"reinstreq", "replace"}
Statuses    == {"not-installed", "unpacked", "half-configured", "installed", "half-installed",
                "config-files", "post-inst-failed", "removal-failed"}

InPlace(r)     == r.status \in {"installed", "unpacked"}
IsInstalled(r) == InPlace(r) \/ r.status = "half-installed"

\* A stanza and a record, and the pointer to a record: its place in the vector
\* of its name, which it keeps as long as a command runs.
Stanza ==
  [name : Names, version : Seq(Char), arch : STRING, want : Wants, flags : SUBSET Flags,
   status : Statuses, auto : BOOLEAN, needs : SUBSET [type : STRING, name : Names],
   provides : SUBSET Names, info : Info \cup {NoInfo}, files : SUBSET File]

Record ==
  [name : Names, v : Version, arch : STRING, want : Wants, flags : SUBSET Flags,
   status : Statuses, auto : BOOLEAN, needs : SUBSET [type : STRING, name : Names],
   provides : SUBSET Names, info : Info \cup {NoInfo}, files : SUBSET File]

Reference == [name : Names, place : Nat]

\* A package that is gone and held.
HeldGone(r) == r.want = "deinstall" /\ "hold" \in r.flags

\* What commands leave in the status file: of the packages in place no two have
\* one name or a file in common, and none of them is unwanted.
IsOrderly(stanzas, removesHeld) ==
  /\ \A i, j \in DOMAIN stanzas :
       i # j /\ InPlace(stanzas[i]) /\ InPlace(stanzas[j]) =>
         stanzas[i].name # stanzas[j].name /\ stanzas[i].files \cap stanzas[j].files = {}
  /\ \A i \in DOMAIN stanzas :
       /\ InPlace(stanzas[i]) => stanzas[i].want # "deinstall"
       /\ HeldGone(stanzas[i]) => removesHeld

ASSUME TableAssumption ==
  /\ IsFiniteSet(Names) /\ IsFiniteSet(File)
  /\ Buckets \in Nat \ {0}
  /\ NameHash \in [Names -> 1..Buckets] /\ FileHash \in [File -> 1..Buckets]
  /\ NoKey \notin Names \cup File
  /\ NoData \notin Seq(Record) /\ NoData \notin Reference

\* A list has no Status fields.
ASSUME WorldAssumption ==
  \A w \in Worlds :
    /\ \A list \in w.feeds :
         /\ list \in Seq(Stanza)
         /\ \A i \in DOMAIN list :
              list[i].want = "unknown" /\ list[i].status = "not-installed"
    /\ w.status \in Seq(Stanza) /\ IsOrderly(w.status, w.removesHeld)
    /\ w.flags \subseteq Flags \cup {"ok"} /\ w.askers \subseteq BOOLEAN
    /\ w.asked \subseteq Seq(Char)

\* pkg_parse_line
Parsed(st) ==
  [name |-> st.name, v |-> ParseVersion(st.version), arch |-> st.arch, want |-> st.want,
   flags |-> st.flags, status |-> st.status, auto |-> st.auto, needs |-> st.needs,
   provides |-> st.provides, info |-> st.info, files |-> st.files]

\* There is no field for Pre-Depends, and none of the kinds of dependence but these.
PrintedNeeds(r) == {d \in r.needs : d.type \in {"DEPEND", "RECOMMEND", "SUGGEST"}}

\* <package>.list: opkg_remove_pkg takes it away.
ListFile(r) == IF r.status = "not-installed" THEN {} ELSE r.files

\* Mutant: the mark of a package that is not configured yet is not written.
PrintedIfConfigured(r) ==
  [name |-> r.name, version |-> VersionString(r.v), arch |-> r.arch, want |-> r.want,
   flags |-> r.flags \cap NonVolatile, status |-> r.status,
   auto |-> r.status = "installed" /\ r.auto,
   needs |-> PrintedNeeds(r),
   provides |-> r.provides, info |-> NoInfo, files |-> ListFile(r)]

\* pkg_print_status, which prints no Filename and no sums.
Printed(r) ==
  [name |-> r.name, version |-> VersionString(r.v), arch |-> r.arch, want |-> r.want,
   flags |-> r.flags \cap NonVolatile, status |-> r.status,
   auto |-> IsInstalled(r) /\ r.auto,
   needs |-> PrintedNeeds(r),
   provides |-> r.provides, info |-> NoInfo, files |-> ListFile(r)]

Vec(table, n) ==
  LET vec == PkgTable!Lookup(table, n) IN IF vec = NoData THEN <<>> ELSE vec

(***************************************************************************)
(* hash_insert_pkg.                                                        *)
(***************************************************************************)

\* pkg_merge: what the record does not say is taken from the one it replaces;
\* the four kinds of dependence go together.  The files of a package that is not
\* installed are those of the archive that Filename is about.
Merged(r, o) ==
  [r EXCEPT !.auto     = r.auto \/ o.auto,
            !.needs    = IF r.needs = {} THEN o.needs ELSE r.needs,
            !.provides = IF r.provides = {} THEN o.provides ELSE r.provides,
            !.info     = IF r.info = NoInfo THEN o.info ELSE r.info,
            !.files    = IF r.status = "not-installed" THEN o.files ELSE r.files]

SameRecord(r, o) ==
  \/ HeldGone(r)
  \/ CompareVersions(r.v, o.v) = 0 /\ r.arch = o.arch

\* Mutant: a record of the status file is added to the one of the feed.
InsertBoth(vec, r, setStatus) ==
  LET i == SelectInSeq(vec, LAMBDA o : SameRecord(r, o))
  IN  IF i = 0 \/ setStatus THEN Append(vec, r) ELSE ReplaceAt(vec, i, r)

\* pkg_vec_insert_merge
InsertMerge(vec, r, setStatus) ==
  LET i == SelectInSeq(vec, LAMBDA o : SameRecord(r, o))
  IN  IF i = 0 THEN Append(vec, r)
      ELSE ReplaceAt(vec, i, IF setStatus THEN Merged(r, vec[i]) ELSE r)

\* ensure_abstract_pkg_by_name
Ensured(table, n) ==
  IF PkgTable!Lookup(table, n) = NoData THEN PkgTable!Insert(table, n, <<>>) ELSE table

Linked(index, ns, n) == [m \in Names |-> index[m] \cup IF m \in ns THEN {n} ELSE {}]

Database == [pkgs |-> PkgTable!NewTable, providedBy |-> [n \in Names |-> {}],
             neededBy |-> [n \in Names |-> {}]]

Needed(r) == {d.name : d \in {e \in r.needs : e.type \in {"PREDEPEND", "DEPEND", "RECOMMEND"}}}

HashInsert(db, r, setStatus) ==
  LET names == <<r.name>> \o SetToSeq({d.name : d \in r.needs}) \o SetToSeq(r.provides)
      table == FoldLeft(Ensured, db.pkgs, names)
  IN  [pkgs       |-> PkgTable!Insert(table, r.name,
                                      InsertMerge(Vec(table, r.name), r, setStatus)),
       providedBy |-> Linked(db.providedBy, r.provides \cup {r.name}, r.name),
       neededBy   |-> Linked(db.neededBy, Needed(r), r.name)]

(***************************************************************************)
(* A command: the feeds and then the status file are loaded, the owners of *)
(* files entered, records changed, and the status file is written.         *)
(***************************************************************************)
InsertListed(db, st)   == HashInsert(db, Parsed(st), FALSE)
InsertRecorded(db, st) == HashInsert(db, Parsed(st), TRUE)

Loaded == FoldLeft(InsertRecorded, FoldLeft(InsertListed, Database, feed), statusFile)

\* pkg_hash_fetch_available: pointers to all records.
Pointers(table) ==
  LET entries == PkgTable!Entries(table)
  IN  FlattenSeq([i \in DOMAIN entries |->
        [j \in DOMAIN entries[i].data |-> [name |-> entries[i].key, place |-> j]]])

Deref(table, p) == Vec(table, p.name)[p.place]

Available(table) == LET ps == Pointers(table) IN [i \in DOMAIN ps |-> Deref(table, ps[i])]

\* Mutant: a file keeps the owner it has.
OwnUnowned(table, c) ==
  IF FileTable!Lookup(table, c.file) = NoData THEN FileTable!Insert(table, c.file, c.owner)
  ELSE table

\* file_hash_set_file_owner
OwnFile(table, c) == FileTable!Insert(table, c.file, c.owner)

Claims(p, files) ==
  LET list == SetToSeq(files) IN [i \in DOMAIN list |-> [file |-> list[i], owner |-> p]]

Own(table, p, files) == FoldLeft(OwnFile, table, Claims(p, files))

Disown(table, f) == FileTable!Delete(table, f)

\* pkg_info_preinstall_check
Owners(table) ==
  LET ps == Pointers(table)
  IN  FoldLeft(OwnFile, FileTable!NewTable,
               FlattenSeq([i \in DOMAIN ps |->
                 LET r == Deref(table, ps[i])
                 IN  IF InPlace(r) THEN Claims(ps[i], r.files) ELSE <<>>]))

Load ==
  /\ pc = "off" /\ pc' = "on"
  /\ LET db == Loaded
     IN  /\ pkgHash' = db.pkgs
         /\ providedBy' = db.providedBy
         /\ neededBy' = db.neededBy
         /\ fileHash' = Owners(db.pkgs)
  /\ UNCHANGED <<world, feed, statusFile>>

\* The place of the version of a name that is in place, 0 when none is.
Current(n) == SelectInSeq(Vec(pkgHash, n), InPlace)

SetVec(n, vec) == pkgHash' = PkgTable!Insert(pkgHash, n, vec)

At(n, i) == [name |-> n, place |-> i]

Running == pc = "on" /\ UNCHANGED <<world, feed, statusFile, pc, providedBy, neededBy>>

Owner(f) == FileTable!Lookup(fileHash, f)

\* What opkg_install_pkg, and its caller, leave of a record that was installed,
\* with the version it takes the place of.
Installable(n, i) ==
  LET vec == Vec(pkgHash, n)
  IN  /\ ~IsInstalled(vec[i]) /\ vec[i].info # NoInfo
      /\ Current(n) # 0 => "hold" \notin vec[Current(n)].flags
      /\ \A f \in vec[i].files : \A m \in Names \ {n} :
           Current(m) # 0 => Owner(f) # At(m, Current(m))

Retired(vec, i) ==
  [j \in DOMAIN vec |->
     IF j # i /\ InPlace(vec[j])
     THEN [vec[j] EXCEPT !.want = "deinstall", !.status = "not-installed"] ELSE vec[j]]

Install(n) ==
  /\ Running
  /\ \E i \in DOMAIN Vec(pkgHash, n), byUser \in world.askers :
       LET vec == Vec(pkgHash, n)
           new == [vec[i] EXCEPT !.want = "install", !.status = "unpacked",
                                 !.flags = IF byUser THEN @ \cup {"user"} ELSE @,
                                 !.auto = IF byUser THEN @ ELSE TRUE]
       IN  /\ Installable(n, i)
           /\ SetVec(n, [Retired(vec, i) EXCEPT ![i] = new])
           /\ fileHash' = Own(fileHash, At(n, i), new.files)

\* pkg_is_hosed
FailInstall(n) ==
  /\ Running /\ world.fails
  /\ \E i \in DOMAIN Vec(pkgHash, n) :
       LET vec == Vec(pkgHash, n)
           new == [vec[i] EXCEPT !.want = "install", !.status = "half-installed",
                                 !.flags = {"reinstreq"}]
       IN  /\ Installable(n, i)
           /\ SetVec(n, [Retired(vec, i) EXCEPT ![i] = new])
           /\ fileHash' = Own(fileHash, At(n, i), new.files)

Configure(n) ==
  /\ Running
  /\ \E i \in DOMAIN Vec(pkgHash, n) :
       /\ Vec(pkgHash, n)[i].status = "unpacked"
       /\ SetVec(n, [Vec(pkgHash, n) EXCEPT ![i].status = "installed"])
  /\ UNCHANGED fileHash

\* opkg_remove_pkg
RemovePkg(n) ==
  /\ Running
  /\ \E i \in DOMAIN Vec(pkgHash, n) :
       LET r == Vec(pkgHash, n)[i]
       IN  /\ IsInstalled(r) /\ ("hold" \in r.flags => world.removesHeld)
           /\ SetVec(n, [Vec(pkgHash, n) EXCEPT ![i].want = "deinstall",
                                                ![i].status = "not-installed"])
           /\ fileHash' = FoldLeft(Disown, fileHash,
                                   SetToSeq({f \in r.files : Owner(f) = At(n, i)}))

\* opkg_flag_cmd: the flag replaces all that were set.
Flag(n) ==
  /\ Running
  /\ Current(n) # 0
  /\ \E flag \in world.flags :
       SetVec(n, [Vec(pkgHash, n) EXCEPT ![Current(n)].flags = IF flag = "ok" THEN {} ELSE {flag}])
  /\ UNCHANGED fileHash

\* opkg_conf_write_status_files: what was never asked for, or removed and is not
\* held, is left out, and so is a version whose install came to nothing while
\* another one is there.
Kept(r, records) ==
  LET unwanted == \/ r.want \in {"unknown", "purge"}
                  \/ r.want = "deinstall" /\ "hold" \notin r.flags
      doubled  == r.want = "install" /\ \E s \in records : s.name = r.name /\ IsInstalled(s)
  IN  r.status = "not-installed" => ~unwanted /\ ~doubled

Recorded(list) ==
  FlattenSeq([i \in DOMAIN list |-> IF Kept(list[i], ToSet(list)) THEN <<list[i]>> ELSE <<>>])

Leave ==
  /\ pc = "on" /\ pc' = "off"
  /\ pkgHash' = Database.pkgs /\ fileHash' = FileTable!NewTable
  /\ providedBy' = Database.providedBy /\ neededBy' = Database.neededBy
  /\ UNCHANGED <<world, feed>>

Write ==
  /\ Leave
  /\ LET records == Recorded(Available(pkgHash))
     IN  statusFile' = [i \in DOMAIN records |-> Printed(records[i])]

Crash == Leave /\ UNCHANGED statusFile

\* opkg update: the source has another list now.
Update ==
  /\ pc = "off"
  /\ \E list \in world.feeds : feed' = list
  /\ UNCHANGED <<world, statusFile, pc, pkgHash, fileHash, providedBy, neededBy>>

Init ==
  /\ world \in Worlds
  /\ feed \in world.feeds
  /\ statusFile = world.status
  /\ pc = "off"
  /\ pkgHash = Database.pkgs /\ fileHash = FileTable!NewTable
  /\ providedBy = Database.providedBy /\ neededBy = Database.neededBy

Next ==
  \/ Load \/ Write \/ Crash \/ Update
  \/ \E n \in Names : Install(n) \/ FailInstall(n) \/ Configure(n) \/ RemovePkg(n) \/ Flag(n)

Spec == Init /\ [][Next]_vars

(***************************************************************************)
(* Properties.                                                             *)
(***************************************************************************)
Records == UNION {ToSet(Vec(pkgHash, n)) : n \in Names}

\* Chains keep their shape.  pkg_vec_insert_merge marries what is the same package:
\* no name has two records of one version and architecture, unless packages that
\* are held are removed, whose records take the place of any other.  And
\* hash_insert_pkg leaves no provider or dependent of a name out of its index.
DatabaseInv ==
  /\ PkgTable!WellFormed(pkgHash) /\ FileTable!WellFormed(fileHash)
  /\ \A n \in Names :
       LET vec == Vec(pkgHash, n)
       IN  /\ world.removesHeld \/ \A i, j \in DOMAIN vec : i < j => ~SameRecord(vec[j], vec[i])
           /\ \A r \in ToSet(vec) :
                /\ \A m \in r.provides \cup {n} : n \in providedBy[m]
                /\ \A m \in Needed(r) : n \in neededBy[m]

\* file_hash says of the files of the packages in place whose they are, and
\* gives a file to no package that does not have it, through all insertions into
\* and removals from shared chains.
OwnersMatch ==
  pc = "on" =>
    LET ps == ToSet(Pointers(pkgHash))
    IN  \A f \in File :
          LET havers  == {p \in ps : f \in Deref(pkgHash, p).files}
              holders == {p \in havers : InPlace(Deref(pkgHash, p))}
          IN  IF holders # {} THEN holders = {Owner(f)} ELSE Owner(f) \in {NoData} \cup havers

\* pkg_compare_versions, and what a constraint makes of it, is the order that
\* is meant, for every version that a dependence, or the user, may name, if the
\* epochs are no longer than an int.
VersionOrder ==
  \A r \in Records : \A s \in world.asked :
    LET w == ParseVersion(s)
        o == PolicyOrder(r.v, w)
    IN  Fits(r.v) /\ Fits(w) =>
          /\ Sgn(CompareVersions(r.v, w)) = o /\ Sgn(CompareVersions(w, r.v)) = -o
          /\ {op \in Constraints : Satisfied(r.v, op, w)} =
               CASE o < 0 -> {"<<", "<="} [] o = 0 -> {"<=", "=", ">="} [] o > 0 -> {">=", ">>"}

\* What a record amounts to between commands.
State(r) ==
  [name |-> r.name, v |-> r.v, arch |-> r.arch, want |-> r.want, status |-> r.status,
   flags |-> r.flags \cap NonVolatile, auto |-> IsInstalled(r) /\ r.auto]

States(records) == {State(r) : r \in {s \in records : Kept(s, records)}}

OnFile == States({Parsed(statusFile[i]) : i \in DOMAIN statusFile})

Promise == INSTANCE PkgRecords WITH
  current <- IF pc = "on" THEN States(Records) ELSE OnFile,
  saved   <- OnFile

\* Reading and writing the status file, and merging the feeds with it, change
\* no record; a command changes those of one package at a time.
ImplementsPkgRecords == Promise!Spec
=============================================================================

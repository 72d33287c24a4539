------------------------------ MODULE FileTrees ------------------------------
(***************************************************************************)
(* Directories and symbolic links: what installs, upgrades and removals    *)
(* do to a file tree in which packages share directories and reach them    *)
(* through links.  OpkgInstall has the engine's steps and failures, for    *)
(* regular files; here one package is one step, which fails for a clash    *)
(* only, and paths have kinds.                                             *)
(*                                                                         *)
(* An archive names a directory with a slash at its end, a .list file      *)
(* names it without: to file_hash these are two keys, <<path, slash>>.     *)
(***************************************************************************)
EXTENDS Naturals, SequencesExt

CONSTANTS
  Pkg, Names, name, version,
  Path,      \* sequences of at most two components
  Worlds,    \* [archive, order, batch], see world
  NoPkg

Kinds == {"file", "dir", "link"}

ASSUME ConstantsOK ==
  /\ name \in [Pkg -> Names] /\ version \in [Pkg -> Nat] /\ NoPkg \notin Pkg
  /\ \A w \in Worlds : /\ DOMAIN w = {"archive", "order", "batch"}
                       /\ ToSet(w.order) = Pkg /\ w.batch \in BOOLEAN
                       /\ \A p \in Pkg : \A e \in ToSet(w.archive[p]) :
                            e.path \in Path /\ e.kind \in Kinds

VARIABLES
  world,    \* the data archives, in their order; the order of the package hash;
            \* may a command handle several packages?
  disk,     \* what each path is
  lists,    \* the paths named in info_dir/<name>.list
  db,       \* the status file
  pc,       \* the command that runs
  status, owner, obs, changed,  \* as in OpkgInstall
  hosed     \* history: the names of which an install ever failed

vars == <<world, disk, lists, db, pc, status, owner, obs, changed, hosed>>

Key == Path \X BOOLEAN

Node(kind, of, to) == [kind |-> kind, of |-> of, to |-> to]
Nothing == Node("none", NoPkg, <<>>)
Dir     == Node("dir", NoPkg, <<>>)

(***************************************************************************)
(* The file system.  A link leads to a path of one component.              *)
(***************************************************************************)

\* Where a path leads that may start with a link.
Resolve(t, path) ==
  IF Len(path) = 2 /\ t[<<path[1]>>].kind = "link"
  THEN Append(t[<<path[1]>>].to, path[2]) ELSE path

\* lstat: nothing for a path that leads nowhere.
At(t, path) ==
  LET r == Resolve(t, path)
  IN IF r \in Path /\ (Len(r) = 2 => t[<<r[1]>>].kind = "dir") THEN t[r] ELSE Nothing

file_exists(t, path)     == At(t, path) # Nothing
file_is_dir(t, path)     == At(t, path).kind = "dir"
file_is_symlink(t, path) == At(t, path).kind = "link"
LeadsToDir(t, path)      == file_is_symlink(t, path) /\ file_is_dir(t, At(t, path).to)

Set(t, path, node) == [t EXCEPT ![Resolve(t, path)] = node]

Entries(t, path) == {q \in Path : Len(q) = 2 /\ <<q[1]>> = path /\ t[q] # Nothing}

\* rmdir, which leaves alone what is not an empty directory.
Rmdir(t, path) ==
  IF file_is_dir(t, path) /\ Entries(t, Resolve(t, path)) = {}
  THEN Set(t, path, Nothing) ELSE t

(***************************************************************************)
(* Extraction.  libarchive is asked to unlink what is in the way of a file *)
(* or a link, not to touch a directory that exists, or a link in its       *)
(* place, and makes missing parents.                                       *)
(***************************************************************************)
Parent(path) == <<path[1]>>

CanReach(t, path) ==
  Len(path) = 2 => At(t, Parent(path)).kind \in {"none", "dir"} \/ LeadsToDir(t, Parent(path))

MakeParent(t, path) ==
  IF Len(path) = 2 /\ ~file_exists(t, Parent(path)) THEN Set(t, Parent(path), Dir) ELSE t

ExtractEntry(x, p, e) ==
  LET t == MakeParent(x.tree, e.path)
  IN CASE ~x.ok \/ ~CanReach(x.tree, e.path) -> [x EXCEPT !.ok = FALSE]
       [] e.kind = "dir" -> [x EXCEPT !.tree = IF file_exists(t, e.path) THEN t
                                               ELSE Set(t, e.path, Dir)]
       [] OTHER -> [x EXCEPT !.tree = Set(t, e.path, Node(e.kind, p, e.to))]

Extract(t, p) ==
  FoldLeft(LAMBDA x, e : ExtractEntry(x, p, e), [tree |-> t, ok |-> TRUE], world.archive[p])

(***************************************************************************)
(* Lists and owners.                                                       *)
(***************************************************************************)
ArchiveKey(e) == <<e.path, e.kind = "dir">>
ListKey(path) == <<path, FALSE>>
ListKeys(p)   == {ListKey(path) : path \in lists[name[p]]}

\* pkg_write_filelist: what file_hash gives to p, without the slashes.
OwnedPaths(o, p) == {k[1] : k \in {j \in Key : o[j] = p}}

Recorded(s, n) == {p \in Pkg : name[p] = n /\ s[p] # "not-installed"}
Old(n) == IF Recorded(status, n) = {} THEN NoPkg ELSE CHOOSE p \in Recorded(status, n) : TRUE

Claim(K, p) == [k \in Key |-> IF k \in K THEN p ELSE owner[k]]
Losers(K)   == {owner[k] : k \in K} \ {NoPkg}
Flagged(K, p) == IF Losers(K) = {} THEN {} ELSE Losers(K) \union {p}

(***************************************************************************)
(* check_data_file_clashes, after update_file_ownership has set owners o   *)
(* and obsolete keys b.                                                    *)
(***************************************************************************)

\* Mutant: directories are not compared with what is no directory.
ClashesByOwner(o, b, p, e) ==
  /\ file_exists(disk, e.path) /\ ArchiveKey(e) \notin b
  /\ o[ArchiveKey(e)] # NoPkg => name[o[ArchiveKey(e)]] # name[p]

Clashes(o, b, p, e) ==
  LET isDir    == e.kind = "dir"
      hereDir  == file_is_dir(disk, e.path)
      hereLink == file_is_symlink(disk, e.path)
      sameLink == e.kind = "link" /\ hereLink /\ At(disk, e.path).to = e.to
  IN /\ file_exists(disk, e.path)
     /\ CASE hereDir /\ isDir          -> FALSE
          [] hereLink /\ isDir         -> ~LeadsToDir(disk, e.path)
          [] hereDir \/ isDir          -> TRUE
          [] sameLink /\ LeadsToDir(disk, e.path) -> FALSE
          [] OTHER -> /\ ArchiveKey(e) \notin b
                      /\ o[ArchiveKey(e)] # NoPkg => name[o[ArchiveKey(e)]] # name[p]

(***************************************************************************)
(* remove_data_files_and_list.                                             *)
(***************************************************************************)

\* One pass over the directories that are left: [tree, left].
Pass(x) ==
  FoldLeft(LAMBDA y, d : IF Rmdir(y.tree, d) = y.tree THEN [y EXCEPT !.left = Append(@, d)]
                         ELSE [y EXCEPT !.tree = Rmdir(@, d)],
           [tree |-> x.tree, left |-> <<>>], x.left)

\* Mutant: the list is gone through once.
OnePass(t, dirs) == Pass([tree |-> t, left |-> dirs]).tree

\* Passes until one removes nothing; each of the others shortens the list.
RemoveDirs(t, dirs) ==
  FoldLeft(LAMBDA x, i : Pass(x), [tree |-> t, left |-> dirs], dirs).tree

\* What of p's list is still p's goes: files and links to files at once, then
\* the directories that are or become empty, in any order that the hash may
\* have put them in, then the links to directories.  The set of the trees.
Removals(t, o, p) ==
  LET mine  == {path \in lists[name[p]] : o[ListKey(path)] = p}
      dirs  == {path \in mine : file_is_dir(t, path)}
      links == {path \in mine : LeadsToDir(t, path)}
      unlinked(u, S) == FoldLeft(LAMBDA v, path : IF At(v, path).kind \in {"file", "link"}
                                                  THEN Set(v, path, Nothing) ELSE v,
                                 u, SetToSeq(S))
  IN {unlinked(RemoveDirs(unlinked(t, mine \ (dirs \union links)), s), links) :
        s \in SetToSeqs(dirs)}

\* file_hash keeps the directories, and the links to directories.
Forgotten(t, o, p) ==
  [k \in Key |-> IF /\ k \in ListKeys(p) /\ o[k] = p
                    /\ ~file_is_dir(t, k[1]) /\ ~LeadsToDir(t, k[1])
                 THEN NoPkg ELSE o[k]]

\* remove_obsolesced_files.
Obsolete(t, o, p, q) ==
  {path \in lists[name[q]] : /\ o[ListKey(path)] = q /\ ~file_is_dir(t, path)
                             /\ \A e \in ToSet(world.archive[p]) : ArchiveKey(e) # ListKey(path)}

Pruned(t, o, p, q) ==
  FoldLeft(LAMBDA u, path : IF file_exists(u, path) THEN Set(u, path, Nothing) ELSE u,
           t, SetToSeq(Obsolete(t, o, p, q)))

(***************************************************************************)
(* The commands.                                                           *)
(***************************************************************************)
Init ==
  /\ world \in Worlds
  /\ disk = [path \in Path |-> Nothing]
  /\ lists = [n \in Names |-> {}]
  /\ db = [p \in Pkg |-> "not-installed"] /\ status = db
  /\ pc = "off"
  /\ owner = [k \in Key |-> NoPkg] /\ obs = {} /\ changed = {}
  /\ hosed = {}

\* pkg_info_preinstall_check: of packages whose lists name the same path the
\* last one in the hash owns it, and both lists are to be written again.
Start(c) ==
  /\ pc = "off"
  /\ LET claimants(k) == SelectSeq(world.order, LAMBDA p : db[p] = "installed" /\ k \in ListKeys(p))
     IN /\ owner' = [k \in Key |-> IF claimants(k) = <<>> THEN NoPkg ELSE Last(claimants(k))]
        /\ changed' = UNION {ToSet(claimants(k)) : k \in {j \in Key : Len(claimants(j)) > 1}}
  /\ pc' = c
  /\ UNCHANGED <<world, disk, lists, db, status, obs, hosed>>

Goes(c) == pc = c /\ (world.batch \/ status = db)

\* opkg_install_pkg.
Install(p) ==
  LET old    == Old(name[p])
      takes  == {ArchiveKey(e) : e \in {f \in ToSet(world.archive[p]) :
                   owner[ArchiveKey(f)] \in {NoPkg, old} \/ ArchiveKey(f) \in obs}}
      o      == Claim(takes, p)
      gone   == IF old = NoPkg THEN {} ELSE {k \in ListKeys(old) : o[k] \in {NoPkg, old}}
      b      == obs \union gone
      ch     == changed \union Flagged(takes, p)
      retired(s) == [q \in Pkg |-> IF q = p THEN s ELSE IF q = old THEN "not-installed"
                                   ELSE status[q]]
      clash  == \E e \in ToSet(world.archive[p]) : Clashes(o, b, p, e)
      kept   == IF old = NoPkg THEN o ELSE Forgotten(Pruned(disk, o, p, old), o, old)
      bare   == IF old = NoPkg THEN {disk} ELSE Removals(Pruned(disk, o, p, old), o, old)
  IN /\ Goes("install")
     /\ old # NoPkg => version[old] < version[p] /\ status[old] = "installed"
     /\ obs' = b
     /\ \/ /\ clash
           /\ owner' = o /\ UNCHANGED <<disk, lists>>
           /\ status' = retired("half-installed")
           /\ changed' = ch \ {p} /\ hosed' = hosed \union {name[p]}
        \/ /\ ~clash
           /\ owner' = kept
           /\ \E t \in bare :
                LET x == Extract(t, p)
                IN /\ disk' = x.tree
                   /\ lists' = [lists EXCEPT ![name[p]] = IF x.ok THEN OwnedPaths(kept, p) ELSE {}]
                   /\ status' = retired(IF x.ok THEN "installed" ELSE "half-installed")
                   /\ hosed' = IF x.ok THEN hosed ELSE hosed \union {name[p]}
           /\ changed' = ch \ {p}
     /\ UNCHANGED <<world, db, pc>>

\* opkg_remove_pkg.
Uninstall(p) ==
  /\ Goes("remove") /\ status[p] # "not-installed"
  /\ disk' \in Removals(disk, owner, p)
  /\ owner' = Forgotten(disk, owner, p)
  /\ lists' = [lists EXCEPT ![name[p]] = {}]
  /\ status' = [status EXCEPT ![p] = "not-installed"]
  /\ UNCHANGED <<world, db, pc, obs, changed, hosed>>

\* pkg_write_changed_filelists, the status file, and the process is gone.
Exit ==
  /\ pc # "off"
  /\ lists' = [n \in Names |->
       LET w == {p \in changed : name[p] = n /\ status[p] = "installed"}
       IN IF w = {} THEN lists[n] ELSE OwnedPaths(owner, CHOOSE p \in w : TRUE)]
  /\ db' = status
  /\ pc' = "off"
  /\ owner' = [k \in Key |-> NoPkg] /\ obs' = {} /\ changed' = {}
  /\ UNCHANGED <<world, disk, status, hosed>>

Next ==
  \/ \E c \in {"install", "remove"} : Start(c)
  \/ \E p \in Pkg : Install(p) \/ Uninstall(p)
  \/ Exit

Spec == Init /\ [][Next]_vars

(***************************************************************************)
(* Properties.                                                             *)
(***************************************************************************)

\* Packages of other names have a path of S too, as one kind or another, or
\* something in it.
Shared(n, S) ==
  \E p \in Pkg : name[p] # n /\ \E e \in ToSet(world.archive[p]) : {e.path, Parent(e.path)} \intersect S # {}

\* Where the links of p to the path are, and the path.
WaysTo(p, path) ==
  {path} \union {e.path : e \in {f \in ToSet(world.archive[p]) : f.kind = "link" /\ f.to = path}}

\* What the archive of p has at e is there: the same link, a directory or a
\* link to one, a file of p.
Intact(p, e) ==
  LET node == At(disk, e.path)
  IN CASE e.kind = "dir"  -> node.kind = "dir" \/ LeadsToDir(disk, e.path)
       [] e.kind = "link" -> node.kind = "link" /\ node.to = e.to
       [] OTHER           -> node.kind = "file" /\ node.of = p

\* "directories may be owned by multiple packages": what one package is
\* installed with stays until it goes, whatever is done to the others.
SharedPathsStay ==
  \A p \in Pkg : status[p] = "installed" =>
    \A e \in ToSet(world.archive[p]) : Intact(p, e)

\* Other packages have the path too, as a directory or a link.
Common(n, path) ==
  \E p \in Pkg : name[p] # n /\ \E e \in ToSet(world.archive[p]) : e.path = path /\ e.kind # "file"

\* Some package has a link there, or one that leads there.
Linked(path) ==
  \E p \in Pkg : \E e \in ToSet(world.archive[p]) : e.kind = "link" /\ path \in {e.path, e.to}

\* What can be relied on all the same: files stay, and so does what no other
\* package has as a directory or a link, except in a directory with two names.
\* Installs that clash are refused (check_data_file_clashes), and upgrades and
\* removals of others take only what they own.
OwnPathsStay ==
  \A p \in Pkg : status[p] = "installed" =>
    \A e \in ToSet(world.archive[p]) :
      \/ Intact(p, e)
      \/ Common(name[p], e.path)
      \/ Len(e.path) = 2 /\ Linked(Parent(e.path))

\* "I expect all files/directories to be deleted, even the symlinks": of a
\* package that is gone nothing is left that no other package has, whatever
\* order its list is in (remove_data_files_and_list), unless an install of it
\* failed.
NothingIsLeft ==
  pc = "off" => \A p \in Pkg : \A e \in ToSet(world.archive[p]) :
    Recorded(status, name[p]) = {} /\ file_exists(disk, e.path) =>
      name[p] \in hosed \/ Shared(name[p], WaysTo(p, e.path) \union WaysTo(p, Parent(e.path)))
=============================================================================

------------------------------- MODULE Dists -------------------------------
(***************************************************************************)
(* The part of `opkg update' that comes first: for a dist source its        *)
(* Release file and, for every component and architecture, a list of        *)
(* packages which must be what the Release file says.  What a command       *)
(* loads of a dist, and that the lists it loads are then updated once more, *)
(* as sources of their own, is in Sublists.                                *)
(*                                                                         *)
(* One dist; its Release file of version v has the sums of the lists of    *)
(* version v.  The process variables are shared with Feeds.                 *)
(***************************************************************************)
EXTENDS Downloads

CONSTANTS
  Source,       \* what the src and src/gz lines of the configuration name
  Component, Arch

\* More fields of a world:
\*   dist        there is a dist source
\*   distgz      it is a dist/gz source
\*   components  its components, and
\*   arches      the architectures of the configuration, both in their order
\*   supported   the Release file has these components and one of the arches

VARIABLES
  command,   \* "update" or "install", while pc is not "off"
  pc,        \* what the command does next
  src,       \* the source it is at
  todo,      \* the sources an update has not come to
  failed,    \* failures # 0
  expect,    \* the version the loaded feed has for the package
  report,    \* how the last command ended
  walk       \* release_download: the list it is at, its err and its ret

cmd == <<command, pc, src, todo, failed, expect, report, walk>>

Release == <<"release", "dist">>
feed(s) == <<"feed", s>>
gz(l) == <<"gz", l>>

\* A list of a dist is named by its component and its architecture.
Sublist == Component \X Arch
ListCount == Len(world.components) * Len(world.arches)
ListAt(n) == << world.components[((n - 1) \div Len(world.arches)) + 1],
                world.arches[((n - 1) % Len(world.arches)) + 1] >>
\* Nothing keeps a configuration from naming one twice.
ListsDiffer == \A m, n \in 1..ListCount : ListAt(m) = ListAt(n) => m = n
DistLists == IF world.dist THEN {ListAt(n) : n \in 1..ListCount} ELSE {}
DistUrls == IF world.dist
            THEN {Release} \union {feed(l) : l \in DistLists} \union {gz(l) : l \in DistLists}
            ELSE {}

NoWalk == [at |-> 1, err |-> FALSE, ret |-> FALSE]

\* A new version of a dist comes all at once, unless the server is restless.
PublishDist ==
  /\ world.dist
  /\ \E v \in Version :
       /\ v # served[Release]
       /\ world.rollback \/ \A u \in DistUrls : v >= served[u]
       /\ served' = [u \in Url |-> IF u \in DistUrls THEN v ELSE served[u]]
  /\ UNCHANGED <<world, calm, disk, stamp, xfer>>

Consistent == \A u \in DistUrls : served[u] = served[Release]

NoSrc == CHOOSE s \in Source : TRUE

\* The process is gone, and with it what it remembers.
Gone(r) ==
  /\ pc' = "off" /\ report' = r
  /\ src' = NoSrc
  /\ command' = "update" /\ todo' = {} /\ failed' = FALSE /\ expect' = NoVer
  /\ walk' = NoWalk
  /\ Rest /\ offset' = 0

-----------------------------------------------------------------------------
(* What the next command finds.                                            *)

ReleaseFile == disk["list"][Release]

\* dist_hash_add_from_file: strtok cuts the component off the name once a list
\* was found, so that the lists of the other architectures are not.
FirstFound(c) ==
  {n \in DOMAIN world.arches :
     /\ disk["list"][feed(<<c, world.arches[n]>>)] # NoFile
     /\ \A k \in 1..(n - 1) : disk["list"][feed(<<c, world.arches[k]>>)] = NoFile}

Found == {l \in DistLists : \E n \in FirstFound(l[1]) : l[2] = world.arches[n]}

\* The lists that pkg_hash_load_feeds makes sources of, as it may come out: a
\* Release file that is not whole names its components or does not.
Sublists ==
  IF ~world.dist \/ ReleaseFile = NoFile THEN {{}}
  ELSE IF IsWhole(ReleaseFile) THEN {Found} ELSE {{}, Found}

\* cksum_init reads beyond what a line has that was cut off, and
\* cksum_list_find returns NULL for a list that is not there.
MayDieOf(c) == c # NoFile /\ c # <<>> /\ ~IsWhole(c)

-----------------------------------------------------------------------------
(* The first loop of opkg_update_cmd.                                      *)

\* opkg_download goes through the cache unless that is volatile.
OwnPlace == IF world.volatile THEN "list" ELSE "cache"

\* The command goes on at p, with the source s if it still needs it.
GoOn(p, s) ==
  /\ pc' = p /\ src' = s /\ Rest /\ UNCHANGED offset
  /\ UNCHANGED <<world, calm, served, stamp, command, todo, expect, report>>

Fetch(u, pl, p) ==
  /\ Begin(u, pl)
  /\ pc' = p
  /\ UNCHANGED <<world, calm, served, stamp, command, src, todo, failed, expect,
                 report, walk>>

FetchRelease == pc = "dist" /\ Fetch(Release, OwnPlace, "release")

LeaveDist(failure) ==
  /\ GoOn("next", NoSrc) /\ failed' = (failed \/ failure)
  /\ walk' = NoWalk

ReleaseLost == pc = "release" /\ step = "failed" /\ LeaveDist(TRUE) /\ UNCHANGED disk

\* release_init_from_file and release_comps_supported
StoreRelease ==
  /\ pc = "release" /\ step = "ok"
  /\ IF world.supported
     THEN /\ disk' = [disk EXCEPT !["list"][Release] = Here]
          /\ GoOn("lists", NoSrc) /\ UNCHANGED <<failed, walk>>
     ELSE /\ disk' = [disk EXCEPT !["list"][Release] = NoFile]
          /\ LeaveDist(TRUE)

StoreReleaseFails ==
  /\ pc = "release" /\ step = "ok" /\ place = "cache" /\ Fault("disk")
  /\ \E c \in PrefixesOf(Here) \union {ReleaseFile} :
       disk' = [disk EXCEPT !["list"][Release] = c]
  /\ LeaveDist(TRUE)

-----------------------------------------------------------------------------
(* release_download.                                                       *)

Current == ListAt(walk.at)
LastOfComponent == walk.at % Len(world.arches) = 0

FetchList ==
  /\ pc = "lists" /\ walk.at <= ListCount
  /\ IF world.distgz THEN Fetch(gz(Current), "cache", "gzlist")
                     ELSE Fetch(feed(Current), OwnPlace, "list")

\* err is that of the last architecture, whatever became of those before it.
NextList(err) ==
  /\ GoOn("lists", NoSrc) /\ UNCHANGED failed
  /\ walk' = [at  |-> walk.at + 1,
              err |-> err /\ ~LastOfComponent,
              ret |-> walk.ret \/ (err /\ LastOfComponent)]

\* Mutant: only the size is compared.
VouchedBySize(c) == c # NoFile /\ Len(c) = Size /\ IsWhole(ReleaseFile)

\* release_verify_file
Vouched(c) == IsWhole(ReleaseFile) /\ c = ReleaseFile

\* The list without compression, after the compressed one did not do.
FallBack(d) ==
  /\ BeginOn(d, feed(Current), OwnPlace)
  /\ pc' = "list" /\ walk' = [walk EXCEPT !.err = TRUE]
  /\ UNCHANGED <<world, calm, served, stamp, command, src, todo, failed, expect, report>>

\* A compressed list that does not come is no error: err is what it was.
GzListLost ==
  /\ pc = "gzlist" /\ step = "failed"
  /\ IF walk.err THEN FallBack(disk) ELSE NextList(FALSE) /\ UNCHANGED disk

\* file_decompress, as in Feeds, of what was verified.
TakeGzList ==
  /\ pc = "gzlist" /\ step = "ok"
  /\ LET listed(c) == [disk EXCEPT !["list"][feed(Current)] = c] IN
       IF Vouched(Here)
       THEN \/ disk' = listed(Here) /\ NextList(FALSE)
            \/ /\ Fault("disk")
               /\ \E c \in PrefixesOf(Here) :
                    \/ disk' = listed(c) /\ NextList(FALSE)
                    \/ FallBack(listed(c))
       ELSE FallBack(listed(NoFile))

ListLost == pc = "list" /\ step = "failed" /\ NextList(TRUE) /\ UNCHANGED disk

TakeList ==
  /\ pc = "list" /\ step = "ok"
  /\ disk' = [disk EXCEPT !["list"][url] = IF Vouched(Here) THEN Here ELSE NoFile]
  /\ NextList(~Vouched(Here))

TakeListFails ==
  /\ pc = "list" /\ step = "ok" /\ place = "cache" /\ Fault("disk")
  /\ \E c \in PrefixesOf(Here) \union {disk["list"][url]} :
       disk' = [disk EXCEPT !["list"][url] = c]
  /\ NextList(TRUE)

\* Mutant: the failure is not counted.
FinishDistQuietly ==
  /\ pc = "lists" /\ walk.at > ListCount
  /\ disk' = IF walk.ret THEN [disk EXCEPT !["list"][Release] = NoFile] ELSE disk
  /\ LeaveDist(FALSE)

\* Without its Release file the lists of a dist are not loaded.
FinishDist ==
  /\ pc = "lists" /\ walk.at > ListCount
  /\ disk' = IF walk.ret THEN [disk EXCEPT !["list"][Release] = NoFile] ELSE disk
  /\ LeaveDist(walk.ret)

\* The process dies of a Release file that is not whole, when it is parsed or
\* when a list is looked up in it.
DieOfRelease ==
  /\ \/ pc = "lists" /\ walk.at = 1
     \/ pc \in {"gzlist", "list"} /\ step = "ok"
  /\ MayDieOf(ReleaseFile)
  /\ Gone("killed")
  /\ UNCHANGED <<world, calm, served, disk, stamp>>

\* So does a command that loads the feeds, at its start.
DieLoading ==
  /\ pc = "off" /\ MayDieOf(ReleaseFile)
  /\ Gone("killed")
  /\ UNCHANGED <<world, calm, served, disk, stamp>>

DistStep ==
  \/ FetchRelease \/ ReleaseLost \/ StoreRelease \/ StoreReleaseFails
  \/ FetchList \/ GzListLost \/ TakeGzList
  \/ ListLost \/ TakeList \/ TakeListFails
  \/ FinishDist \/ DieOfRelease

-----------------------------------------------------------------------------
\* The loop leaves with success only when, for each component, the list of its
\* last architecture is what the Release file beside it says, whatever the server
\* and the disk did; a compressed list that did not come is no failure.
LeavesVouched ==
  pc = "lists" /\ pc' = "next" /\ ~failed' /\ ~world.distgz =>
    \A n \in 1..ListCount : n % Len(world.arches) = 0 =>
      LET c == disk'["list"][feed(ListAt(n))] IN
        IsWhole(c) /\ c = disk'["list"][Release]
VouchedByRelease == [][LeavesVouched]_<<disk, cmd>>
=============================================================================

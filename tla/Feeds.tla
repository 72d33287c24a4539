------------------------------- MODULE Feeds -------------------------------
(***************************************************************************)
(* `opkg update', `opkg install' and `opkg clean' seen from the feeds: what *)
(* is downloaded, how it gets from the cache to the lists, when it is      *)
(* verified, what the next command loads of it, and which package file an  *)
(* installation ends up with.  Commands fail, are killed and start again;  *)
(* the repository changes between them or under them.                      *)
(*                                                                         *)
(* A source has one feed, one signature and one package.  The package is   *)
(* named in the first block of the feed and keeps its URL when it is built *)
(* anew.  A signature fits the feed of its own version.                    *)
(***************************************************************************)
EXTENDS Dists

\* The server, the options and what may fail.  Neither update nor the download of
\* an install has a handler that cleans up after SIGINT.
World ==
  [backend : {"curl", "wget"}, tags : SUBSET BOOLEAN, sized : BOOLEAN,
   restless : BOOLEAN, rollback : BOOLEAN, faults : SUBSET {"network", "disk"},
   dist : BOOLEAN, distgz : BOOLEAN, components : Seq(Component), arches : Seq(Arch),
   supported : BOOLEAN,
   sources : SUBSET Source,  \* the configured sources
   gzip : SUBSET Source,     \* those of them that are src/gz
   compress : BOOLEAN,       \* compress_list_files
   signed : BOOLEAN,         \* check_signature
   volatile : BOOLEAN,       \* volatile_cache
   force : BOOLEAN,          \* force_checksum
   kills : BOOLEAN]          \* a command may be killed, SIGINT included

ASSUME FeedsOK ==
  /\ Worlds \subseteq World /\ Source # {}
  /\ {Release} \union ({"feed", "sig", "pkg"} \X Source)
       \union ({"feed", "gz", "sig"} \X Sublist) \subseteq Url
  /\ Source \intersect (Sublist \union {"dist"}) = {}  \* names of lists differ
  /\ \A w \in Worlds : w.dist => ~w.compress  \* nothing makes <dist>.gz

vars == <<world, calm, served, disk, stamp, xfer, cmd>>

sig(s) == <<"sig", s>>
pkg(s) == <<"pkg", s>>

TypeOK ==
  /\ TransferTypes
  /\ command \in {"update", "install"}
  /\ pc \in {"off", "dist", "release", "lists", "gzlist", "list",
            "next", "feed", "compress", "signature", "sig",
            "verify", "package", "fetch"}
  /\ src \in Source \union Sublist /\ todo \subseteq world.sources \union DistLists
  /\ failed \in BOOLEAN
  /\ expect \in Version \union {NoVer}
  /\ report \in {"none", "updated", "failures", "installed", "refused",
                 "killed", "unreadable"}
  /\ walk \in [at : Nat, err : BOOLEAN, ret : BOOLEAN]
  /\ pc = "off" => step = "idle"

Init ==
  /\ TransferInit
  /\ command = "update" /\ pc = "off" /\ src = CHOOSE s \in Source : TRUE
  /\ todo = {} /\ failed = FALSE /\ expect = NoVer
  /\ report = "none" /\ walk = NoWalk

RepositoryChanges ==
  /\ ~calm
  /\ world.restless \/ pc = "off"
  /\ \/ \E u \in Url : /\ u[2] \in world.sources \/ (world.restless /\ u \in DistUrls)
                      /\ Publish(u)
     \/ ~world.restless /\ PublishDist
  /\ UNCHANGED cmd

\* From here on nothing changes, fails or is killed; the repository is left with
\* feeds that their signatures fit.
CalmDown ==
  /\ ~calm
  /\ \A s \in world.sources : world.signed => served[sig(s)] = served[feed(s)]
  /\ Consistent
  /\ calm' = TRUE
  /\ UNCHANGED <<world, served, disk, stamp, xfer, cmd>>

-----------------------------------------------------------------------------
(* A command starts, and ends.                                             *)

Loaded(s) == disk[IF world.compress THEN "gz" ELSE "list"][feed(s)]

\* pkg_hash_load_feeds: a list is read as far as it goes, but a compressed
\* list that is not all there is an error.
Loads(s) == ~world.compress \/ Loaded(s) \in {NoFile, <<>>} \/ IsWhole(Loaded(s))
AllLoad == \A s \in world.sources : Loads(s)

Named(s) == IF Loaded(s) \in {NoFile, <<>>} THEN NoVer ELSE Loaded(s)[1]

NoFiles == [u \in Url |-> NoFile]

\* opkg_conf_deinit, which removes a volatile cache with its stamps.
Exit(r) ==
  /\ Gone(r)
  /\ stamp' = IF world.volatile THEN [u \in Url |-> NoVer] ELSE stamp

\* What the disk is once the command that left it as d has ended.
AtExit(d) ==
  IF world.volatile THEN [d EXCEPT !["cache"] = NoFiles] ELSE d

StartUpdate ==
  /\ pc = "off" /\ AllLoad
  /\ command' = "update" /\ pc' = IF world.dist THEN "dist" ELSE "next"
  /\ \E lists \in Sublists : todo' = world.sources \union lists
  /\ report' = "none"
  /\ UNCHANGED <<world, calm, served, disk, stamp, xfer, src, failed, expect, walk>>

StartInstall(s) ==
  /\ pc = "off" /\ AllLoad /\ s \in world.sources
  /\ Named(s) # NoVer
  /\ command' = "install" /\ src' = s /\ expect' = Named(s)
  /\ pc' = IF world.signed THEN "verify" ELSE "package"
  /\ report' = "none"
  /\ UNCHANGED <<world, calm, served, disk, stamp, xfer, todo, failed, walk>>

\* Any command that loads the feeds, `opkg update' among them.
CannotStart ==
  /\ pc = "off" /\ ~AllLoad
  /\ Exit("unreadable") /\ disk' = AtExit(disk)
  /\ UNCHANGED <<world, calm, served>>

\* opkg_clean_cmd, which needs no feeds.
Clean ==
  /\ pc = "off"
  /\ disk' = [disk EXCEPT !["cache"] = NoFiles]
  /\ stamp' = [u \in Url |-> NoVer]
  /\ UNCHANGED <<world, calm, served, xfer, cmd>>

\* What is on disk stays as it is.
Kill ==
  /\ pc # "off" /\ world.kills /\ ~calm
  /\ Gone("killed")
  /\ UNCHANGED <<world, calm, served, disk, stamp>>

Work ==
  /\ pc \in {"release", "gzlist", "list", "feed", "sig", "fetch"}
  /\ Transfer
  /\ UNCHANGED cmd

-----------------------------------------------------------------------------
(* opkg_update_cmd and pkg_src_update.                                     *)

\* pkg_src_download: a src/gz feed always goes through the cache, anything
\* else only if the cache is kept.
FeedPlace(s) == IF s \in world.gzip \/ ~world.volatile THEN "cache" ELSE "list"

NextSource(s) ==
  /\ pc = "next"
  /\ Begin(feed(s), FeedPlace(s))
  /\ pc' = "feed" /\ src' = s /\ todo' = todo \ {s}
  /\ UNCHANGED <<world, calm, served, stamp, command, failed, expect, report, walk>>

NextOne(failure) == /\ GoOn("next", NoSrc) /\ failed' = (failed \/ failure)
                    /\ UNCHANGED walk

\* Mutant: the failure is not counted.
LostUncounted ==
  /\ pc \in {"feed", "sig"} /\ step = "failed"
  /\ NextOne(FALSE)
  /\ UNCHANGED disk

TransferLost ==
  /\ pc \in {"feed", "sig"} /\ step = "failed"
  /\ NextOne(TRUE)
  /\ UNCHANGED disk

Gzipped == src \in world.gzip
Decompresses == Gzipped /\ ~world.compress
Target == IF Gzipped /\ world.compress THEN "gz" ELSE "list"

\* Where the command goes once the feed is in its list.
AfterFeed == IF world.signed THEN GoOn("signature", src) /\ UNCHANGED <<failed, walk>>
                             ELSE NextOne(FALSE)

\* file_copy, file_decompress, or nothing if the list was downloaded itself.
\* What is decompressed must be whole, or empty.
StoreFeed ==
  /\ pc = "feed" /\ step = "ok"
  /\ Decompresses => IsWhole(Here) \/ Here = <<>>
  /\ disk' = [disk EXCEPT ![Target][url] = Here]
  /\ IF world.compress /\ ~Gzipped
     THEN GoOn("compress", src) /\ UNCHANGED <<failed, walk>>
     ELSE AfterFeed

\* The list is opened for writing before it is clear that there is enough to
\* write; file_decompress does not look at what fclose returns.
StoreFeedFails ==
  /\ pc = "feed" /\ step = "ok" /\ place = "cache"
  /\ \/ /\ Fault("disk") \/ (Decompresses /\ ~IsWhole(Here))
        /\ \E c \in PrefixesOf(Here) \union {disk[Target][url]} :
             disk' = [disk EXCEPT ![Target][url] = c]
        /\ NextOne(TRUE)
     \/ /\ Decompresses /\ Fault("disk") /\ IsWhole(Here)
        /\ \E c \in PrefixesOf(Here) : disk' = [disk EXCEPT ![Target][url] = c]
        /\ AfterFeed

\* file_gz_compress: a write that fails goes unnoticed and the list is removed
\* all the same; any other failure leaves the list and is not reported either.
CompressList ==
  /\ pc = "compress"
  /\ LET c == disk["list"][feed(src)] IN
       \/ disk' = [disk EXCEPT !["gz"][feed(src)] = c, !["list"][feed(src)] = NoFile]
       \/ /\ Fault("disk")
          /\ \E part \in PrefixesOf(c) \union {disk["gz"][feed(src)]} :
             \E left \in {c, NoFile} :
               disk' = [disk EXCEPT !["gz"][feed(src)] = part,
                                    !["list"][feed(src)] = left]
  /\ AfterFeed

FetchSignature ==
  /\ pc = "signature"
  /\ Fetch(sig(src), OwnPlace, "sig")

StoreSignature ==
  /\ pc = "sig" /\ step = "ok"
  /\ \/ /\ disk' = [disk EXCEPT !["list"][url] = Here]
        /\ GoOn("verify", src) /\ UNCHANGED <<failed, walk>>
     \/ /\ Fault("disk") /\ place = "cache"
        /\ \E c \in PrefixesOf(Here) \union {disk["list"][url]} :
             disk' = [disk EXCEPT !["list"][url] = c]
        /\ NextOne(TRUE)

\* Mutant: a missing signature is no objection.
VerifiedIfSigned == disk["list"][sig(src)] \in {disk["list"][feed(src)], NoFile}

\* pkg_src_verify looks at <lists>/<name>, compressed or not.
Verified == /\ IsWhole(disk["list"][sig(src)])
            /\ disk["list"][sig(src)] = disk["list"][feed(src)]

Unverified == [disk EXCEPT !["list"][feed(src)] = NoFile, !["list"][sig(src)] = NoFile]

VerifyFeed ==
  /\ pc = "verify" /\ command = "update"
  /\ NextOne(~Verified)
  /\ disk' = IF Verified THEN disk ELSE Unverified

FinishUpdate ==
  /\ pc = "next" /\ todo = {}
  /\ Exit(IF failed THEN "failures" ELSE "updated")
  /\ disk' = AtExit(disk)
  /\ UNCHANGED <<world, calm, served>>

-----------------------------------------------------------------------------
(* install: opkg_install_pkg as far as the unpacking, opkg_download_pkg    *)
(* and pkg_verify.                                                         *)

CheckSource ==
  /\ pc = "verify" /\ command = "install"
  /\ IF Verified THEN GoOn("package", src) /\ UNCHANGED <<disk, failed, walk>>
     ELSE /\ Exit("refused") /\ disk' = AtExit(Unverified)
          /\ UNCHANGED <<world, calm, served>>

Package == disk["cache"][pkg(src)]

\* Mutant: only the size is compared.
SizeFits == Package # NoFile /\ Len(Package) = Size

\* pkg_verify: of the size and with the checksum that the feed has.
PackageFits == Package = Whole(expect)

\* Mutant: what is in the cache is not looked at first.
FetchAnyway ==
  /\ pc = "package"
  /\ Fetch(pkg(src), "cache", "fetch")

\* Only a package that is not there at all is downloaded.
FetchPackage ==
  /\ pc = "package" /\ Package = NoFile
  /\ Fetch(pkg(src), "cache", "fetch")

\* pkg_verify, of what was there or of what has come.
CheckPackage ==
  /\ \/ pc = "package" /\ Package # NoFile
     \/ pc = "fetch" /\ step = "ok"
  /\ UNCHANGED <<world, calm, served>>
  /\ IF PackageFits \/ world.force
     THEN Exit("installed") /\ disk' = AtExit(disk)
     ELSE /\ Exit("refused")
          /\ disk' = AtExit([disk EXCEPT !["cache"][pkg(src)] = NoFile])

PackageLost ==
  /\ pc = "fetch" /\ step = "failed"
  /\ Exit("refused") /\ disk' = AtExit(disk)
  /\ UNCHANGED <<world, calm, served>>

-----------------------------------------------------------------------------
\* A step of a command that is running.
Proceed ==
  \/ Work
  \/ DistStep
  \/ (\E s \in todo : NextSource(s)) \/ TransferLost
  \/ StoreFeed \/ StoreFeedFails \/ CompressList
  \/ FetchSignature \/ StoreSignature \/ VerifyFeed \/ FinishUpdate
  \/ CheckSource \/ FetchPackage \/ CheckPackage \/ PackageLost

Next ==
  \/ RepositoryChanges \/ CalmDown
  \/ StartUpdate \/ (\E s \in Source : StartInstall(s)) \/ CannotStart \/ DieLoading
  \/ Clean \/ Kill
  \/ Proceed

Spec == Init /\ [][Next]_vars

\* A command that runs goes on, and `opkg update' is invoked again and again.
FairSpec == Spec /\ WF_vars(Proceed) /\ SF_vars(StartUpdate)

-----------------------------------------------------------------------------
(* Properties.                                                             *)

Faultless == Reliable /\ world.sized /\ "disk" \notin world.faults

\* The types, with what holds of the cache and of a transfer (Downloads).
FeedsInv == TypeOK /\ CacheIsOneVersion /\ CompleteWhenDone

\* Where the offset that stays on curl's handle may come to matter: a transfer that
\* broke off left part of a file in a cache that is volatile otherwise, and the file is
\* fetched again, because the update was killed, or has a list of a dist/gz go through
\* the cache twice; what is downloaded without the cache later starts at that offset.
HandleReused ==
  /\ world.backend = "curl" /\ world.volatile
  /\ "network" \in world.faults
  /\ world.kills \/ (world.dist /\ world.distgz /\ ~ListsDiffer)

\* An update that reports no failure leaves, where the next command looks, all
\* of each feed as the repository has it, whatever earlier updates that were cut
\* off or failed had left in the cache and the lists.
Delivers ==
  report' = "updated" /\ pc # "off" /\ Faultless /\ ~HandleReused =>
    \A s \in world.sources : Loaded(s)' = Whole(served[feed(s)])
UpdateDelivers == [][Delivers]_vars

DistCurrent ==
  world.dist => \A u \in {Release} \union {feed(l) : l \in DistLists} :
                  disk["list"][u] = Whole(served[u])

\* Of a dist it leaves every list and the Release file as the repository has them,
\* though lists are verified, given up, tried without compression and downloaded
\* once more as sources.  If the network may fail this takes a dist of one
\* architecture without compression: the failure of an architecture is forgotten
\* when the next one comes, and of a compressed list it is never noticed.
DistDelivers ==
  /\ report' = "updated" /\ pc # "off" /\ Faultless /\ ~HandleReused
  /\ "network" \in world.faults => Len(world.arches) = 1 /\ ~world.distgz
  => DistCurrent'
DistUpdateDelivers == [][DistDelivers]_vars

\* Both: the lists that a dist's update leaves are vouched for and current.
DistReliable == VouchedByRelease /\ DistUpdateDelivers

\* With signatures the list is all of one version and the signature that of the
\* same version, whatever the network, the server or the disk did on the way.
LeavesSigned ==
  report' = "updated" /\ pc # "off" /\ world.signed =>
    \A s \in world.sources : LET c == disk'["list"][feed(s)] IN
      IsWhole(c) /\ disk'["list"][sig(s)] = c
SignedUpdateDelivers == [][LeavesSigned]_vars

\* What is unpacked is all of the version that the feed on disk names, and a
\* signed feed is all of that version, with its signature, unless what is loaded is
\* a compressed list; an installation may find any package in the cache, from any
\* time.
UnpacksNamed ==
  report' = "installed" /\ pc # "off" /\ ~world.force =>
    /\ Package = Whole(Named(src))
    /\ world.signed /\ ~world.compress => /\ disk["list"][feed(src)] = Package
                                           /\ disk["list"][sig(src)] = Package
InstallsWhatFeedSays == [][UnpacksNamed]_vars

\* A package that is in the cache as the feed has it is installed from there,
\* though the server may be gone or may have moved on.
KeepsGood ==
  command = "install" /\ pc # "off" /\ PackageFits =>
    disk'["cache"][pkg(src)] = Package \/ (world.volatile /\ pc' = "off")
GoodPackageStays == [][KeepsGood]_vars

\* Both: what is installed is what the feed says, from the cache if it is there.
PackageAsFeedSays == InstallsWhatFeedSays /\ GoodPackageStays

\* Worlds from which the lists recover.  A compressed list that is not all there
\* keeps every command that loads the feeds from starting, `opkg update' too;
\* signed lists that are compressed are never found to be signed; a stamp that was
\* left for another version may come to fit; and of a Release file that was cut off
\* a command may die whenever it starts.
Mends == /\ world.dist => /\ world.supported
                           /\ ~world.volatile /\ "disk" \notin world.faults
         /\ world.sized
         /\ Reliable \/ ~world.rollback
         /\ world.rollback => "disk" \notin world.faults
         /\ world.compress => /\ "disk" \notin world.faults
                              /\ ~world.kills /\ ~world.restless /\ ~world.signed

\* Once the repository is left alone and nothing fails any more, the lists come
\* to be what the repository has and stay so between commands, whatever the
\* commands that failed or were killed left behind.
ListsRecover ==
  Mends => (<>calm => <>[](pc = "off" =>
      /\ \A s \in world.sources : Loaded(s) = Whole(served[feed(s)])
      /\ DistCurrent))
=============================================================================

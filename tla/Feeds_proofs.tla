---------------------------- MODULE Feeds_proofs ----------------------------
(***************************************************************************)
(* What holds of Feeds, for any number of sources, lists, versions and     *)
(* blocks, and in every world:                                             *)
(*                                                                         *)
(*   CacheIsSound         FeedsInv: a cached file is of one version, and   *)
(*                        what a transfer that ends well leaves is whole   *)
(*   UnpacksWhatFeedSays  PackageAsFeedSays                                *)
(*   UpdateLeavesSigned   SignedUpdateDelivers                             *)
(*   UpdateLeavesFeeds    UpdateDelivers                                   *)
(*                                                                         *)
(* TypeInv goes with the types: what a command fetches at each pc, and     *)
(* which transfers resume.  On it rest CacheInv (every step is one of a    *)
(* transfer, or Leaves the cache, or publishes while none runs), InstallInv *)
(* (the feed an installation has loaded stays as it is, and its package is  *)
(* fetched only if it was not there), and, of the sources an update has     *)
(* been through, SignedInv and DeliverInv.  The last takes two reasons why *)
(* a transfer that does not resume starts at its first block: nothing ever *)
(* breaks off (QuietInv), or the offset of a transfer that was resumed     *)
(* cannot reach it (HandleInv).  The last part has what an update leaves   *)
(* of a dist.                                                              *)
(***************************************************************************)
EXTENDS Feeds, TLAPS, SequenceTheorems

Transfers  == {"release", "gzlist", "list", "feed", "sig", "fetch"}
Walking    == {"dist", "release", "lists", "gzlist", "list"}
Listing    == {"lists", "gzlist", "list"}
Updating   == Walking \union {"next", "feed", "compress", "signature", "sig"}

\* Where a command is: what it fetches and what it has in its hands.
Engaged ==
  /\ step # "idle" => pc \in Transfers
  /\ pc # "off" => report = "none"
  /\ pc \in Updating => command = "update"
  /\ pc \in {"package", "fetch"} => command = "install"
  /\ pc # "off" /\ command = "install" => src \in Source /\ expect \in Version
  /\ pc = "release" => url = Release
  /\ pc = "gzlist" => url = gz(Current)
  /\ pc = "list" => url = feed(Current)
  /\ pc = "feed" => url = feed(src)
  /\ pc = "sig" => url = sig(src)
  /\ pc = "fetch" => url = pkg(src) /\ place = "cache"
  /\ pc = "compress" => disk["list"][feed(src)] # NoFile
  /\ walk.at >= 1
  /\ pc \in {"gzlist", "list"} => walk.at <= ListCount

\* Where a transfer is.
Underway ==
  /\ step \in {"head", "stamp", "open"} => Resumes
  /\ step = "stamp" => Here = NoFile
  /\ step = "get" => place \in {"cache", "list"} /\ (Resumes => Here # NoFile)
  /\ step = "ok" => Here # NoFile

TypeInv == TypeOK /\ Engaged /\ Underway

(***************************************************************************)
(* Contents of files.                                                      *)
(***************************************************************************)
LEMMA ContentsType ==
  ASSUME NEW c \in Contents, c # NoFile
  PROVE  /\ c \in Seq(Version) /\ Len(c) \in 0..Size /\ DOMAIN c = 1..Len(c)
         /\ \A i \in 1..Len(c) : c[i] \in Version
<1>0. c \in UNION {[1..n -> Version] : n \in 0..Size}
  BY DEF Contents
<1>1. PICK n \in 0..Size : c \in [1..n -> Version]
  BY <1>0
<1>2. Size \in Nat
  BY DownloadsOK
<1>3. c \in Seq(Version) /\ Len(c) = n
  BY <1>1, <1>2, SeqDef
<1> QED
  BY <1>1, <1>2, <1>3

LEMMA PartsType ==
  ASSUME NEW n \in 0..Size, NEW c \in [1..n -> Version]
  PROVE  c \in Contents /\ c # NoFile
  BY DownloadsOK DEF Contents

LEMMA WholeType ==
  ASSUME NEW v \in Version
  PROVE  Whole(v) \in Contents /\ Whole(v) # NoFile /\ Whole(v) # <<>> /\ Whole(v)[1] = v
<1>1. Whole(v) \in [1..Size -> Version] /\ Size \in 0..Size /\ Size >= 1 /\ Whole(v)[1] = v
  BY DownloadsOK DEF Whole
<1>2. 1 \in DOMAIN Whole(v)
  BY <1>1, DownloadsOK DEF Whole
<1> QED
  BY <1>1, <1>2, PartsType

LEMMA EmptyType == <<>> \in Contents /\ <<>> # NoFile
<1>1. <<>> \in [1..0 -> Version] /\ 0 \in 0..Size
  BY DownloadsOK
<1> QED
  BY <1>1, PartsType

LEMMA PrefixesType ==
  ASSUME NEW c \in Contents, c # NoFile
  PROVE  PrefixesOf(c) \subseteq Contents \ {NoFile}
<1> SUFFICES ASSUME NEW n \in 0..Len(c) PROVE SubSeq(c, 1, n) \in Contents \ {NoFile}
  BY DEF PrefixesOf
<1>1. c \in Seq(Version) /\ Len(c) \in 0..Size /\ Size \in Nat
  BY ContentsType, DownloadsOK
<1>2. SubSeq(c, 1, n) \in Seq(Version) /\ Len(SubSeq(c, 1, n)) = n
  BY <1>1
<1>3. \A s \in Seq(Version) : s \in [1..Len(s) -> Version]
  BY LenProperties
<1>4. SubSeq(c, 1, n) \in [1..n -> Version]
  BY <1>2, <1>3, Zenon
<1>5. n \in 0..Size
  BY <1>1
<1> QED
  BY <1>4, <1>5, PartsType

(***************************************************************************)
(* Worlds and addresses.                                                   *)
(***************************************************************************)
LEMMA WorldType ==
  ASSUME TypeOK
  PROVE  /\ world \in World /\ Size \in Nat \ {0} /\ NoSrc \in Source
         /\ NoVer \notin Version /\ Url # {} /\ (CHOOSE u \in Url : TRUE) \in Url
         /\ Release \in Url
         /\ \A s \in Source : feed(s) \in Url /\ sig(s) \in Url /\ pkg(s) \in Url
         /\ \A l \in Sublist : feed(l) \in Url /\ sig(l) \in Url /\ gz(l) \in Url
<1>1. world \in World /\ Size \in Nat \ {0} /\ NoVer \notin Version /\ NoSrc \in Source
      /\ Release \in Url
  BY FeedsOK, DownloadsOK DEF TypeOK, TransferTypes, Version, NoVer, NoSrc
<1>2. \A s \in Source : feed(s) \in Url /\ sig(s) \in Url /\ pkg(s) \in Url
  BY FeedsOK DEF feed, sig, pkg
<1>3. \A l \in Sublist : feed(l) \in Url /\ sig(l) \in Url /\ gz(l) \in Url
  BY FeedsOK DEF feed, sig, gz
<1> QED
  BY <1>1, <1>2, <1>3

LEMMA Within ==
  ASSUME NEW c \in Nat, NEW a \in Nat, NEW n \in 1..(c * a)
  PROVE  (n - 1) \div a \in 0..(c - 1) /\ (n - 1) % a \in 0..(a - 1)
<1> DEFINE q == (n - 1) \div a
           r == (n - 1) % a
<1>1. a > 0 /\ c > 0 /\ n - 1 \in Nat
  OBVIOUS
<1>2. n - 1 = (a * q) + r /\ r \in 0..(a - 1) /\ q \in Nat
  BY <1>1
<1>3. ASSUME q >= c PROVE FALSE
  <2>1. a * q >= a * c
    BY <1>1, <1>2, <1>3
  <2> QED
    BY <1>1, <1>2, <2>1
<1> QED
  BY <1>1, <1>2, <1>3

LEMMA ListAtType ==
  ASSUME world \in World, NEW n \in 1..ListCount
  PROVE  ListAt(n) \in Sublist
<1>1. /\ world.components \in Seq(Component) /\ world.arches \in Seq(Arch)
      /\ Len(world.components) \in Nat /\ Len(world.arches) \in Nat
  BY DEF World
<1>2. /\ (n - 1) \div Len(world.arches) \in 0..(Len(world.components) - 1)
      /\ (n - 1) % Len(world.arches) \in 0..(Len(world.arches) - 1)
  BY <1>1, Within DEF ListCount
<1>3. \A i \in 1..Len(world.components) : world.components[i] \in Component
  BY <1>1
<1>4. \A i \in 1..Len(world.arches) : world.arches[i] \in Arch
  BY <1>1
<1>5. \A k \in Nat : \A x \in 0..(k - 1) : x + 1 \in 1..k
  OBVIOUS
<1>6. ((n - 1) \div Len(world.arches)) + 1 \in 1..Len(world.components)
      /\ ((n - 1) % Len(world.arches)) + 1 \in 1..Len(world.arches)
  BY <1>1, <1>2, <1>5, Zenon
<1> QED
  BY <1>3, <1>4, <1>6 DEF ListAt, Sublist

\* A source that an update has yet to come to has its addresses.
LEMMA SourcesType ==
  ASSUME TypeOK
  PROVE  /\ todo \subseteq Source \union Sublist
         /\ \A s \in Source \union Sublist : feed(s) \in Url /\ sig(s) \in Url
<1>1. DistLists \subseteq Sublist
  <2> SUFFICES ASSUME NEW n \in 1..ListCount PROVE ListAt(n) \in Sublist
    BY DEF DistLists
  <2> QED
    BY ListAtType, WorldType
<1> QED
  BY <1>1, WorldType DEF TypeOK, World

(***************************************************************************)
(* The types and the stages of a transfer.                                 *)
(***************************************************************************)
LEMMA ReceivedType ==
  ASSUME TypeInv, step = "get", NEW n \in 0..Size
  PROVE  Received(n) \in Contents \ {NoFile}
<1>1. Kept \in Contents \ {NoFile} /\ served[url] \in Version
  BY EmptyType DEF TypeInv, TypeOK, TransferTypes, Underway, Kept, Here
<1>2. Len(Kept) \in Nat /\ \A i \in 1..Len(Kept) : Kept[i] \in Version
  BY <1>1, ContentsType, DownloadsOK
<1>3. Received(n) \in [1..n -> Version]
  BY <1>1, <1>2, DownloadsOK DEF Received
<1> QED
  BY <1>3, PartsType

LEMMA KeptLength ==
  ASSUME TypeInv, step = "get"
  PROVE  Len(Kept) \in 0..Size /\ Skipped \in 0..(Size - 1) /\ Size \in Nat /\ Size > 0
<1>1. Kept \in Contents \ {NoFile}
  BY EmptyType DEF TypeInv, TypeOK, TransferTypes, Underway, Kept, Here
<1> QED
  BY <1>1, ContentsType, DownloadsOK DEF TypeInv, TypeOK, TransferTypes, Skipped

LEMMA TransferTypeStep ==
  ASSUME TypeInv, Work
  PROVE  TypeInv'
<1>a. /\ TypeOK /\ Engaged /\ Underway /\ Transfer /\ UNCHANGED cmd
      /\ pc \in Transfers
  BY DEF Work, TypeInv, Transfers
<1>b. /\ UNCHANGED <<command, pc, src, todo, failed, expect, report, walk, world, calm,
                     served, url, place>>
      /\ step' \in {"stamp", "open", "get", "ok", "failed"}
  BY <1>a DEF cmd, Transfer, AnswerHead, HeadFails, WriteStamp, StampFails, OpenCached,
     OpenFails, GetAll, GetPart
<1>t. /\ disk \in [Places -> [Url -> Contents]] /\ place \in Places /\ url \in Url
      /\ NoFile \in Contents
      /\ served \in [Url -> Version] /\ stamp \in [Url -> Version \union {NoVer}]
      /\ etag \in Version \union {NoVer} /\ offset \in 0..(Size - 1)
  BY <1>a DEF TypeOK, TransferTypes, Contents
<1>c. ASSUME disk' \in [Places -> [Url -> Contents]],
             stamp' \in [Url -> Version \union {NoVer}], etag' \in Version \union {NoVer},
             offset' \in 0..(Size - 1)
      PROVE  TypeOK' /\ Engaged'
  <2>1. UNCHANGED <<Current, ListCount, DistLists>>
    BY <1>b DEF Current, ListAt, ListCount, DistLists
  <2>2. TypeOK'
    BY <1>a, <1>b, <1>c, <2>1 DEF TypeOK, TransferTypes, Transfers
  <2>3. Engaged'
    BY <1>a, <1>b, <2>1 DEF Engaged, Transfers
  <2> QED
    BY <2>2, <2>3
<1>d. ASSUME NEW c \in Contents, disk' = [disk EXCEPT ![place][url] = c]
      PROVE  disk' \in [Places -> [Url -> Contents]] /\ Here' = c
  BY <1>b, <1>d, <1>t DEF Here
<1>e. Resumes' = Resumes
  BY <1>b DEF Resumes
<1> USE DEF TypeInv
<1>1. CASE AnswerHead
  <2>1. PICK tagged \in world.tags : etag' = IF tagged THEN served[url] ELSE NoVer
    BY <1>1 DEF AnswerHead
  <2>2. /\ etag' \in Version \union {NoVer} /\ UNCHANGED <<stamp, offset>>
        /\ \/ disk' = disk /\ step' = "open"
           \/ disk' = [disk EXCEPT ![place][url] = NoFile] /\ step' = "stamp"
    BY <1>1, <1>t, <2>1 DEF AnswerHead
  <2>3. Underway'
    BY <1>a, <1>1, <1>d, <1>e, <1>t, <2>2 DEF Underway, AnswerHead
  <2> QED
    BY <1>c, <1>d, <1>t, <2>2, <2>3
<1>2. CASE HeadFails
  BY <1>a, <1>b, <1>c, <1>t, <1>2 DEF HeadFails, Underway
<1>3. CASE WriteStamp
  BY <1>a, <1>b, <1>c, <1>e, <1>t, <1>3 DEF WriteStamp, Underway
<1>4. CASE StampFails
  BY <1>a, <1>b, <1>c, <1>e, <1>t, <1>4 DEF StampFails, Underway
<1>5. CASE OpenCached
  <2> DEFINE c == IF Here = NoFile THEN <<>> ELSE Here
  <2>1. c \in Contents \ {NoFile}
    BY <1>t, EmptyType DEF Here
  <2>2. Len(c) \in 0..Size /\ Size \in Nat \ {0}
    BY <2>1, ContentsType, DownloadsOK
  <2>3. disk' = [disk EXCEPT ![place][url] = c]
    BY <1>5 DEF OpenCached
  <2>4. step' \in {"ok", "get"} /\ offset' \in 0..(Size - 1) /\ UNCHANGED <<stamp, etag>>
    BY <1>t, <1>5, <2>2 DEF OpenCached, Enough
  <2>5. place = "cache"
    BY <1>a, <1>5 DEF OpenCached, Underway, Resumes
  <2> HIDE DEF c
  <2>6. Underway'
    BY <1>b, <1>d, <2>1, <2>3, <2>4, <2>5 DEF Underway
  <2> QED
    BY <1>c, <1>d, <1>t, <2>1, <2>3, <2>4, <2>6
<1>6. CASE OpenFails
  BY <1>a, <1>b, <1>c, <1>t, <1>6 DEF OpenFails, Underway
<1>7. CASE GetAll
  <2>1. Size - Skipped \in 0..Size
    BY <1>a, <1>7, KeptLength DEF GetAll, TypeInv
  <2>2. Received(Size - Skipped) \in Contents \ {NoFile}
    BY <1>a, <1>7, <2>1, ReceivedType DEF GetAll, TypeInv
  <2>3. /\ disk' = [disk EXCEPT ![place][url] = Received(Size - Skipped)]
        /\ step' \in {"ok", "failed"} /\ UNCHANGED <<stamp, etag, offset>>
    BY <1>7 DEF GetAll
  <2>4. Underway'
    BY <1>d, <2>2, <2>3 DEF Underway
  <2> QED
    BY <1>c, <1>d, <1>t, <2>2, <2>3, <2>4
<1>8. CASE GetPart
  <2>0. step' \in {"ok", "failed"} /\ UNCHANGED <<stamp, etag, offset>>
    BY <1>8 DEF GetPart
  <2>1. CASE \E n \in Len(Kept)..(Size - Skipped) : disk' = [disk EXCEPT ![place][url] = Received(n)]
    <3>1. PICK n \in Len(Kept)..(Size - Skipped) : disk' = [disk EXCEPT ![place][url] = Received(n)]
      BY <2>1
    <3>2. n \in 0..Size
      BY <1>a, <1>8, KeptLength DEF GetPart, TypeInv
    <3>3. Received(n) \in Contents \ {NoFile}
      BY <1>a, <1>8, <3>2, ReceivedType DEF GetPart, TypeInv
    <3>4. Underway'
      BY <1>d, <2>0, <3>1, <3>3 DEF Underway
    <3> QED
      BY <1>c, <1>d, <1>t, <2>0, <3>1, <3>3, <3>4
  <2>2. CASE UNCHANGED disk /\ step' = "failed"
    BY <1>c, <1>t, <2>0, <2>2 DEF Underway
  <2> QED
    BY <1>8, <2>1, <2>2 DEF GetPart
<1> QED
  BY <1>a, <1>1, <1>2, <1>3, <1>4, <1>5, <1>6, <1>7, <1>8 DEF Transfer

(***************************************************************************)
(* The types and the stages of a command.                                  *)
(***************************************************************************)
\* The steps of an update at its sources, of an installation, and between commands.
SourceStep == \/ (\E s \in todo : NextSource(s)) \/ TransferLost
              \/ StoreFeed \/ StoreFeedFails \/ CompressList
              \/ FetchSignature \/ StoreSignature \/ VerifyFeed \/ FinishUpdate
InstallStep == CheckSource \/ FetchPackage \/ CheckPackage \/ PackageLost
IdleStep == \/ RepositoryChanges \/ CalmDown
            \/ StartUpdate \/ (\E s \in Source : StartInstall(s)) \/ CannotStart \/ DieLoading
            \/ Clean

Disks  == [Places -> [Url -> Contents]]
Walks  == [at : Nat, err : BOOLEAN, ret : BOOLEAN]

\* A transfer begins.
LEMMA BeginStep ==
  ASSUME TypeInv, NEW d \in Disks, NEW u \in Url, NEW p \in {"cache", "list"}, BeginOn(d, u, p),
         UNCHANGED <<world, calm, served, stamp, command, failed, expect, report>>,
         todo' \subseteq todo, pc' \in Transfers, pc # "off", src' \in Source \union Sublist,
         walk' \in Walks, walk'.at >= 1,
         pc' \in Updating => command = "update",
         pc' = "fetch" => command = "install" /\ u = pkg(src') /\ p = "cache",
         command = "install" => src' = src,
         pc' = "release" => u = Release,
         pc' \in {"gzlist", "list"} => walk'.at = walk.at /\ walk.at <= ListCount,
         pc' = "gzlist" => u = gz(Current), pc' = "list" => u = feed(Current),
         pc' = "feed" => u = feed(src'), pc' = "sig" => u = sig(src')
  PROVE  TypeInv'
<1>a. TypeOK /\ Engaged
  BY DEF TypeInv
<1>b. /\ url' = u /\ place' = p /\ etag' = NoVer /\ offset' = offset
      /\ step' \in {"head", "get"} /\ disk' \in Disks
  BY DEF BeginOn, Disks, Contents
<1>1. Underway'
  <2>1. world.backend = "curl" /\ p = "cache" => step' = "head"
    BY DEF BeginOn
  <2>2. step' = "head" => world.backend = "curl" /\ p = "cache"
    BY DEF BeginOn
  <2> QED
    BY <1>b, <2>1, <2>2 DEF Underway, Resumes
<1>2. TypeOK'
  <2>1. DistLists' = DistLists
    BY DEF DistLists, ListCount, ListAt
  <2> QED
    BY <1>a, <1>b, <2>1 DEF TypeOK, TransferTypes, Disks, Walks, Places, Transfers
<1>3. Engaged'
  <2>1. ListCount' = ListCount /\ (walk'.at = walk.at => Current' = Current)
    BY DEF ListCount, ListAt, Current
  <2>2. pc' # "off" /\ pc' # "compress"
    BY DEF Transfers
  <2> QED
    BY <1>a, <1>b, <2>1, <2>2 DEF Engaged, Transfers
<1> QED
  BY <1>1, <1>2, <1>3 DEF TypeInv

\* A transfer is over, and the command goes on.
LEMMA GoOnStep ==
  ASSUME TypeInv, NEW p \in {"next", "lists", "compress", "signature", "verify", "package"},
         NEW s \in Source \union Sublist, GoOn(p, s), pc # "off",
         disk' \in Disks, failed' \in BOOLEAN, walk' \in Walks, walk'.at >= 1,
         p \in Updating => command = "update", p = "package" => command = "install",
         command = "install" => s = src,
         p = "compress" => disk'["list"][feed(s)] # NoFile
  PROVE  TypeInv'
<1>a. TypeOK /\ Engaged /\ (CHOOSE u \in Url : TRUE) \in Url
  BY WorldType DEF TypeInv
<1>b. /\ pc' = p /\ src' = s /\ step' = "idle" /\ url' \in Url /\ place' = "cache"
      /\ UNCHANGED <<world, calm, served, stamp, command, todo, expect, report, offset>>
      /\ etag' = NoVer
  BY <1>a DEF GoOn, Rest
<1>1. Underway'
  BY <1>b DEF Underway
<1>2. TypeOK'
  <2>1. DistLists' = DistLists
    BY <1>b DEF DistLists, ListCount, ListAt
  <2> QED
    BY <1>a, <1>b, <2>1 DEF TypeOK, TransferTypes, Disks, Walks, Places
<1>3. Engaged'
  BY <1>a, <1>b DEF Engaged, Updating, Walking
<1> QED
  BY <1>1, <1>2, <1>3 DEF TypeInv

\* A command is over.
LEMMA GoneStep ==
  ASSUME TypeInv, NEW r \in {"updated", "failures", "installed", "refused", "killed", "unreadable"},
         Gone(r), disk' \in Disks, stamp' \in [Url -> Version \union {NoVer}],
         UNCHANGED <<world, calm, served>>
  PROVE  TypeInv'
<1>a. TypeOK /\ (CHOOSE u \in Url : TRUE) \in Url /\ NoSrc \in Source /\ Size \in Nat \ {0}
  BY WorldType DEF TypeInv
<1>b. /\ pc' = "off" /\ report' = r /\ src' = NoSrc /\ command' = "update" /\ todo' = {}
      /\ failed' = FALSE /\ expect' = NoVer /\ walk' = NoWalk /\ offset' = 0
      /\ step' = "idle" /\ url' \in Url /\ place' = "cache" /\ etag' = NoVer
  BY <1>a DEF Gone, Rest
<1>1. Underway'
  BY <1>b DEF Underway
<1>2. TypeOK'
  <2>1. TransferTypes'
    BY <1>a, <1>b DEF TypeOK, TransferTypes, Disks, Places
  <2>2. walk' \in [at : Nat, err : BOOLEAN, ret : BOOLEAN]
    BY <1>b DEF NoWalk
  <2> QED
    BY <1>a, <1>b, <2>1, <2>2 DEF TypeOK
<1>3. Engaged'
  BY <1>b DEF Engaged, Updating, Walking, NoWalk
<1> QED
  BY <1>1, <1>2, <1>3 DEF TypeInv

LEMMA ExitStep ==
  ASSUME TypeInv, NEW r \in {"updated", "failures", "installed", "refused", "killed", "unreadable"},
         Exit(r), NEW d \in Disks, disk' = AtExit(d), UNCHANGED <<world, calm, served>>
  PROVE  TypeInv'
<1>1. disk' \in Disks
  BY DEF AtExit, NoFiles, Disks, Contents
<1>2. stamp' \in [Url -> Version \union {NoVer}]
  BY DEF Exit, TypeInv, TypeOK, TransferTypes
<1> QED
  BY <1>1, <1>2, GoneStep DEF Exit

LEMMA DisksType ==
  ASSUME NEW d \in Disks, NEW p \in Places, NEW u \in Url, NEW c \in Contents
  PROVE  [d EXCEPT ![p][u] = c] \in Disks
  BY DEF Disks

LEMMA DistTypeStep ==
  ASSUME TypeInv, DistStep
  PROVE  TypeInv'
<1>a. /\ TypeOK /\ Engaged /\ Underway /\ disk \in Disks /\ walk \in Walks
      /\ Release \in Url /\ NoSrc \in Source /\ NoFile \in Contents
      /\ src \in Source \union Sublist /\ failed \in BOOLEAN /\ walk.at >= 1
      /\ OwnPlace \in {"cache", "list"} /\ "list" \in Places
  BY WorldType DEF TypeInv, TypeOK, TransferTypes, Disks, Walks, Contents, OwnPlace, Engaged,
     Places
<1>b. pc \in Walking => pc # "off" /\ command = "update"
  BY <1>a DEF Engaged, Updating, Walking
<1>c. walk.at <= ListCount => Current \in Sublist /\ gz(Current) \in Url /\ feed(Current) \in Url
  <2>1. Current \in Sublist \/ ~(walk.at <= ListCount)
    <3>1. world \in World /\ walk.at \in Nat /\ ListCount \in Nat
      BY <1>a, WorldType DEF World, Walks, ListCount
    <3> QED
      BY <1>a, <3>1, ListAtType DEF Current
  <2> QED
    BY <1>a, <2>1, WorldType
<1>d. NoWalk \in Walks /\ NoWalk.at = 1
      /\ \A err \in BOOLEAN : [at |-> walk.at + 1, err |-> err /\ ~LastOfComponent,
              ret |-> walk.ret \/ (err /\ LastOfComponent)] \in Walks
  BY <1>a DEF Walks, NoWalk
<1>e. step = "ok" => Here \in Contents \ {NoFile} /\ url \in Url
                     /\ PrefixesOf(Here) \subseteq Contents
  <2>1. step = "ok" => Here \in Contents \ {NoFile} /\ url \in Url
    BY <1>a DEF TypeOK, TransferTypes, Underway, Here
  <2> QED
    BY <2>1, PrefixesType
\* How the loop goes on.
<1>f. ASSUME NEW err \in BOOLEAN, NextList(err), disk' \in Disks, pc \in Walking
      PROVE  TypeInv'
  <2>1. GoOn("lists", NoSrc) /\ failed' \in BOOLEAN /\ walk' \in Walks /\ walk'.at >= 1
    BY <1>a, <1>d, <1>f DEF NextList, Walks
  <2> QED
    BY <1>a, <1>b, <1>f, <2>1, GoOnStep
<1>g. ASSUME NEW f \in BOOLEAN, LeaveDist(f), disk' \in Disks, pc \in Walking
      PROVE  TypeInv'
  <2>1. GoOn("next", NoSrc) /\ failed' \in BOOLEAN /\ walk' \in Walks /\ walk'.at >= 1
    BY <1>a, <1>d, <1>g DEF LeaveDist
  <2> QED
    BY <1>a, <1>b, <1>g, <2>1, GoOnStep
<1>h. ASSUME NEW d \in Disks, FallBack(d), pc = "gzlist"
      PROVE  TypeInv'
  <2>1. walk.at <= ListCount
    BY <1>a, <1>h DEF Engaged
  <2>2. walk' \in Walks /\ walk'.at = walk.at
    BY <1>a, <1>h DEF FallBack, Walks
  <2>3. pc' = "list" /\ BeginOn(d, feed(Current), OwnPlace) /\ src' = src
        /\ UNCHANGED <<world, calm, served, stamp, command, todo, failed, expect, report>>
    BY <1>h DEF FallBack
  <2> QED
    BY <1>a, <1>b, <1>c, <1>h, <2>1, <2>2, <2>3, BeginStep DEF Transfers, Walking
<1>i. ASSUME NEW u \in Url, NEW p \in {"cache", "list"}, NEW q \in {"release", "gzlist", "list"},
             Fetch(u, p, q), pc \in Walking,
             q = "release" => u = Release, q # "release" => walk.at <= ListCount,
             q = "gzlist" => u = gz(Current), q = "list" => u = feed(Current)
      PROVE  TypeInv'
  <2>1. pc' = q /\ BeginOn(disk, u, p) /\ src' = src /\ walk' = walk
        /\ UNCHANGED <<world, calm, served, stamp, command, todo, failed, expect, report>>
    BY <1>i DEF Fetch, Begin
  <2> QED
    BY <1>a, <1>b, <1>i, <2>1, BeginStep DEF Transfers
\* The steps.
<1>1. CASE FetchRelease
  BY <1>a, <1>i, <1>1 DEF FetchRelease, Walking
<1>2. CASE ReleaseLost
  BY <1>a, <1>g, <1>2 DEF ReleaseLost, Walking
<1>3. CASE StoreRelease
  <2>0. step = "ok" /\ \E c \in {Here, NoFile} : disk' = [disk EXCEPT !["list"][Release] = c]
    BY <1>3 DEF StoreRelease
  <2>1. disk' \in Disks
    <3>1. \A c \in Contents : [disk EXCEPT !["list"][Release] = c] \in Disks
      BY <1>a, DisksType
    <3> QED
      BY <1>a, <1>e, <2>0, <3>1
  <2>2. CASE world.supported
    BY <1>a, <1>b, <1>3, <2>1, <2>2, GoOnStep DEF StoreRelease, Walking
  <2>3. CASE ~world.supported
    BY <1>g, <1>3, <2>1, <2>3 DEF StoreRelease, Walking
  <2> QED
    BY <2>2, <2>3
<1>4. CASE StoreReleaseFails
  <2>1. disk' \in Disks
    BY <1>a, <1>e, <1>4, DisksType DEF StoreReleaseFails, ReleaseFile, Disks
  <2> QED
    BY <1>g, <1>4, <2>1 DEF StoreReleaseFails, Walking
<1>5. CASE FetchList
  BY <1>a, <1>c, <1>i, <1>5 DEF FetchList, Walking
<1>6. CASE GzListLost
  BY <1>a, <1>f, <1>h, <1>6 DEF GzListLost, Walking
<1>7. CASE TakeGzList
  <2>1. walk.at <= ListCount /\ pc = "gzlist" /\ step = "ok"
    BY <1>a, <1>7 DEF TakeGzList, Engaged
  <2>2. \A c \in Contents : [disk EXCEPT !["list"][feed(Current)] = c] \in Disks
    BY <1>a, <1>c, <2>1, DisksType
  <2>3. CASE disk' = [disk EXCEPT !["list"][feed(Current)] = Here] /\ NextList(FALSE)
    BY <1>e, <1>f, <2>1, <2>2, <2>3 DEF Walking
  <2>4. ASSUME NEW c \in PrefixesOf(Here) \union {NoFile},
               \/ disk' = [disk EXCEPT !["list"][feed(Current)] = c] /\ NextList(FALSE)
               \/ FallBack([disk EXCEPT !["list"][feed(Current)] = c])
        PROVE  TypeInv'
    <3>1. [disk EXCEPT !["list"][feed(Current)] = c] \in Disks
      BY <1>a, <1>e, <2>1, <2>2, <2>4
    <3> QED
      BY <1>f, <1>h, <2>1, <2>4, <3>1 DEF Walking
  <2> QED
    BY <1>7, <2>3, <2>4 DEF TakeGzList
<1>8. CASE ListLost
  BY <1>a, <1>f, <1>8 DEF ListLost, Walking
<1>9. CASE TakeList
  <2>1. disk' \in Disks
    BY <1>a, <1>e, <1>9, DisksType DEF TakeList
  <2>2. PICK err \in BOOLEAN : NextList(err)
    BY <1>9 DEF TakeList, Vouched
  <2> QED
    BY <1>f, <1>9, <2>1, <2>2 DEF TakeList, Walking
<1>10. CASE TakeListFails
  <2>1. disk' \in Disks
    BY <1>a, <1>e, <1>10, DisksType DEF TakeListFails, Disks
  <2> QED
    BY <1>f, <1>10, <2>1 DEF TakeListFails, Walking
<1>11. CASE FinishDist
  <2>1. disk' \in Disks /\ walk.ret \in BOOLEAN
    BY <1>a, <1>11, DisksType DEF FinishDist, Walks
  <2> QED
    BY <1>g, <1>11, <2>1 DEF FinishDist, Walking
<1>12. CASE DieOfRelease
  BY <1>a, <1>12, GoneStep DEF DieOfRelease, TypeOK, TransferTypes
<1> QED
  BY <1>1, <1>2, <1>3, <1>4, <1>5, <1>6, <1>7, <1>8, <1>9, <1>10, <1>11, <1>12 DEF DistStep

\* What the feed of a source names is a version.
LEMMA NamedType ==
  ASSUME TypeOK, NEW s \in Source, Named(s) # NoVer
  PROVE  Named(s) \in Version
<1>1. Loaded(s) \in Contents
  BY WorldType DEF Loaded, TypeOK, TransferTypes, Places
<1>2. Loaded(s) # NoFile /\ Loaded(s) # <<>> /\ Named(s) = Loaded(s)[1]
  BY DEF Named
<1>3. Len(Loaded(s)) >= 1
  BY <1>1, <1>2, ContentsType, EmptySeq
<1> QED
  BY <1>1, <1>2, <1>3, ContentsType

\* Between commands, or beside one.
LEMMA StillStep ==
  ASSUME TypeInv, UNCHANGED <<world, disk, stamp, xfer, cmd>>,
         served' \in [Url -> Version], calm' \in BOOLEAN
  PROVE  TypeInv'
<1>1. UNCHANGED <<Current, ListCount, DistLists, Here, Resumes>>
  BY DEF Current, ListAt, ListCount, DistLists, Here, Resumes, cmd, xfer
<1>2. TypeOK'
  BY <1>1 DEF TypeInv, TypeOK, TransferTypes, xfer, cmd
<1>3. Engaged'
  BY <1>1 DEF TypeInv, Engaged, xfer, cmd
<1>4. Underway'
  BY <1>1 DEF TypeInv, Underway, xfer, cmd
<1> QED
  BY <1>2, <1>3, <1>4 DEF TypeInv

LEMMA StartTypeStep ==
  ASSUME TypeInv, pc = "off", step = "idle",
         UNCHANGED <<world, calm, served, disk, stamp, xfer, failed, walk>>,
         pc' \in {"dist", "next", "verify", "package"},
         src' \in Source \union Sublist, expect' \in Version \union {NoVer},
         pc' \in {"dist", "next"} => command' = "update",
         pc' \in {"verify", "package"} => command' = "install" /\ src' \in Source /\ expect' \in Version,
         todo' \subseteq world.sources \union DistLists, report' = "none"
  PROVE  TypeInv'
<1>1. UNCHANGED <<ListCount, DistLists>>
  BY DEF ListAt, ListCount, DistLists
<1>2. TypeOK'
  BY <1>1 DEF TypeInv, TypeOK, TransferTypes, xfer
<1>3. Engaged'
  BY DEF TypeInv, Engaged, xfer, Updating, Walking
<1>4. Underway'
  BY DEF Underway, xfer
<1> QED
  BY <1>2, <1>3, <1>4 DEF TypeInv

LEMMA IdleTypeStep ==
  ASSUME TypeInv,
         IdleStep \/ Kill
  PROVE  TypeInv'
<1>a. /\ TypeOK /\ disk \in Disks /\ stamp \in [Url -> Version \union {NoVer}]
      /\ served \in [Url -> Version] /\ NoFile \in Contents
  BY DEF TypeInv, TypeOK, TransferTypes, Disks, Contents
<1>1. CASE RepositoryChanges
  <2>1. served' \in [Url -> Version] /\ UNCHANGED <<world, calm, disk, stamp, xfer, cmd>>
    BY <1>a, <1>1 DEF RepositoryChanges, Publish, PublishDist
  <2> QED
    BY <2>1, StillStep DEF TypeInv, TypeOK, TransferTypes
<1>2. CASE CalmDown
  BY <1>a, <1>2, StillStep DEF CalmDown
<1>3. CASE StartUpdate
  <2>1. PICK lists \in Sublists : todo' = world.sources \union lists
    BY <1>3 DEF StartUpdate
  <2>2. lists \subseteq DistLists
    BY <2>1 DEF Sublists, Found
  <2>3. /\ pc = "off" /\ step = "idle" /\ pc' \in {"dist", "next"} /\ command' = "update"
        /\ UNCHANGED <<world, calm, served, disk, stamp, xfer, failed, walk, src, expect>>
        /\ report' = "none"
    BY <1>a, <1>3 DEF StartUpdate, TypeOK
  <2>4. todo' \subseteq world.sources \union DistLists
    BY <2>1, <2>2
  <2>5. src' \in Source \union Sublist /\ expect' \in Version \union {NoVer}
    BY <1>a, <2>3 DEF TypeOK
  <2> QED
    BY <2>3, <2>4, <2>5, StartTypeStep
<1>4. ASSUME NEW s \in Source, StartInstall(s) PROVE TypeInv'
  <2>1. /\ pc = "off" /\ step = "idle" /\ pc' \in {"verify", "package"} /\ command' = "install"
        /\ UNCHANGED <<world, calm, served, disk, stamp, xfer, failed, walk, todo>>
        /\ src' = s /\ expect' = Named(s) /\ Named(s) # NoVer /\ report' = "none"
    BY <1>a, <1>4 DEF StartInstall, TypeOK
  <2>2. todo' \subseteq world.sources \union DistLists
    BY <1>a, <2>1 DEF TypeOK
  <2> QED
    BY <1>a, <2>1, <2>2, NamedType, StartTypeStep
<1>5. CASE CannotStart
  BY <1>a, <1>5, ExitStep DEF CannotStart
<1>6. CASE DieLoading \/ Kill
  BY <1>a, <1>6, GoneStep DEF DieLoading, Kill
<1>7. CASE Clean
  <2>1. disk' \in Disks /\ stamp' \in [Url -> Version \union {NoVer}]
    BY <1>a, <1>7 DEF Clean, NoFiles, Disks
  <2>2. /\ pc = "off" /\ step = "idle" /\ UNCHANGED <<world, calm, served, xfer, cmd>>
        /\ Engaged
    BY <1>a, <1>7 DEF Clean, TypeInv, TypeOK
  <2>3. UNCHANGED <<ListCount, DistLists>>
    BY <2>2 DEF ListAt, ListCount, DistLists
  <2>4. TypeOK'
    BY <1>a, <2>1, <2>2, <2>3 DEF TypeOK, TransferTypes, Disks, xfer, cmd
  <2>5. Engaged' /\ Underway'
    BY <2>2 DEF Engaged, Underway, xfer, cmd, Updating, Walking
  <2> QED
    BY <2>4, <2>5 DEF TypeInv
<1> QED
  BY <1>1, <1>2, <1>3, <1>4, <1>5, <1>6, <1>7 DEF IdleStep

LEMMA FeedTypeStep ==
  ASSUME TypeInv,
         SourceStep \/ InstallStep
  PROVE  TypeInv'
<1>a. /\ TypeOK /\ Engaged /\ Underway /\ disk \in Disks /\ walk \in Walks
      /\ NoSrc \in Source \union Sublist /\ NoFile \in Contents
      /\ src \in Source \union Sublist /\ failed \in BOOLEAN /\ walk.at >= 1
      /\ OwnPlace \in {"cache", "list"} /\ Places = {"cache", "list", "gz"}
  BY WorldType DEF TypeInv, TypeOK, TransferTypes, Disks, Walks, Contents, OwnPlace, Engaged,
     Places
<1>b. pc \in Updating => pc # "off" /\ command = "update"
  BY <1>a DEF Engaged, Updating, Walking
<1>c. \A s \in Source \union Sublist : feed(s) \in Url /\ sig(s) \in Url
  BY <1>a, WorldType
<1>d. \A d \in Disks, p \in Places, u \in Url, c \in Contents : [d EXCEPT ![p][u] = c] \in Disks
  BY DisksType
<1>e. step = "ok" => Here \in Contents \ {NoFile} /\ url \in Url
                     /\ PrefixesOf(Here) \subseteq Contents
  <2>1. step = "ok" => Here \in Contents \ {NoFile} /\ url \in Url
    BY <1>a DEF TypeOK, TransferTypes, Underway, Here
  <2> QED
    BY <2>1, PrefixesType
<1>f. ASSUME NEW failure \in BOOLEAN, NextOne(failure), disk' \in Disks, pc \in Updating \/ (command = "update" /\ pc # "off")
      PROVE  TypeInv'
  BY <1>a, <1>b, <1>f, GoOnStep DEF NextOne
<1>g. ASSUME AfterFeed, disk' \in Disks, pc \in Updating
      PROVE  TypeInv'
  <2>1. CASE world.signed
    BY <1>a, <1>b, <1>g, <2>1, GoOnStep DEF AfterFeed
  <2>2. CASE ~world.signed
    <3>1. NextOne(FALSE)
      BY <1>g, <2>2 DEF AfterFeed
    <3> QED
      BY <1>f, <1>g, <3>1
  <2> QED
    BY <2>1, <2>2
<1>h. Target \in {"list", "gz"} /\ (world.compress /\ ~Gzipped => Target = "list")
  BY DEF Target
<1>1. ASSUME NEW s \in todo, NextSource(s) PROVE TypeInv'
  <2>1. s \in Source \union Sublist
    BY <1>a, SourcesType
  <2>2. /\ pc = "next" /\ pc' = "feed" /\ src' = s /\ BeginOn(disk, feed(s), FeedPlace(s))
        /\ UNCHANGED <<world, calm, served, stamp, command, failed, expect, report, walk>>
        /\ todo' = todo \ {s}
    BY <1>1 DEF NextSource, Begin
  <2>3. FeedPlace(s) \in {"cache", "list"} /\ command = "update" /\ pc # "off"
    BY <1>b, <2>2 DEF FeedPlace, Updating
  <2> QED
    BY <1>a, <1>c, <2>1, <2>2, <2>3, BeginStep DEF Transfers
<1>2. CASE TransferLost
  BY <1>a, <1>f, <1>2 DEF TransferLost, Updating
<1>3. CASE StoreFeed
  <2>1. pc = "feed" /\ step = "ok" /\ disk' = [disk EXCEPT ![Target][url] = Here]
    BY <1>3 DEF StoreFeed
  <2>2. disk' \in Disks
    BY <1>a, <1>d, <1>e, <1>h, <2>1
  <2>3. CASE world.compress /\ ~Gzipped
    <3>1. url = feed(src) /\ disk'["list"][feed(src)] # NoFile
      BY <1>a, <1>e, <1>h, <2>1, <2>3 DEF Engaged, Disks
    <3>2. GoOn("compress", src) /\ UNCHANGED <<failed, walk>>
      BY <1>3, <2>3 DEF StoreFeed
    <3> QED
      BY <1>a, <1>b, <2>1, <2>2, <3>1, <3>2, GoOnStep DEF Updating
  <2>4. CASE ~(world.compress /\ ~Gzipped)
    BY <1>g, <1>3, <2>1, <2>2, <2>4 DEF StoreFeed, Updating
  <2> QED
    BY <2>3, <2>4
<1>4. CASE StoreFeedFails
  <2>1. /\ pc = "feed" /\ step = "ok" /\ (NextOne(TRUE) \/ AfterFeed)
        /\ \E c \in PrefixesOf(Here) \union {disk[Target][url]} : disk' = [disk EXCEPT ![Target][url] = c]
    BY <1>4 DEF StoreFeedFails
  <2>2. disk[Target][url] \in Contents
    BY <1>a, <1>e, <1>h, <2>1 DEF Disks
  <2>3. disk' \in Disks
    <3>1. PICK c \in PrefixesOf(Here) \union {disk[Target][url]} : disk' = [disk EXCEPT ![Target][url] = c]
      BY <2>1
    <3> QED
      BY <1>a, <1>d, <1>e, <1>h, <2>1, <2>2, <3>1
  <2> QED
    BY <1>f, <1>g, <2>1, <2>3 DEF Updating
<1>5. CASE CompressList
  <2> DEFINE c == disk["list"][feed(src)]
  <2>1. pc = "compress" /\ AfterFeed /\ c \in Contents \ {NoFile} /\ feed(src) \in Url
    BY <1>a, <1>c, <1>5 DEF CompressList, Engaged, Disks
  <2>2. \E x \in PrefixesOf(c) \union {disk["gz"][feed(src)], c}, y \in {c, NoFile} :
          disk' = [[disk EXCEPT !["gz"][feed(src)] = x] EXCEPT !["list"][feed(src)] = y]
    BY <1>5 DEF CompressList
  <2>3. disk["gz"][feed(src)] \in Contents /\ PrefixesOf(c) \subseteq Contents
    BY <1>a, <2>1, PrefixesType DEF Disks
  <2>4. disk' \in Disks
    <3>1. PICK x \in PrefixesOf(c) \union {disk["gz"][feed(src)], c}, y \in {c, NoFile} :
            disk' = [[disk EXCEPT !["gz"][feed(src)] = x] EXCEPT !["list"][feed(src)] = y]
      BY <2>2
    <3>2. x \in Contents /\ y \in Contents
      BY <1>a, <2>1, <2>3
    <3>3. [disk EXCEPT !["gz"][feed(src)] = x] \in Disks
      BY <1>a, <1>d, <2>1, <3>2
    <3> QED
      BY <1>a, <1>d, <2>1, <3>1, <3>2, <3>3
  <2> QED
    BY <1>g, <2>1, <2>4 DEF Updating
<1>6. CASE FetchSignature
  <2>1. /\ pc = "signature" /\ pc' = "sig" /\ BeginOn(disk, sig(src), OwnPlace)
        /\ UNCHANGED <<world, calm, served, stamp, command, src, todo, failed, expect, report, walk>>
    BY <1>6 DEF FetchSignature, Fetch, Begin
  <2>2. command = "update"
    BY <1>b, <2>1 DEF Updating
  <2> QED
    BY <1>a, <1>c, <2>1, <2>2, BeginStep DEF Transfers
<1>7. CASE StoreSignature
  <2>1. /\ pc = "sig" /\ step = "ok"
        /\ NextOne(TRUE) \/ (GoOn("verify", src) /\ UNCHANGED <<failed, walk>>)
        /\ \E c \in PrefixesOf(Here) \union {disk["list"][url], Here} : disk' = [disk EXCEPT !["list"][url] = c]
    BY <1>7 DEF StoreSignature
  <2>2. disk["list"][url] \in Contents
    BY <1>a, <1>e, <2>1 DEF Disks
  <2>3. disk' \in Disks
    <3>1. PICK c \in PrefixesOf(Here) \union {disk["list"][url], Here} : disk' = [disk EXCEPT !["list"][url] = c]
      BY <2>1
    <3> QED
      BY <1>a, <1>d, <1>e, <2>1, <2>2, <3>1
  <2>4. CASE NextOne(TRUE)
    BY <1>f, <2>1, <2>3, <2>4 DEF Updating
  <2>5. CASE GoOn("verify", src) /\ UNCHANGED <<failed, walk>>
    BY <1>a, <1>b, <2>1, <2>3, <2>5, GoOnStep DEF Updating
  <2> QED
    BY <2>1, <2>4, <2>5
<1>u. Unverified \in Disks
  BY <1>a, <1>c DEF Unverified, Disks
<1>8. CASE VerifyFeed
  <2>1. disk' \in Disks
    BY <1>a, <1>u, <1>8 DEF VerifyFeed
  <2>2. PICK failure \in BOOLEAN : NextOne(failure)
    BY <1>8 DEF VerifyFeed, Verified, IsWhole
  <2> QED
    BY <1>f, <1>8, <2>1, <2>2 DEF VerifyFeed
<1>9. CASE FinishUpdate
  BY <1>a, <1>9, ExitStep DEF FinishUpdate
<1>10. CASE CheckSource
  <2>1. CASE Verified
    <3>1. pc = "verify" /\ command = "install" /\ GoOn("package", src) /\ UNCHANGED <<disk, failed, walk>>
      BY <1>10, <2>1 DEF CheckSource
    <3> QED
      BY <1>a, <3>1, GoOnStep DEF Updating, Walking
  <2>2. CASE ~Verified
    BY <1>a, <1>u, <1>10, <2>2, ExitStep DEF CheckSource
  <2> QED
    BY <2>1, <2>2
<1>11. CASE FetchPackage
  <2>1. /\ pc = "package" /\ pc' = "fetch" /\ BeginOn(disk, pkg(src), "cache")
        /\ UNCHANGED <<world, calm, served, stamp, command, src, todo, failed, expect, report, walk>>
    BY <1>11 DEF FetchPackage, Fetch, Begin
  <2>2. command = "install" /\ src \in Source /\ pkg(src) \in Url
    BY <1>a, <2>1, WorldType DEF Engaged
  <2> QED
    BY <1>a, <2>1, <2>2, BeginStep DEF Transfers, Updating, Walking
<1>12. CASE CheckPackage
  <2>1. command = "install" /\ pkg(src) \in Url
    BY <1>a, <1>12, WorldType DEF CheckPackage, Engaged
  <2>2. [disk EXCEPT !["cache"][pkg(src)] = NoFile] \in Disks
    BY <1>a, <1>d, <2>1
  <2> QED
    BY <1>a, <1>12, <2>2, ExitStep DEF CheckPackage
<1>13. CASE PackageLost
  BY <1>a, <1>13, ExitStep DEF PackageLost
<1> QED
  BY <1>1, <1>2, <1>3, <1>4, <1>5, <1>6, <1>7, <1>8, <1>9, <1>10, <1>11, <1>12, <1>13 DEF SourceStep, InstallStep

LEMMA TypeStep == TypeInv /\ [Next]_vars => TypeInv'
<1> SUFFICES ASSUME TypeInv, [Next]_vars PROVE TypeInv'
  OBVIOUS
<1>1. CASE UNCHANGED vars
  BY <1>1, StillStep DEF vars, TypeInv, TypeOK, TransferTypes
<1> QED
  BY <1>1, IdleTypeStep, TransferTypeStep, DistTypeStep, FeedTypeStep
     DEF Next, Proceed, SourceStep, InstallStep, IdleStep

(***************************************************************************)
(* What the cache holds, and of what, while the repository is reliable and *)
(* the disk does not fail.                                                 *)
(***************************************************************************)
Sound   == Reliable /\ "disk" \notin world.faults
Tagging == world.tags = {TRUE}

\* A file is of one version; if curl finds the stamp of what is served beside it,
\* it is of that, and if every answer has an ETag it is of what its stamp names.
CachedOK(u) ==
  LET c == disk["cache"][u] IN
    /\ c # NoFile => \E v \in Version : PartOf(c, v)
    /\ world.backend = "curl" /\ c # NoFile /\ (Tagging \/ stamp[u] = served[u]) =>
         PartOf(c, stamp[u])
    /\ world.backend = "curl" /\ ~world.rollback => stamp[u] <= served[u]

\* A transfer that resumes has in its hands what is served, or nothing.
ResumesOK ==
  Resumes =>
    /\ step = "stamp" => etag \in {NoVer, served[url]} /\ (Tagging => etag = served[url])
    /\ step \in {"open", "get"} => /\ Here # NoFile => PartOf(Here, served[url])
                                   /\ Tagging => stamp[url] = served[url]

CacheInv ==
  Sound => /\ \A u \in Url : CachedOK(u)
           /\ ResumesOK
           /\ CompleteWhenDone

\* An installation has the version that the feed names in mind, the list still
\* verifies, and what it fetches was not there when it began.
InstallInv ==
  pc # "off" /\ command = "install" =>
    /\ pc \in {"verify", "package", "fetch"}
    /\ expect = Named(src)
    /\ pc \in {"package", "fetch"} /\ world.signed => Verified
    /\ pc = "fetch" /\ step \in {"head", "stamp", "open"} => Package = NoFile
    /\ pc = "fetch" /\ step = "get" => Package \in {NoFile, <<>>}

\* The sources that an update has been through, if nothing failed, are verified.
VerifiedList(s) == LET c == disk["list"][feed(s)] IN
                     IsWhole(c) /\ disk["list"][sig(s)] = c
SignedInv ==
  /\ pc \in Walking => world.sources \subseteq todo
  /\ pc # "off" /\ command = "update" /\ world.signed /\ ~failed =>
       \A s \in world.sources \ todo : s # src \/ pc = "next" => VerifiedList(s)

LEMMA NothingIsPart ==
  ASSUME NEW v
  PROVE  PartOf(<<>>, v)
  BY EmptyType DEF PartOf

LEMMA PartThatIsWhole ==
  ASSUME NEW c \in Contents, NEW v \in Version, PartOf(c, v), Len(c) >= Size
  PROVE  c = Whole(v)
<1>1. c # NoFile /\ \A i \in DOMAIN c : c[i] = v
  BY DEF PartOf
<1>2. c \in Seq(Version) /\ DOMAIN c = 1..Len(c) /\ Len(c) \in 0..Size /\ Size \in Nat
  BY <1>1, ContentsType, DownloadsOK
<1>3. Len(c) = Size
  <2>1. \A k \in 0..Size : k >= Size => k = Size
    BY <1>2
  <2> QED
    BY <1>2, <2>1, Zenon
<1>4. DOMAIN c = 1..Size
  BY <1>2, <1>3
<1> QED
  BY <1>1, <1>2, <1>4 DEF Whole

\* What is received after what is kept is of what is served, if that is.
LEMMA ReceivedPart ==
  ASSUME TypeInv, step = "get", NEW n \in 0..Size, Resumes => PartOf(Here, served[url])
  PROVE  PartOf(Received(n), served[url])
<1>1. Kept \in Contents \ {NoFile} /\ (Kept = <<>> \/ PartOf(Kept, served[url]))
  BY EmptyType DEF TypeInv, TypeOK, TransferTypes, Underway, Kept, Here
<1>2. PartOf(Kept, served[url])
  BY <1>1, NothingIsPart
<1>3. DOMAIN Kept = 1..Len(Kept) /\ Len(Kept) \in Nat
  BY <1>1, ContentsType, DownloadsOK
<1>4. \A i \in 1..n : Received(n)[i] = served[url]
  BY <1>2, <1>3, DownloadsOK DEF Received, PartOf
<1>5. DOMAIN Received(n) = 1..n /\ Received(n) # NoFile
  BY ReceivedType DEF Received
<1> QED
  BY <1>4, <1>5 DEF PartOf

(***************************************************************************)
(* The steps on the cache: of a transfer, ...                              *)
(***************************************************************************)
LEMMA TransferCacheStep ==
  ASSUME TypeInv, CacheInv, Work
  PROVE  CacheInv'
<1> SUFFICES ASSUME Sound' PROVE (\A u \in Url : CachedOK(u))' /\ ResumesOK' /\ CompleteWhenDone'
  BY DEF CacheInv
<1>a. TypeOK /\ Underway /\ Transfer /\ UNCHANGED <<world, served, url, place, calm>>
  BY DEF Work, TypeInv, Transfer, AnswerHead, HeadFails, WriteStamp, StampFails,
     OpenCached, OpenFails, GetAll, GetPart
<1>b. Sound /\ ~Fault("disk") /\ (\A u \in Url : CachedOK(u)) /\ ResumesOK
  BY <1>a DEF CacheInv, Sound, Reliable, Fault
<1>t. /\ disk \in [Places -> [Url -> Contents]] /\ place \in Places /\ url \in Url
      /\ served[url] \in Version /\ NoFile \in Contents /\ Size \in Nat \ {0}
      /\ stamp \in [Url -> Version \union {NoVer}] /\ Version \subseteq Nat /\ NoVer = 0
      /\ NoVer \notin Version /\ "cache" \in Places
  <2>1. Version \subseteq Nat /\ NoVer = 0 /\ NoVer \notin Version
    BY DownloadsOK DEF Version, NoVer
  <2> QED
    BY <1>a, <2>1, DownloadsOK DEF TypeOK, TransferTypes, Contents, Places
<1>r. Resumes' = Resumes /\ Tagging' = Tagging /\ (Resumes => place = "cache")
      /\ (step \in {"head", "stamp", "open"} => Resumes)
  BY <1>a DEF Resumes, Tagging, Underway
<1>s. Sound /\ world.backend = "curl" => Tagging \/ ~world.rollback
  BY DEF Sound, Reliable, Tagging
\* One file of the cache, and its stamp, change.
<1>c. ASSUME NEW c \in Contents, disk' = [disk EXCEPT ![place][url] = c], stamp' = stamp,
             place = "cache" => (c # NoFile => PartOf(c, served[url]))
                                /\ (c # NoFile /\ Resumes /\ Tagging => stamp[url] = served[url])
      PROVE  (\A u \in Url : CachedOK(u))'
  <2>1. \A u \in Url : disk'["cache"][u] = IF place = "cache" /\ u = url THEN c ELSE disk["cache"][u]
    BY <1>c, <1>t
  <2>2. SUFFICES ASSUME NEW u \in Url PROVE CachedOK(u)'
    OBVIOUS
  <2>3. CASE place = "cache" /\ u = url
    <3>1. disk'["cache"][u] = c
      BY <2>1, <2>3
    <3>2. world.backend = "curl" => Resumes
      BY <2>3 DEF Resumes
    <3>3. c # NoFile => PartOf(c, served[u])
      BY <1>c, <2>3
    <3>4. c # NoFile /\ world.backend = "curl" /\ Tagging => stamp[u] = served[u]
      BY <1>c, <2>3, <3>2
    <3>5. world.backend = "curl" /\ ~world.rollback => stamp[u] <= served[u]
      BY <1>b DEF CachedOK
    <3> QED
      BY <1>a, <1>c, <1>r, <1>t, <2>3, <3>1, <3>3, <3>4, <3>5 DEF CachedOK
  <2>4. CASE ~(place = "cache" /\ u = url)
    <3>1. disk'["cache"][u] = disk["cache"][u] /\ CachedOK(u)
      BY <1>b, <2>1, <2>4
    <3> QED
      BY <1>a, <1>c, <1>r, <3>1 DEF CachedOK
  <2> QED
    BY <2>3, <2>4
<1>d. ASSUME NEW c \in Contents, disk' = [disk EXCEPT ![place][url] = c] PROVE Here' = c
  BY <1>a, <1>d, <1>t DEF Here
<1>h. UNCHANGED disk => UNCHANGED Here
  BY <1>a DEF Here
<1>u. UNCHANGED <<disk, stamp>> => (\A u \in Url : CachedOK(u))'
  BY <1>a, <1>b, <1>r DEF CachedOK
<1>f. step' # "ok" => CompleteWhenDone'
  BY DEF CompleteWhenDone
<1>1. CASE AnswerHead
  <2>1. PICK tagged \in world.tags : etag' = IF tagged THEN served[url] ELSE NoVer
    BY <1>1 DEF AnswerHead
  <2>2. Tagging => etag' = served[url]
    BY <2>1 DEF Tagging
  <2>3. etag' \in {NoVer, served[url]} /\ UNCHANGED stamp
    BY <1>1, <2>1 DEF AnswerHead
  <2>4. Resumes /\ place = "cache" /\ world.backend = "curl"
    BY <1>1, <1>r DEF AnswerHead, Resumes
  <2>5. CASE Fresh(etag')
    <3>1. UNCHANGED disk /\ step' = "open"
      <4>1. \A tag : Fresh(tag) <=> Here # NoFile /\ tag # NoVer /\ stamp[url] = tag
        BY DEF Fresh
      <4> QED
        BY <1>1, <2>5, <4>1 DEF AnswerHead
    <3>2. Here # NoFile /\ stamp[url] = served[url]
      BY <2>3, <2>5 DEF Fresh
    <3>3. CachedOK(url) /\ Here = disk["cache"][url]
      BY <1>b, <1>t, <2>4 DEF Here
    <3>4. PartOf(Here, served[url])
      BY <2>4, <3>2, <3>3 DEF CachedOK
    <3>5. ResumesOK'
      BY <1>a, <1>h, <1>r, <2>3, <3>1, <3>2, <3>4 DEF ResumesOK
    <3> QED
      BY <1>f, <1>u, <2>3, <3>1, <3>5
  <2>6. CASE ~Fresh(etag')
    <3>1. disk' = [disk EXCEPT ![place][url] = NoFile] /\ step' = "stamp"
      BY <1>1, <2>6 DEF AnswerHead
    <3>2. ResumesOK'
      BY <1>a, <1>r, <2>2, <2>3, <3>1 DEF ResumesOK
    <3> QED
      BY <1>c, <1>f, <1>t, <2>3, <3>1, <3>2
  <2> QED
    BY <2>5, <2>6
<1>2. CASE HeadFails \/ OpenFails
  BY <1>b, <1>f, <1>u, <1>2 DEF HeadFails, OpenFails, ResumesOK
<1>3. CASE WriteStamp
  <2>1. /\ Resumes /\ place = "cache" /\ Here = NoFile /\ UNCHANGED disk /\ step' = "open"
        /\ etag \in {NoVer, served[url]} /\ (Tagging => etag = served[url])
        /\ world.backend = "curl" /\ step = "stamp"
    BY <1>a, <1>b, <1>r, <1>3 DEF WriteStamp, Underway, ResumesOK, Resumes
  <2>2. stamp' = [stamp EXCEPT ![url] = IF etag = NoVer THEN stamp[url] ELSE served[url]]
    <3>1. CASE etag = NoVer
      BY <1>3, <1>t, <3>1 DEF WriteStamp
    <3>2. CASE etag # NoVer
      BY <1>3, <2>1, <3>2 DEF WriteStamp
    <3> QED
      BY <3>1, <3>2
  <2>3. Tagging => stamp'[url] = served[url]
    BY <1>t, <2>1, <2>2
  <2>4. disk["cache"][url] = NoFile
    BY <2>1 DEF Here
  <2>5. (\A u \in Url : CachedOK(u))'
    <3> SUFFICES ASSUME NEW u \in Url PROVE CachedOK(u)'
      OBVIOUS
    <3>1. CASE u = url
      <4>1. world.backend = "curl" /\ ~world.rollback => stamp'[u] <= served[u]
        <5>1. stamp'[u] \in {stamp[u], served[u]}
          BY <1>t, <2>2, <3>1
        <5>2. world.backend = "curl" /\ ~world.rollback => stamp[u] <= served[u]
          BY <1>b DEF CachedOK
        <5>3. served[u] <= served[u]
          <6>1. served[u] \in Nat
            BY <1>t, <3>1, Zenon
          <6>2. \A k \in Nat : k <= k
            OBVIOUS
          <6> QED
            BY <6>1, <6>2, Zenon
        <5> QED
          BY <5>1, <5>2, <5>3
      <4> QED
        BY <1>a, <2>1, <2>4, <3>1, <4>1 DEF CachedOK
    <3>2. CASE u # url
      <4>1. stamp'[u] = stamp[u] /\ CachedOK(u)
        BY <1>b, <1>t, <2>2, <3>2
      <4> QED
        BY <1>a, <1>r, <2>1, <4>1 DEF CachedOK
    <3> QED
      BY <3>1, <3>2
  <2>6. ResumesOK'
    BY <1>a, <1>h, <1>r, <2>1, <2>3 DEF ResumesOK
  <2> QED
    BY <1>f, <2>1, <2>5, <2>6
<1>4. CASE StampFails
  BY <1>b, <1>4 DEF StampFails
<1>5. CASE OpenCached
  <2> DEFINE c == IF Here = NoFile THEN <<>> ELSE Here
  <2>1. c \in Contents \ {NoFile} /\ Resumes /\ place = "cache"
    BY <1>r, <1>t, <1>5, EmptyType DEF Here, OpenCached
  <2>2. PartOf(c, served[url]) /\ (Tagging => stamp[url] = served[url])
    BY <1>b, <1>5, <2>1, NothingIsPart DEF ResumesOK, OpenCached
  <2>3. /\ disk' = [disk EXCEPT ![place][url] = c] /\ UNCHANGED stamp
        /\ step' = IF Enough(c) THEN "ok" ELSE "get"
    BY <1>5 DEF OpenCached
  <2>4. Enough(c) /\ world.sized => c = Whole(served[url])
    BY <1>t, <2>1, <2>2, PartThatIsWhole DEF Enough
  <2> HIDE DEF c
  <2>5. Here' = c
    BY <1>d, <2>1, <2>3
  <2>6. ResumesOK'
    BY <1>a, <1>r, <2>2, <2>3, <2>5 DEF ResumesOK
  <2>7. CompleteWhenDone'
    BY <1>a, <2>3, <2>4, <2>5 DEF CompleteWhenDone
  <2>8. (\A u \in Url : CachedOK(u))'
    BY <1>c, <2>1, <2>2, <2>3
  <2> QED
    BY <2>6, <2>7, <2>8
<1>6. CASE GetAll
  <2> DEFINE c == Received(Size - Skipped)
  <2>0. step = "get" /\ disk' = [disk EXCEPT ![place][url] = c] /\ step' \in {"ok", "failed"}
        /\ UNCHANGED <<stamp, offset>>
    BY <1>6 DEF GetAll
  <2>1. Size - Skipped \in 0..Size
    BY <2>0, KeptLength
  <2>2. /\ Resumes => Here # NoFile /\ PartOf(Here, served[url])
        /\ Resumes /\ Tagging => stamp[url] = served[url]
    BY <1>a, <1>b, <2>0 DEF ResumesOK, Underway
  <2>3. c \in Contents \ {NoFile} /\ PartOf(c, served[url])
    BY <2>0, <2>1, <2>2, ReceivedType, ReceivedPart
  <2>4. Skipped = 0 => c = Whole(served[url])
    <3>1. Skipped = 0 => DOMAIN c = 1..Size
      BY DownloadsOK DEF Received
    <3>2. \A i \in DOMAIN c : c[i] = served[url]
      BY <2>3 DEF PartOf
    <3> QED
      BY <3>1, <3>2 DEF Whole, Received
  <2> HIDE DEF c
  <2>5. Here' = c /\ Skipped' = Skipped
    BY <1>d, <1>r, <2>0, <2>3 DEF Skipped
  <2>6. ResumesOK'
    BY <2>0 DEF ResumesOK
  <2>7. CompleteWhenDone'
    BY <1>a, <2>4, <2>5 DEF CompleteWhenDone
  <2>8. (\A u \in Url : CachedOK(u))'
    BY <1>c, <2>0, <2>2, <2>3
  <2> QED
    BY <2>6, <2>7, <2>8
<1>7. CASE GetPart
  <2>0. step = "get" /\ step' = "failed" /\ UNCHANGED stamp
    BY <1>b, <1>7 DEF GetPart
  <2>1. ResumesOK' /\ CompleteWhenDone'
    BY <2>0 DEF ResumesOK, CompleteWhenDone
  <2>2. CASE \E n \in Len(Kept)..(Size - Skipped) : disk' = [disk EXCEPT ![place][url] = Received(n)]
    <3>1. PICK n \in Len(Kept)..(Size - Skipped) : disk' = [disk EXCEPT ![place][url] = Received(n)]
      BY <2>2
    <3>2. n \in 0..Size
      BY <2>0, KeptLength
    <3>3. /\ Resumes => Here # NoFile /\ PartOf(Here, served[url])
          /\ Resumes /\ Tagging => stamp[url] = served[url]
      BY <1>a, <1>b, <2>0 DEF ResumesOK, Underway
    <3>4. Received(n) \in Contents \ {NoFile} /\ PartOf(Received(n), served[url])
      BY <2>0, <3>2, <3>3, ReceivedType, ReceivedPart
    <3>5. (\A u \in Url : CachedOK(u))'
      BY <1>c, <2>0, <3>1, <3>3, <3>4
    <3> QED
      BY <2>1, <3>5
  <2>3. CASE UNCHANGED disk
    BY <1>u, <2>0, <2>1, <2>3
  <2> QED
    BY <1>7, <2>2, <2>3 DEF GetPart
<1> QED
  BY <1>a, <1>1, <1>2, <1>3, <1>4, <1>5, <1>6, <1>7 DEF Transfer

(***************************************************************************)
(* ... of a command that begins one, is done with one or ends, ...         *)
(***************************************************************************)
\* The cache is left alone, or loses files; all of them if it loses the stamps.
Leaves ==
  /\ UNCHANGED <<world, served>>
  /\ \A u \in Url : disk'["cache"][u] \in {disk["cache"][u], NoFile}
  /\ \/ UNCHANGED stamp
     \/ \A u \in Url : stamp'[u] = NoVer /\ disk'["cache"][u] = NoFile
  /\ step' \in {"idle", "head"} \/ (step' = "get" /\ ~Resumes')

LEMMA LeavesCacheStep ==
  ASSUME TypeInv, CacheInv, Leaves
  PROVE  CacheInv'
<1> SUFFICES ASSUME Sound' PROVE (\A u \in Url : CachedOK(u))' /\ ResumesOK' /\ CompleteWhenDone'
  BY DEF CacheInv
<1>1. Sound /\ \A u \in Url : CachedOK(u)
  BY DEF CacheInv, Sound, Reliable, Leaves
<1>2. ResumesOK' /\ CompleteWhenDone'
  BY DEF Leaves, ResumesOK, CompleteWhenDone
<1>3. ASSUME NEW u \in Url PROVE CachedOK(u)'
  <2>1. CachedOK(u) /\ UNCHANGED <<world, served>> /\ Tagging' = Tagging
        /\ disk'["cache"][u] \in {disk["cache"][u], NoFile}
    BY <1>1 DEF Leaves, Tagging
  <2>2. CASE UNCHANGED stamp
    BY <2>1, <2>2 DEF CachedOK
  <2>3. CASE stamp'[u] = NoVer /\ disk'["cache"][u] = NoFile
    <3>1. served[u] \in Nat
      BY DEF TypeInv, TypeOK, TransferTypes, Version
    <3>2. \A k \in Nat : NoVer <= k
      BY DEF NoVer
    <3> QED
      BY <2>1, <2>3, <3>1, <3>2 DEF CachedOK
  <2> QED
    BY <2>2, <2>3 DEF Leaves
<1> QED
  BY <1>2, <1>3

LEMMA BeginLeaves ==
  ASSUME NEW d \in Disks, d["cache"] = disk["cache"], NEW u \in Url, NEW p \in {"cache", "list"},
         BeginOn(d, u, p), UNCHANGED <<world, served, stamp>>
  PROVE  Leaves
<1>1. CASE world.backend = "curl" /\ p = "cache"
  BY <1>1 DEF BeginOn, Leaves
<1>2. CASE ~(world.backend = "curl" /\ p = "cache")
  <2>1. step' = "get" /\ place' = p /\ disk' = [d EXCEPT ![p][u] = NoFile]
    BY <1>2 DEF BeginOn
  <2>2. ~Resumes'
    BY <1>2, <2>1 DEF Resumes
  <2>3. \A x \in Url : disk'["cache"][x] \in {disk["cache"][x], NoFile}
    BY <2>1 DEF Disks, Places
  <2> QED
    BY <2>1, <2>2, <2>3 DEF Leaves
<1> QED
  BY <1>1, <1>2

LEMMA GoOnLeaves ==
  ASSUME disk'["cache"] = disk["cache"], NEW p, NEW s, GoOn(p, s)
  PROVE  Leaves
  BY DEF GoOn, Rest, Leaves

LEMMA GoneLeaves ==
  ASSUME NEW r, Gone(r), disk'["cache"] = disk["cache"], UNCHANGED <<world, served, stamp>>
  PROVE  Leaves
  BY DEF Gone, Rest, Leaves

LEMMA ExitLeaves ==
  ASSUME NEW r, Exit(r), NEW d \in Disks, disk' = AtExit(d), UNCHANGED <<world, served>>,
         \A u \in Url : d["cache"][u] \in {disk["cache"][u], NoFile}
  PROVE  Leaves
<1>1. step' = "idle"
  BY DEF Exit, Gone, Rest
<1>2. CASE world.volatile
  <2>1. \A u \in Url : disk'["cache"][u] = NoFile /\ stamp'[u] = NoVer
    BY <1>2 DEF AtExit, Exit, NoFiles, Disks, Places
  <2> QED
    BY <1>1, <2>1 DEF Leaves
<1>3. CASE ~world.volatile
  BY <1>1, <1>3 DEF AtExit, Exit, Leaves
<1> QED
  BY <1>2, <1>3

\* Putting something in a list leaves the cache alone.
LEMMA ListLeaves ==
  ASSUME disk \in Disks, NEW p \in {"list", "gz"}, NEW u, NEW c
  PROVE  /\ [disk EXCEPT ![p][u] = c]["cache"] = disk["cache"]
         /\ \A v, e : \A q \in {"list", "gz"} :
              [disk EXCEPT ![p][u] = c, ![q][v] = e]["cache"] = disk["cache"]
  BY DEF Disks, Places

LEMMA DistLeaves ==
  ASSUME TypeInv, DistStep
  PROVE  Leaves
<1>a. /\ TypeOK /\ Engaged /\ disk \in Disks /\ Release \in Url /\ walk \in Walks
      /\ OwnPlace \in {"cache", "list"}
      /\ NoFile \in Contents
  BY WorldType DEF TypeInv, TypeOK, TransferTypes, Disks, Walks, OwnPlace, Contents
<1>b. walk.at <= ListCount => gz(Current) \in Url /\ feed(Current) \in Url
  <2>1. Current \in Sublist \/ ~(walk.at <= ListCount)
    <3>1. world \in World /\ walk.at \in Nat /\ ListCount \in Nat /\ walk.at >= 1
      BY <1>a, WorldType DEF World, Walks, ListCount, Engaged
    <3> QED
      BY <3>1, ListAtType DEF Current
  <2> QED
    BY <1>a, <2>1, WorldType
<1>c. \A u, c : [disk EXCEPT !["list"][u] = c]["cache"] = disk["cache"]
  BY <1>a, ListLeaves
<1>d. ASSUME NEW u \in Url, NEW p \in {"cache", "list"}, NEW q, Fetch(u, p, q)
      PROVE  Leaves
  BY <1>a, <1>d, BeginLeaves DEF Fetch, Begin
<1>e. ASSUME NEW d \in Disks, d["cache"] = disk["cache"], FallBack(d), walk.at <= ListCount
      PROVE  Leaves
  BY <1>a, <1>b, <1>e, BeginLeaves DEF FallBack
<1>f. ASSUME NEW err, NextList(err), disk'["cache"] = disk["cache"] PROVE Leaves
  BY <1>f, GoOnLeaves DEF NextList
<1>g. ASSUME NEW err, LeaveDist(err), disk'["cache"] = disk["cache"] PROVE Leaves
  BY <1>g, GoOnLeaves DEF LeaveDist
<1>1. CASE FetchRelease
  BY <1>a, <1>d, <1>1 DEF FetchRelease
<1>2. CASE ReleaseLost
  BY <1>g, <1>2 DEF ReleaseLost
<1>3. CASE StoreRelease
  <2>1. disk'["cache"] = disk["cache"]
    <3>1. \E c : disk' = [disk EXCEPT !["list"][Release] = c]
      BY <1>3 DEF StoreRelease
    <3> QED
      BY <1>c, <3>1
  <2>2. GoOn("lists", NoSrc) \/ LeaveDist(TRUE)
    BY <1>3 DEF StoreRelease
  <2> QED
    BY <1>g, <2>1, <2>2, GoOnLeaves
<1>4. CASE StoreReleaseFails
  BY <1>c, <1>g, <1>4 DEF StoreReleaseFails
<1>5. CASE FetchList
  BY <1>a, <1>b, <1>d, <1>5 DEF FetchList
<1>6. CASE GzListLost
  <2>1. walk.at <= ListCount
    BY <1>a, <1>6 DEF GzListLost, Engaged
  <2> QED
    BY <1>a, <1>e, <1>f, <1>6, <2>1 DEF GzListLost
<1>7. CASE TakeGzList
  <2>1. walk.at <= ListCount /\ pc = "gzlist" /\ step = "ok"
    BY <1>a, <1>7 DEF TakeGzList, Engaged
  <2>2. CASE disk' = [disk EXCEPT !["list"][feed(Current)] = Here] /\ NextList(FALSE)
    BY <1>c, <1>f, <2>2
  <2>3. ASSUME NEW c \in PrefixesOf(Here) \union {NoFile},
               \/ disk' = [disk EXCEPT !["list"][feed(Current)] = c] /\ NextList(FALSE)
               \/ FallBack([disk EXCEPT !["list"][feed(Current)] = c])
        PROVE  Leaves
    <3>1. Here \in Contents /\ Here # NoFile
      BY <2>1 DEF TypeInv, TypeOK, TransferTypes, Underway, Here
    <3>2. c \in Contents
      BY <1>a, <3>1, PrefixesType
    <3>3. [disk EXCEPT !["list"][feed(Current)] = c] \in Disks
      BY <1>a, <1>b, <2>1, <3>2, DisksType DEF Places
    <3>4. [disk EXCEPT !["list"][feed(Current)] = c]["cache"] = disk["cache"]
      BY <1>c
    <3>5. CASE FallBack([disk EXCEPT !["list"][feed(Current)] = c])
      BY <1>e, <2>1, <3>3, <3>4, <3>5
    <3>6. CASE disk' = [disk EXCEPT !["list"][feed(Current)] = c] /\ NextList(FALSE)
      BY <1>f, <3>4, <3>6
    <3> QED
      BY <2>3, <3>5, <3>6
  <2> QED
    BY <1>7, <2>2, <2>3 DEF TakeGzList
<1>8. CASE ListLost
  BY <1>f, <1>8 DEF ListLost
<1>9. CASE TakeList
  BY <1>c, <1>f, <1>9 DEF TakeList
<1>10. CASE TakeListFails
  BY <1>c, <1>f, <1>10 DEF TakeListFails
<1>11. CASE FinishDist
  BY <1>c, <1>g, <1>11 DEF FinishDist
<1>12. CASE DieOfRelease
  BY <1>12, GoneLeaves DEF DieOfRelease
<1> QED
  BY <1>1, <1>2, <1>3, <1>4, <1>5, <1>6, <1>7, <1>8, <1>9, <1>10, <1>11, <1>12 DEF DistStep

LEMMA FeedLeaves ==
  ASSUME TypeInv,
         SourceStep \/ InstallStep
  PROVE  Leaves
<1>a. /\ TypeOK /\ Engaged /\ disk \in Disks /\ NoFile \in Contents
      /\ src \in Source \union Sublist
      /\ OwnPlace \in {"cache", "list"}
  BY DEF TypeInv, TypeOK, TransferTypes, Disks, OwnPlace, Contents
<1>b. \A s \in Source \union Sublist : feed(s) \in Url /\ sig(s) \in Url
  BY <1>a, WorldType
<1>c. \A u, c : \A p \in {"list", "gz"} : [disk EXCEPT ![p][u] = c]["cache"] = disk["cache"]
  BY <1>a, ListLeaves
<1>d. ASSUME NEW u \in Url, NEW p \in {"cache", "list"}, NEW q, Fetch(u, p, q)
      PROVE  Leaves
  BY <1>a, <1>d, BeginLeaves DEF Fetch, Begin
<1>e. ASSUME NEW failure, NextOne(failure), disk'["cache"] = disk["cache"] PROVE Leaves
  BY <1>e, GoOnLeaves DEF NextOne
<1>f. ASSUME AfterFeed, disk'["cache"] = disk["cache"] PROVE Leaves
  <2>1. GoOn("signature", src) \/ NextOne(FALSE)
    BY <1>f DEF AfterFeed
  <2> QED
    BY <1>e, <1>f, <2>1, GoOnLeaves
<1>h. Target \in {"list", "gz"}
  BY DEF Target
<1>1. ASSUME NEW s \in todo, NextSource(s) PROVE Leaves
  <2>1. s \in Source \union Sublist
    BY <1>a, SourcesType
  <2>2. BeginOn(disk, feed(s), FeedPlace(s)) /\ UNCHANGED <<world, served, stamp>>
        /\ FeedPlace(s) \in {"cache", "list"}
    BY <1>1 DEF NextSource, Begin, FeedPlace
  <2> QED
    BY <1>a, <1>b, <2>1, <2>2, BeginLeaves
<1>2. CASE TransferLost
  BY <1>e, <1>2 DEF TransferLost
<1>3. CASE StoreFeed
  <2>1. disk'["cache"] = disk["cache"]
    BY <1>c, <1>h, <1>3 DEF StoreFeed
  <2>2. GoOn("compress", src) \/ AfterFeed
    BY <1>3 DEF StoreFeed
  <2> QED
    BY <1>f, <2>1, <2>2, GoOnLeaves
<1>4. CASE StoreFeedFails
  <2>1. disk'["cache"] = disk["cache"]
    <3>1. \E c : disk' = [disk EXCEPT ![Target][url] = c]
      BY <1>4 DEF StoreFeedFails
    <3> QED
      BY <1>c, <1>h, <3>1
  <2>2. NextOne(TRUE) \/ AfterFeed
    BY <1>4 DEF StoreFeedFails
  <2> QED
    BY <1>e, <1>f, <2>1, <2>2
<1>5. CASE CompressList
  <2>1. \E x, y : disk' = [disk EXCEPT !["gz"][feed(src)] = x, !["list"][feed(src)] = y]
    BY <1>5 DEF CompressList
  <2>2. disk'["cache"] = disk["cache"]
    BY <1>a, <2>1 DEF Disks, Places
  <2> QED
    BY <1>f, <1>5, <2>2 DEF CompressList
<1>6. CASE FetchSignature
  BY <1>a, <1>b, <1>d, <1>6 DEF FetchSignature
<1>7. CASE StoreSignature
  <2>1. \E c : disk' = [disk EXCEPT !["list"][url] = c]
    BY <1>7 DEF StoreSignature
  <2>2. disk'["cache"] = disk["cache"]
    BY <1>c, <2>1
  <2>3. GoOn("verify", src) \/ NextOne(TRUE)
    BY <1>7 DEF StoreSignature
  <2> QED
    BY <1>e, <2>2, <2>3, GoOnLeaves
<1>u. Unverified \in Disks /\ Unverified["cache"] = disk["cache"]
  BY <1>a, <1>b DEF Unverified, Disks, Places
<1>8. CASE VerifyFeed
  <2>1. disk'["cache"] = disk["cache"]
    BY <1>u, <1>8 DEF VerifyFeed
  <2> QED
    BY <1>e, <1>8, <2>1 DEF VerifyFeed
<1>9. CASE FinishUpdate
  BY <1>a, <1>9, ExitLeaves DEF FinishUpdate
<1>10. CASE CheckSource
  <2>1. CASE Verified
    BY <1>10, <2>1, GoOnLeaves DEF CheckSource
  <2>2. CASE ~Verified
    BY <1>u, <1>10, <2>2, ExitLeaves DEF CheckSource
  <2> QED
    BY <2>1, <2>2
<1>11. CASE FetchPackage
  <2>1. pkg(src) \in Url
    BY <1>a, <1>11, WorldType DEF FetchPackage, Engaged
  <2> QED
    BY <1>d, <1>11, <2>1 DEF FetchPackage
<1>12. CASE CheckPackage
  <2> DEFINE d == [disk EXCEPT !["cache"][pkg(src)] = NoFile]
  <2>1. pkg(src) \in Url
    BY <1>a, <1>12, WorldType DEF CheckPackage, Engaged
  <2>2. d \in Disks /\ \A u \in Url : d["cache"][u] \in {disk["cache"][u], NoFile}
    BY <1>a, <2>1 DEF Disks, Places
  <2> HIDE DEF d
  <2>3. UNCHANGED <<world, served>>
        /\ \/ Exit("installed") /\ disk' = AtExit(disk)
           \/ Exit("refused") /\ disk' = AtExit(d)
    BY <1>12 DEF CheckPackage, d
  <2> QED
    BY <1>a, <2>2, <2>3, ExitLeaves
<1>13. CASE PackageLost
  BY <1>a, <1>13, ExitLeaves DEF PackageLost
<1> QED
  BY <1>1, <1>2, <1>3, <1>4, <1>5, <1>6, <1>7, <1>8, <1>9, <1>10, <1>11, <1>12, <1>13 DEF SourceStep, InstallStep

(***************************************************************************)
(* ... and between commands.                                               *)
(***************************************************************************)
LEMMA SameCache ==
  ASSUME CacheInv, UNCHANGED <<world, served, disk, stamp, xfer>>
  PROVE  CacheInv'
<1>1. UNCHANGED <<Sound, Tagging, Resumes, Here, Skipped>>
  BY DEF Sound, Reliable, Tagging, Resumes, Here, Skipped, xfer
<1>2. ASSUME NEW u \in Url, CachedOK(u) PROVE CachedOK(u)'
  BY <1>1, <1>2 DEF CachedOK
<1>3. ResumesOK => ResumesOK'
  BY <1>1 DEF ResumesOK, xfer
<1>4. CompleteWhenDone => CompleteWhenDone'
  BY <1>1 DEF CompleteWhenDone, xfer, Reliable
<1> QED
  BY <1>1, <1>2, <1>3, <1>4 DEF CacheInv

LEMMA PublishCacheStep ==
  ASSUME TypeInv, CacheInv, RepositoryChanges
  PROVE  CacheInv'
<1> SUFFICES ASSUME Sound' PROVE (\A u \in Url : CachedOK(u))' /\ ResumesOK' /\ CompleteWhenDone'
  BY DEF CacheInv
<1>a. UNCHANGED <<world, calm, disk, stamp, xfer, cmd>>
  BY DEF RepositoryChanges, Publish, PublishDist
<1>b. Sound /\ (\A u \in Url : CachedOK(u)) /\ Tagging' = Tagging
      /\ (world.backend = "curl" => Tagging \/ ~world.rollback)
  BY <1>a DEF CacheInv, Sound, Reliable, Tagging
<1>c. step = "idle"
  BY <1>b DEF RepositoryChanges, Sound, Reliable, TypeInv, TypeOK
<1>d. \A u \in Url : /\ stamp[u] \in Int /\ served[u] \in Int /\ served'[u] \in Int
                     /\ ~world.rollback => served[u] <= served'[u]
  <2>1. served \in [Url -> Version] /\ stamp \in [Url -> Version \union {NoVer}]
        /\ Version \subseteq Int /\ NoVer \in Int
    BY DownloadsOK DEF TypeInv, TypeOK, TransferTypes, Version, NoVer
  <2>2. CASE \E u \in Url : Publish(u)
    <3>1. PICK u \in Url, v \in Version : /\ world.rollback \/ v > served[u]
                                          /\ served' = [served EXCEPT ![u] = v]
      BY <2>2 DEF Publish
    <3> SUFFICES ASSUME NEW x \in Url
                 PROVE  /\ stamp[x] \in Int /\ served[x] \in Int /\ served'[x] \in Int
                        /\ ~world.rollback => served[x] <= served'[x]
      OBVIOUS
    <3>2. stamp[x] \in Int /\ served[x] \in Int /\ v \in Int
      BY <2>1
    <3>3. CASE x = u
      <4>1. served'[x] = v /\ (world.rollback \/ v > served[x])
        BY <2>1, <3>1, <3>3
      <4> QED
        BY <3>2, <4>1
    <3>4. CASE x # u
      <4>1. served'[x] = served[x]
        BY <2>1, <3>1, <3>4
      <4> QED
        BY <3>2, <4>1
    <3> QED
      BY <3>3, <3>4
  <2>3. CASE PublishDist
    <3>1. PICK v \in Version : /\ world.rollback \/ \A u \in DistUrls : v >= served[u]
                               /\ served' = [u \in Url |-> IF u \in DistUrls THEN v ELSE served[u]]
      BY <2>3 DEF PublishDist
    <3> SUFFICES ASSUME NEW u \in Url
                 PROVE  /\ stamp[u] \in Int /\ served[u] \in Int /\ served'[u] \in Int
                        /\ ~world.rollback => served[u] <= served'[u]
      OBVIOUS
    <3>2. stamp[u] \in Int /\ served[u] \in Int /\ v \in Int
      BY <2>1
    <3>3. CASE u \in DistUrls
      <4>1. served'[u] = v /\ (world.rollback \/ v >= served[u])
        BY <3>1, <3>3
      <4> QED
        BY <3>2, <4>1
    <3>4. CASE u \notin DistUrls
      <4>1. served'[u] = served[u]
        BY <3>1, <3>4
      <4> QED
        BY <3>2, <4>1
    <3> QED
      BY <3>3, <3>4
  <2> QED
    BY <2>2, <2>3 DEF RepositoryChanges
<1>1. ASSUME NEW u \in Url PROVE CachedOK(u)'
  <2>1. /\ stamp[u] \in Int /\ served[u] \in Int /\ served'[u] \in Int
        /\ ~world.rollback => served[u] <= served'[u]
    BY <1>d
  <2>2. CachedOK(u)
    BY <1>b
  <2>3. world.backend = "curl" /\ ~world.rollback => stamp[u] <= served[u]
    BY <2>2 DEF CachedOK
  <2>4. world.backend = "curl" /\ ~world.rollback => stamp[u] <= served'[u]
    BY <2>1, <2>3
  <2>5. world.backend = "curl" /\ (Tagging \/ stamp[u] = served'[u]) =>
          Tagging \/ stamp[u] = served[u]
    BY <1>b, <2>1, <2>3
  <2> QED
    BY <1>a, <1>b, <2>2, <2>4, <2>5 DEF CachedOK
<1> QED
  BY <1>1, <1>a, <1>c DEF xfer, ResumesOK, CompleteWhenDone

LEMMA IdleCacheStep ==
  ASSUME TypeInv, CacheInv,
         IdleStep \/ Kill
  PROVE  CacheInv'
<1>a. disk \in Disks /\ (pc = "off" => step = "idle")
  BY DEF TypeInv, TypeOK, TransferTypes, Disks
<1>1. CASE RepositoryChanges
  BY <1>1, PublishCacheStep
<1>2. CASE CalmDown \/ StartUpdate \/ \E s \in Source : StartInstall(s)
  BY <1>2, SameCache DEF CalmDown, StartUpdate, StartInstall
<1>3. CASE CannotStart
  BY <1>a, <1>3, ExitLeaves, LeavesCacheStep DEF CannotStart
<1>4. CASE DieLoading \/ Kill
  BY <1>4, GoneLeaves, LeavesCacheStep DEF DieLoading, Kill
<1>5. CASE Clean
  <2>1. UNCHANGED <<world, served>> /\ step' = "idle"
        /\ \A u \in Url : disk'["cache"][u] = NoFile /\ stamp'[u] = NoVer
    BY <1>a, <1>5 DEF Clean, NoFiles, Disks, Places, xfer
  <2> QED
    BY <2>1, LeavesCacheStep DEF Leaves
<1> QED
  BY <1>1, <1>2, <1>3, <1>4, <1>5 DEF IdleStep

LEMMA CacheStep == TypeInv /\ CacheInv /\ [Next]_vars => CacheInv'
<1> SUFFICES ASSUME TypeInv, CacheInv, [Next]_vars PROVE CacheInv'
  OBVIOUS
<1>1. CASE UNCHANGED vars
  BY <1>1, SameCache DEF vars
<1>2. CASE Proceed
  BY <1>2, TransferCacheStep, DistLeaves, FeedLeaves, LeavesCacheStep
     DEF Proceed, SourceStep, InstallStep
<1> QED
  BY <1>1, <1>2, IdleCacheStep DEF Next, IdleStep

LEMMA InitInv == Init => TypeInv /\ CacheInv
<1> SUFFICES ASSUME Init PROVE TypeInv /\ CacheInv
  OBVIOUS
<1>a. /\ world \in Worlds /\ calm = FALSE /\ served = [u \in Url |-> 1]
      /\ disk = [p \in Places |-> [u \in Url |-> NoFile]]
      /\ stamp = [u \in Url |-> NoVer]
      /\ step = "idle" /\ url = (CHOOSE u \in Url : TRUE) /\ place = "cache" /\ etag = NoVer
      /\ offset = 0
  BY DEF Init, TransferInit
<1>b. /\ command = "update" /\ pc = "off" /\ src = (CHOOSE s \in Source : TRUE)
      /\ todo = {} /\ failed = FALSE /\ expect = NoVer /\ report = "none" /\ walk = NoWalk
  BY DEF Init
<1>c. /\ 1 \in Version /\ Size \in Nat \ {0} /\ 0 \in 0..(Size - 1) /\ NoFile \in Contents
      /\ (CHOOSE u \in Url : TRUE) \in Url /\ (CHOOSE s \in Source : TRUE) \in Source
      /\ "cache" \in Places /\ NoWalk \in [at : Nat, err : BOOLEAN, ret : BOOLEAN]
      /\ NoWalk.at = 1
  BY DownloadsOK, FeedsOK DEF Version, Contents, Places, NoWalk
<1>1. TransferTypes
  BY <1>a, <1>c DEF TransferTypes
<1>2. TypeOK
  BY <1>1, <1>a, <1>b, <1>c DEF TypeOK
<1>3. Engaged /\ Underway
  BY <1>a, <1>b, <1>c DEF Engaged, Underway, Updating, Walking
<1>4. CacheInv
  <2>1. \A u \in Url : disk["cache"][u] = NoFile /\ stamp[u] <= served[u]
    <3>1. 0 <= 1
      OBVIOUS
    <3> QED
      BY <1>a, <1>c, <3>1 DEF NoVer
  <2> QED
    BY <1>a, <2>1 DEF CacheInv, CachedOK, ResumesOK, CompleteWhenDone
<1> QED
  BY <1>2, <1>3, <1>4 DEF TypeInv

\* The types hold; a file of the cache is never made of two versions and curl finds
\* there what its stamp names; a transfer that ends well leaves all of what the
\* server has (opkg_download_internal, check_file_stamp, create_file_stamp).
THEOREM CacheIsSound == Spec => []FeedsInv
<1>1. TypeInv /\ CacheInv => FeedsInv
  <2> SUFFICES ASSUME TypeInv, CacheInv PROVE FeedsInv
    OBVIOUS
  <2>1. CacheIsOneVersion
    BY DEF CacheInv, Sound, CachedOK, Tagging, CacheIsOneVersion
  <2>2. CompleteWhenDone
    BY DEF CacheInv, Sound, CompleteWhenDone
  <2> QED
    BY <2>1, <2>2 DEF TypeInv, FeedsInv
<1> QED
  BY InitInv, TypeStep, CacheStep, <1>1, PTL DEF Spec

(***************************************************************************)
(* Installing.                                                             *)
(***************************************************************************)
\* An update goes on as an update, or is over.
LEMMA UpdateGoesOn ==
  ASSUME TypeInv, DistStep \/ SourceStep
  PROVE  /\ pc # "off" /\ command = "update" /\ command' = "update" /\ report' \notin {"installed"}
         /\ report' = "updated" => FinishUpdate
<1>a. Engaged
  BY DEF TypeInv
<1>1. CASE DistStep
  <2>1. pc \in Walking
    BY <1>1 DEF DistStep, FetchRelease, ReleaseLost, StoreRelease, StoreReleaseFails, FetchList,
       GzListLost, TakeGzList, ListLost, TakeList, TakeListFails, FinishDist, DieOfRelease, Walking
  <2>2. \/ UNCHANGED <<command, report>>
        \/ command' = "update" /\ report' = "killed"
    BY <1>1 DEF DistStep, FetchRelease, ReleaseLost, StoreRelease, StoreReleaseFails, FetchList,
       GzListLost, TakeGzList, ListLost, TakeList, TakeListFails, FinishDist, DieOfRelease,
       Fetch, LeaveDist, NextList, FallBack, GoOn, Gone
  <2> QED
    BY <1>a, <2>1, <2>2 DEF Engaged, Updating, Walking
<1>2. CASE SourceStep
  <2>1. pc \in Updating \/ (pc = "verify" /\ command = "update")
    BY <1>2 DEF SourceStep, NextSource, TransferLost, StoreFeed, StoreFeedFails, CompressList,
       FetchSignature, StoreSignature, VerifyFeed, FinishUpdate, Updating
  <2>2. \/ UNCHANGED <<command, report>>
        \/ FinishUpdate /\ command' = "update" /\ report' \in {"failures", "updated"}
    BY <1>2 DEF SourceStep, NextSource, TransferLost, StoreFeed, StoreFeedFails, CompressList,
       FetchSignature, StoreSignature, VerifyFeed, FinishUpdate,
       Fetch, NextOne, AfterFeed, GoOn, Exit, Gone
  <2> QED
    BY <1>a, <2>1, <2>2 DEF Engaged, Updating, Walking
<1> QED
  BY <1>1, <1>2

\* What the next command would load and verify depends on the lists.
LEMMA SameLists ==
  ASSUME disk'["list"] = disk["list"], disk'["gz"] = disk["gz"], UNCHANGED <<world, src>>
  PROVE  UNCHANGED <<Named(src), Verified>>
<1>1. UNCHANGED Loaded(src)
  BY DEF Loaded
<1> QED
  BY <1>1 DEF Named, Verified

LEMMA BeginListsStay ==
  ASSUME disk \in Disks, NEW u, NEW p \in {"cache", "list"}, BeginOn(disk, u, p)
  PROVE  /\ p = "cache" => disk'["list"] = disk["list"] /\ disk'["gz"] = disk["gz"]
         /\ \A x \in Url : x # u => disk'["list"][x] = disk["list"][x]
  BY DEF BeginOn, Disks, Places

\* While a package is fetched the transfer changes nothing but its file.
LEMMA WorkStays ==
  ASSUME TypeInv, Work
  PROVE  /\ \A x \in Url : x # url => disk'["list"][x] = disk["list"][x]
         /\ place = "cache" => disk'["list"] = disk["list"] /\ disk'["gz"] = disk["gz"]
<1>1. disk \in Disks /\ Transfer /\ place \in Places /\ url \in Url
  BY DEF TypeInv, TypeOK, TransferTypes, Disks, Work
<1>2. UNCHANGED disk \/ \E c : disk' = [disk EXCEPT ![place][url] = c]
  BY <1>1 DEF Transfer, AnswerHead, HeadFails, WriteStamp, StampFails, OpenCached, OpenFails,
     GetAll, GetPart
<1> QED
  BY <1>1, <1>2 DEF Disks, Places

LEMMA FetchingStep ==
  ASSUME TypeInv, InstallInv, Work, command = "install"
  PROVE  InstallInv' /\ ~PackageFits
<1>a. /\ TypeOK /\ Underway /\ pc = "fetch" /\ Transfer /\ UNCHANGED <<cmd, world, url, place>>
      /\ url = pkg(src) /\ place = "cache" /\ Here = Package /\ url \in Url /\ disk \in Disks
      /\ expect \in Version
  BY DEF TypeInv, TypeOK, TransferTypes, Disks, Engaged, Work, InstallInv, Here, Package, Transfer,
     AnswerHead, HeadFails, WriteStamp, StampFails, OpenCached, OpenFails, GetAll, GetPart
<1>b. UNCHANGED <<Named(src), Verified>>
  BY <1>a, WorkStays, SameLists DEF cmd
<1>c. Here' = Package'
  BY <1>a DEF Here, Package, cmd
<1>d. /\ step \in {"head", "stamp", "open"} => Package = NoFile
      /\ step = "get" => Package \in {NoFile, <<>>}
  BY <1>a DEF InstallInv
<1>e. \A c : disk' = [disk EXCEPT ![place][url] = c] => Here' = c
  BY <1>a DEF Here, Disks, Places
<1>1. ~PackageFits
  <2>1. step \in {"head", "stamp", "open", "get"}
    BY <1>a DEF Transfer, AnswerHead, HeadFails, WriteStamp, StampFails, OpenCached, OpenFails,
       GetAll, GetPart
  <2> QED
    BY <1>a, <1>d, <2>1, WholeType DEF PackageFits
<1>2. /\ step' \in {"head", "stamp", "open"} => Package' = NoFile
      /\ step' = "get" => Package' \in {NoFile, <<>>}
  <2>1. CASE AnswerHead
    <3>1. Here = NoFile
      BY <1>a, <1>d, <2>1 DEF AnswerHead
    <3>2. step' = "stamp" /\ disk' = [disk EXCEPT ![place][url] = NoFile]
      BY <2>1, <3>1 DEF AnswerHead, Fresh
    <3> QED
      BY <1>c, <1>e, <3>2
  <2>2. CASE WriteStamp \/ StampFails
    BY <1>a, <1>d, <2>2 DEF WriteStamp, StampFails, Package, cmd
  <2>3. CASE OpenCached
    <3>1. Here = NoFile
      BY <1>a, <1>d, <2>3 DEF OpenCached
    <3>2. disk' = [disk EXCEPT ![place][url] = <<>>] /\ step' \in {"ok", "get"}
      BY <2>3, <3>1 DEF OpenCached
    <3> QED
      BY <1>c, <1>e, <3>2
  <2>4. CASE HeadFails \/ OpenFails \/ GetAll \/ GetPart
    BY <2>4 DEF HeadFails, OpenFails, GetAll, GetPart
  <2> QED
    BY <1>a, <2>1, <2>2, <2>3, <2>4 DEF Transfer
<1>3. InstallInv'
  BY <1>a, <1>b, <1>2 DEF InstallInv, cmd
<1> QED
  BY <1>1, <1>3

LEMMA InstallInvStep == TypeInv /\ InstallInv /\ [Next]_vars => InstallInv'
<1> SUFFICES ASSUME TypeInv, InstallInv, [Next]_vars PROVE InstallInv'
  OBVIOUS
<1>a. TypeOK /\ Engaged /\ disk \in Disks
  BY DEF TypeInv, TypeOK, TransferTypes, Disks
<1>b. UNCHANGED <<world, disk, step, cmd>> => InstallInv'
  <2> SUFFICES ASSUME UNCHANGED <<world, disk, step, cmd>> PROVE InstallInv'
    OBVIOUS
  <2>1. UNCHANGED <<Named(src), Verified, Package>>
    BY SameLists DEF cmd, Package
  <2> QED
    BY <2>1 DEF InstallInv, cmd
<1>c. pc' = "off" \/ command' = "update" => InstallInv'
  BY DEF InstallInv
<1>1. CASE UNCHANGED vars
  BY <1>b, <1>1 DEF vars, xfer
<1>2. CASE IdleStep
  <2>1. CASE RepositoryChanges
    BY <1>b, <2>1 DEF RepositoryChanges, Publish, PublishDist, xfer
  <2>2. CASE CalmDown
    BY <1>b, <2>2 DEF CalmDown, xfer
  <2>3. CASE StartUpdate \/ CannotStart \/ DieLoading \/ Clean
    BY <1>c, <2>3 DEF StartUpdate, CannotStart, DieLoading, Clean, Exit, Gone, cmd
  <2>4. ASSUME NEW s \in Source, StartInstall(s) PROVE InstallInv'
    <3>1. /\ UNCHANGED <<world, disk>> /\ src' = s /\ expect' = Named(s)
          /\ pc' \in {"verify", "package"} /\ (pc' = "package" => ~world.signed)
      BY <2>4 DEF StartInstall
    <3>2. Named(src)' = Named(s)
      BY <3>1 DEF Named, Loaded
    <3> QED
      BY <3>1, <3>2 DEF InstallInv
  <2> QED
    BY <1>2, <2>1, <2>2, <2>3, <2>4 DEF IdleStep
<1>3. CASE Kill
  BY <1>c, <1>3 DEF Kill, Gone
<1>4. CASE Work
  <2>1. CASE command = "install"
    BY <1>4, <2>1, FetchingStep
  <2>2. CASE command = "update"
    BY <1>c, <1>4, <2>2 DEF Work, cmd
  <2> QED
    BY <1>a, <2>1, <2>2 DEF TypeOK
<1>5. CASE DistStep \/ SourceStep
  BY <1>c, <1>5, UpdateGoesOn
<1>6. CASE CheckSource
  <2>1. CASE Verified
    <3>1. /\ command = "install" /\ pc = "verify" /\ pc' = "package"
          /\ UNCHANGED <<world, disk, src, expect, command>>
      BY <1>6, <2>1 DEF CheckSource, GoOn
    <3>2. UNCHANGED <<Named(src), Verified>>
      BY <3>1, SameLists
    <3> QED
      BY <2>1, <3>1, <3>2 DEF InstallInv
  <2>2. CASE ~Verified
    BY <1>c, <1>6, <2>2 DEF CheckSource, Exit, Gone
  <2> QED
    BY <2>1, <2>2
<1>7. CASE FetchPackage
  <2>1. /\ pc = "package" /\ pc' = "fetch" /\ Package = NoFile
        /\ UNCHANGED <<world, src, expect, command>> /\ BeginOn(disk, pkg(src), "cache")
    BY <1>7 DEF FetchPackage, Fetch, Begin
  <2>2. command = "install" /\ pkg(src) \in Url
    BY <1>a, <2>1, WorldType DEF Engaged
  <2>3. disk'["list"] = disk["list"] /\ disk'["gz"] = disk["gz"] /\ Package' = NoFile
    <3>1. disk' = disk \/ disk' = [disk EXCEPT !["cache"][pkg(src)] = NoFile]
      BY <2>1 DEF BeginOn
    <3>2. disk'["cache"][pkg(src)] = NoFile
      BY <1>a, <2>1, <2>2, <3>1 DEF Package, Disks, Places
    <3> QED
      BY <1>a, <2>1, <3>2, BeginListsStay DEF Package
  <2>4. UNCHANGED <<Named(src), Verified>>
    BY <2>1, <2>3, SameLists
  <2> QED
    BY <2>1, <2>2, <2>3, <2>4 DEF InstallInv
<1>8. CASE CheckPackage \/ PackageLost
  BY <1>c, <1>8 DEF CheckPackage, PackageLost, Exit, Gone
<1> QED
  BY <1>1, <1>2, <1>3, <1>4, <1>5, <1>6, <1>7, <1>8
     DEF Next, Proceed, IdleStep, SourceStep

\* Who says how a command ended.
LEMMA Reports ==
  ASSUME TypeInv, InstallInv, [Next]_vars, pc # "off", report' \in {"installed", "updated"}
  PROVE  /\ report' = "installed" => CheckPackage
         /\ report' = "updated" => FinishUpdate
<1>a. Engaged /\ report = "none"
  BY DEF TypeInv, Engaged
<1>1. ~UNCHANGED report
  BY <1>a
<1>2. ~IdleStep
  BY <1>1 DEF IdleStep, RepositoryChanges, Publish, PublishDist, CalmDown, StartUpdate,
     StartInstall, CannotStart, DieLoading, Clean, cmd
<1>3. ~Kill /\ ~Work /\ ~UNCHANGED vars
  BY <1>1 DEF Kill, Gone, Work, vars, cmd
<1>4. ~CheckSource /\ ~FetchPackage /\ ~PackageLost
  BY <1>1 DEF CheckSource, FetchPackage, PackageLost, Fetch, GoOn, Exit, Gone
<1>5. DistStep \/ SourceStep => report' # "installed" /\ (report' = "updated" => FinishUpdate)
  BY UpdateGoesOn
<1>6. CheckPackage => report' # "updated"
  BY DEF CheckPackage, Exit, Gone
<1> QED
  BY <1>2, <1>3, <1>4, <1>5, <1>6 DEF Next, Proceed, IdleStep, SourceStep

LEMMA UnpacksNamedStep == TypeInv /\ InstallInv /\ [Next]_vars => UnpacksNamed
<1> SUFFICES ASSUME TypeInv, InstallInv, [Next]_vars, report' = "installed", pc # "off", ~world.force
             PROVE  /\ Package = Whole(Named(src))
                    /\ world.signed /\ ~world.compress => /\ disk["list"][feed(src)] = Package
                                                           /\ disk["list"][sig(src)] = Package
  BY DEF UnpacksNamed
<1>1. CheckPackage
  BY Reports
<1>2. pc \in {"package", "fetch"} /\ command = "install" /\ expect = Named(src)
      /\ (world.signed => Verified)
  BY <1>1 DEF CheckPackage, TypeInv, Engaged, InstallInv
<1>3. Package = Whole(Named(src))
  BY <1>1, <1>2 DEF CheckPackage, PackageFits, Exit, Gone
<1>4. ASSUME world.signed, ~world.compress
      PROVE  disk["list"][feed(src)] = Package /\ disk["list"][sig(src)] = Package
  <2>1. /\ IsWhole(disk["list"][sig(src)])
        /\ disk["list"][sig(src)] = disk["list"][feed(src)]
        /\ Loaded(src) = disk["list"][feed(src)]
    BY <1>2, <1>4 DEF Verified, Loaded
  <2>2. PICK v \in Version : Loaded(src) = Whole(v)
    BY <2>1 DEF IsWhole
  <2>3. Named(src) = v
    BY <2>2, WholeType DEF Named
  <2> QED
    BY <1>3, <2>1, <2>2, <2>3
<1> QED
  BY <1>3, <1>4

LEMMA KeepsGoodStep == TypeInv /\ InstallInv /\ [Next]_vars => KeepsGood
<1> SUFFICES ASSUME TypeInv, InstallInv, [Next]_vars, command = "install", pc # "off", PackageFits
             PROVE  disk'["cache"][pkg(src)] = Package \/ (world.volatile /\ pc' = "off")
  BY DEF KeepsGood
<1>a. disk \in Disks /\ expect \in Version /\ Package # NoFile
  BY WholeType DEF TypeInv, TypeOK, TransferTypes, Disks, Engaged, PackageFits
<1>b. disk'["cache"] = disk["cache"] => disk'["cache"][pkg(src)] = Package
  BY DEF Package
<1>e. ASSUME NEW r, Exit(r), NEW d, disk' = AtExit(d), d["cache"] = disk["cache"]
      PROVE  disk'["cache"][pkg(src)] = Package \/ (world.volatile /\ pc' = "off")
  BY <1>b, <1>e DEF AtExit, Exit, Gone
<1>1. CASE UNCHANGED vars
  BY <1>b, <1>1 DEF vars
<1>2. CASE IdleStep
  BY <1>b, <1>2 DEF IdleStep, RepositoryChanges, Publish, PublishDist, CalmDown, StartUpdate,
     StartInstall, CannotStart, DieLoading, Clean
<1>3. CASE Kill
  BY <1>b, <1>3 DEF Kill
<1>4. ~Work
  BY FetchingStep
<1>5. ~(DistStep \/ SourceStep)
  BY UpdateGoesOn
<1>6. CASE CheckSource
  <2>1. Unverified["cache"] = disk["cache"]
    BY <1>a DEF Unverified, Disks, Places
  <2> QED
    BY <1>b, <1>e, <1>6, <2>1 DEF CheckSource
<1>7. ~FetchPackage
  BY <1>a DEF FetchPackage
<1>8. CASE CheckPackage
  BY <1>e, <1>8 DEF CheckPackage
<1>9. CASE PackageLost
  BY <1>e, <1>9 DEF PackageLost
<1> QED
  BY <1>1, <1>2, <1>3, <1>4, <1>5, <1>6, <1>7, <1>8, <1>9
     DEF Next, Proceed, IdleStep, SourceStep

\* What `opkg install' unpacks is all of the version that the feed it loaded names,
\* and of a signed feed that it verified; a package that is in the cache as the feed
\* has it stays there (opkg_install_pkg, opkg_download_pkg, pkg_verify).
THEOREM UnpacksWhatFeedSays == Spec => PackageAsFeedSays
<1>1. Init => InstallInv
  BY DEF Init, InstallInv
<1> QED
  BY InitInv, TypeStep, <1>1, InstallInvStep, UnpacksNamedStep, KeepsGoodStep, PTL
     DEF Spec, PackageAsFeedSays, InstallsWhatFeedSays, GoodPackageStays

(***************************************************************************)
(* Updating with signatures.                                               *)
(***************************************************************************)
LEMMA ListStays ==
  ASSUME NEW s, disk'["list"][feed(s)] = disk["list"][feed(s)],
         disk'["list"][sig(s)] = disk["list"][sig(s)], VerifiedList(s)
  PROVE  VerifiedList(s)'
  BY DEF VerifiedList

LEMMA OtherAddress ==
  ASSUME NEW s, NEW t, s # t
  PROVE  feed(s) # feed(t) /\ feed(s) # sig(t) /\ sig(s) # feed(t) /\ sig(s) # sig(t)
  BY DEF feed, sig

\* A step of an update that is at the source src changes no list but its own.
LEMMA AtSourceStep ==
  ASSUME TypeInv, SignedInv, pc \notin Walking \union {"off", "next"}, command = "update",
         UNCHANGED <<world, todo, command>>, pc' \notin Walking,
         \A x \in Url : x \notin {feed(src), sig(src)} => disk'["list"][x] = disk["list"][x],
         ~failed' => ~failed,
         pc' = "next" \/ src' = src,
         pc' = "next" /\ world.signed /\ ~failed' => \A s : s = src => VerifiedList(s)'
  PROVE  SignedInv'
<1> SUFFICES ASSUME world.signed, ~failed', NEW s \in world.sources \ todo, s # src' \/ pc' = "next"
             PROVE  VerifiedList(s)'
  BY DEF SignedInv
<1>1. CASE s = src
  BY <1>1
<1>2. CASE s # src
  <2>1. s \in Source /\ feed(s) \in Url /\ sig(s) \in Url
    BY WorldType DEF TypeInv, World
  <2>2. VerifiedList(s)
    BY <1>2 DEF SignedInv
  <2> QED
    BY <1>2, <2>1, <2>2, OtherAddress, ListStays
<1> QED
  BY <1>1, <1>2

LEMMA SourceSignedStep ==
  ASSUME TypeInv, SignedInv,
         \/ TransferLost \/ StoreFeed \/ StoreFeedFails \/ CompressList
         \/ FetchSignature \/ StoreSignature \/ VerifyFeed
  PROVE  SignedInv'
<1>a. /\ Engaged /\ disk \in Disks /\ src \in Source \union Sublist
      /\ command = "update" /\ pc \notin Walking \union {"off", "next"}
  <2>1. Engaged /\ disk \in Disks /\ src \in Source \union Sublist
    BY DEF TypeInv, TypeOK, TransferTypes, Disks
  <2>2. command = "update"
    BY UpdateGoesOn DEF SourceStep
  <2>3. pc \notin Walking \union {"off", "next"}
    BY DEF TransferLost, StoreFeed, StoreFeedFails, CompressList,
       FetchSignature, StoreSignature, VerifyFeed, Walking
  <2> QED
    BY <2>1, <2>2, <2>3
<1>b. /\ pc = "feed" => url = feed(src)
      /\ pc = "sig" => url = sig(src)
  BY <1>a DEF Engaged
<1>c. "next" \notin Walking /\ "signature" \notin Walking /\ "compress" \notin Walking
      /\ "verify" \notin Walking /\ "sig" \notin Walking
  BY DEF Walking
<1> DEFINE OwnOnly == \A x \in Url : x \notin {feed(src), sig(src)} =>
                        disk'["list"][x] = disk["list"][x]
<1>d. ASSUME NextOne(TRUE), OwnOnly PROVE SignedInv'
  BY <1>a, <1>c, <1>d, AtSourceStep DEF NextOne, GoOn
<1>e. ASSUME NEW p \in {"signature", "compress", "verify"}, GoOn(p, src), UNCHANGED <<failed, walk>>,
             OwnOnly
      PROVE  SignedInv'
  BY <1>a, <1>c, <1>e, AtSourceStep DEF GoOn
<1>f. ASSUME AfterFeed, OwnOnly PROVE SignedInv'
  <2>1. CASE world.signed
    BY <1>e, <1>f, <2>1 DEF AfterFeed
  <2>2. CASE ~world.signed
    BY <1>a, <1>c, <1>f, <2>2, AtSourceStep DEF AfterFeed, NextOne, GoOn
  <2> QED
    BY <2>1, <2>2
<1>g. ASSUME NEW p \in {"list", "gz"}, NEW u \in {feed(src), sig(src)}, NEW c,
             disk' = [disk EXCEPT ![p][u] = c]
      PROVE  OwnOnly
  BY <1>a, <1>g DEF Disks, Places
<1>h. Target \in {"list", "gz"}
  BY DEF Target
<1> HIDE DEF OwnOnly
<1>i. UNCHANGED disk => OwnOnly
  BY DEF OwnOnly
<1>1. CASE TransferLost
  BY <1>d, <1>i, <1>1 DEF TransferLost
<1>2. CASE StoreFeed
  <2>1. OwnOnly
    BY <1>b, <1>g, <1>h, <1>2 DEF StoreFeed
  <2>2. (GoOn("compress", src) /\ UNCHANGED <<failed, walk>>) \/ AfterFeed
    BY <1>2 DEF StoreFeed
  <2> QED
    BY <1>e, <1>f, <2>1, <2>2
<1>3. CASE StoreFeedFails
  <2>1. OwnOnly
    <3>1. pc = "feed" /\ \E c : disk' = [disk EXCEPT ![Target][url] = c]
      BY <1>3 DEF StoreFeedFails
    <3> QED
      BY <1>b, <1>g, <1>h, <3>1
  <2>2. NextOne(TRUE) \/ AfterFeed
    BY <1>3 DEF StoreFeedFails
  <2> QED
    BY <1>d, <1>f, <2>1, <2>2
<1>4. CASE CompressList
  <2>1. \E x, y : disk' = [disk EXCEPT !["gz"][feed(src)] = x, !["list"][feed(src)] = y]
    BY <1>4 DEF CompressList
  <2>2. OwnOnly
    BY <1>a, <2>1 DEF OwnOnly, Disks, Places
  <2> QED
    BY <1>f, <1>4, <2>2 DEF CompressList
<1>5. CASE FetchSignature
  <2>1. /\ BeginOn(disk, sig(src), OwnPlace) /\ OwnPlace \in {"cache", "list"} /\ pc' = "sig"
        /\ UNCHANGED <<world, todo, command, failed, src>>
    BY <1>5 DEF FetchSignature, Fetch, Begin, OwnPlace
  <2>2. OwnOnly
    BY <1>a, <2>1, BeginListsStay DEF OwnOnly
  <2> QED
    BY <1>a, <1>c, <2>1, <2>2, AtSourceStep DEF OwnOnly
<1>6. CASE StoreSignature
  <2>1. OwnOnly
    <3>1. pc = "sig" /\ \E c : disk' = [disk EXCEPT !["list"][url] = c]
      BY <1>6 DEF StoreSignature
    <3> QED
      BY <1>b, <1>g, <3>1
  <2>2. (GoOn("verify", src) /\ UNCHANGED <<failed, walk>>) \/ NextOne(TRUE)
    BY <1>6 DEF StoreSignature
  <2> QED
    BY <1>d, <1>e, <2>1, <2>2
<1>7. CASE VerifyFeed
  <2>1. CASE Verified
    <3>1. UNCHANGED disk /\ GoOn("next", NoSrc) /\ failed' = (failed \/ FALSE)
      BY <1>7, <2>1 DEF VerifyFeed, NextOne
    <3>2. VerifiedList(src)
      BY <2>1 DEF Verified, VerifiedList
    <3>3. ASSUME NEW s, s = src PROVE VerifiedList(s)'
      <4>1. VerifiedList(s)
        BY <3>2, <3>3
      <4> QED
        BY <3>1, <4>1, ListStays
    <3> QED
      BY <1>a, <1>c, <1>i, <3>1, <3>3, AtSourceStep DEF GoOn, OwnOnly
  <2>2. CASE ~Verified
    <3>1. disk' = Unverified /\ NextOne(TRUE)
      BY <1>7, <2>2 DEF VerifyFeed
    <3>2. OwnOnly
      BY <1>a, <3>1 DEF OwnOnly, Unverified, Disks, Places
    <3> QED
      BY <1>d, <3>1, <3>2
  <2> QED
    BY <2>1, <2>2
<1> QED
  BY <1>1, <1>2, <1>3, <1>4, <1>5, <1>6, <1>7

LEMMA SignedInvStep == TypeInv /\ SignedInv /\ [Next]_vars => SignedInv'
<1> SUFFICES ASSUME TypeInv, SignedInv, [Next]_vars PROVE SignedInv'
  OBVIOUS
<1>a. TypeOK /\ Engaged /\ disk \in Disks
  BY DEF TypeInv, TypeOK, TransferTypes, Disks
<1>b. UNCHANGED <<world, disk, cmd>> => SignedInv'
  BY DEF SignedInv, VerifiedList, cmd
<1>c. pc' \notin Walking /\ (pc' = "off" \/ command' = "install") => SignedInv'
  BY DEF SignedInv
<1>d. world.sources \subseteq todo' /\ UNCHANGED world => SignedInv'
  BY DEF SignedInv
<1>o. {"off", "verify", "package", "fetch"} \cap Walking = {}
  BY DEF Walking
<1>1. CASE UNCHANGED vars
  BY <1>b, <1>1 DEF vars
<1>2. CASE IdleStep
  <2>1. CASE RepositoryChanges
    BY <1>b, <2>1 DEF RepositoryChanges, Publish, PublishDist
  <2>2. CASE CalmDown
    BY <1>b, <2>2 DEF CalmDown
  <2>3. CASE StartUpdate
    <3>1. PICK lists \in Sublists : todo' = world.sources \union lists
      BY <2>3 DEF StartUpdate
    <3> QED
      BY <1>d, <2>3, <3>1 DEF StartUpdate
  <2>4. CASE CannotStart \/ DieLoading
    BY <1>c, <1>o, <2>4 DEF CannotStart, DieLoading, Exit, Gone
  <2>5. CASE Clean
    BY <1>c, <1>o, <2>5 DEF Clean, cmd
  <2>6. CASE \E s \in Source : StartInstall(s)
    BY <1>c, <1>o, <2>6 DEF StartInstall
  <2> QED
    BY <1>2, <2>1, <2>2, <2>3, <2>4, <2>5, <2>6 DEF IdleStep
<1>3. CASE Kill
  BY <1>c, <1>o, <1>3 DEF Kill, Gone
<1>4. CASE Work
  <2>0. pc \in Transfers /\ UNCHANGED <<cmd, world>>
    BY <1>4 DEF Work, Transfers, Transfer, AnswerHead, HeadFails, WriteStamp, StampFails,
       OpenCached, OpenFails, GetAll, GetPart
  <2>1. CASE pc \in Walking
    BY <1>d, <2>0, <2>1 DEF SignedInv, cmd
  <2>2. CASE pc = "fetch"
    BY <1>a, <1>c, <1>o, <2>0, <2>2 DEF Engaged, cmd
  <2>3. CASE pc \in {"feed", "sig"}
    <3>1. command = "update" /\ url \in {feed(src), sig(src)} /\ pc \notin Walking \union {"off", "next"}
      BY <1>a, <2>3 DEF Engaged, Updating, Walking
    <3>2. \A x \in Url : x # url => disk'["list"][x] = disk["list"][x]
      BY <1>4, WorkStays
    <3>3. UNCHANGED <<pc, src, todo, failed, command>>
      BY <2>0 DEF cmd
    <3> QED
      BY <2>0, <3>1, <3>2, <3>3, AtSourceStep
  <2> QED
    BY <2>0, <2>1, <2>2, <2>3 DEF Transfers, Walking
<1>5. CASE DistStep
  <2>1. pc \in Walking
    BY <1>5 DEF DistStep, FetchRelease, ReleaseLost, StoreRelease, StoreReleaseFails, FetchList,
       GzListLost, TakeGzList, ListLost, TakeList, TakeListFails, FinishDist, DieOfRelease, Walking
  <2>2. UNCHANGED <<world, todo>> \/ pc' = "off"
    BY <1>5 DEF DistStep, FetchRelease, ReleaseLost, StoreRelease, StoreReleaseFails, FetchList,
       GzListLost, TakeGzList, ListLost, TakeList, TakeListFails, FinishDist, DieOfRelease,
       Fetch, LeaveDist, NextList, FallBack, GoOn, Gone
  <2> QED
    BY <1>c, <1>d, <1>o, <2>1, <2>2 DEF SignedInv
<1>6. CASE SourceStep
  <2>1. ASSUME NEW s \in todo, NextSource(s) PROVE SignedInv'
    <3>1. /\ pc = "next" /\ pc' = "feed" /\ src' = s /\ todo' = todo \ {s}
          /\ BeginOn(disk, feed(s), FeedPlace(s)) /\ FeedPlace(s) \in {"cache", "list"}
          /\ UNCHANGED <<world, command, failed>>
      BY <2>1 DEF NextSource, Begin, FeedPlace
    <3> SUFFICES ASSUME command = "update", world.signed, ~failed,
                        NEW x \in world.sources \ todo', x # s
                 PROVE  VerifiedList(x)'
      BY <3>1 DEF SignedInv, Walking
    <3>2. x \in world.sources \ todo /\ VerifiedList(x)
      BY <3>1 DEF SignedInv
    <3>3. feed(x) \in Url /\ sig(x) \in Url
      BY <1>a, <3>2, WorldType DEF World
    <3>4. \A y \in Url : y # feed(s) => disk'["list"][y] = disk["list"][y]
      BY <1>a, <3>1, BeginListsStay
    <3> QED
      BY <3>2, <3>3, <3>4, OtherAddress, ListStays
  <2>2. CASE FinishUpdate
    BY <1>c, <1>o, <2>2 DEF FinishUpdate, Exit, Gone
  <2> QED
    BY <1>6, <2>1, <2>2, SourceSignedStep DEF SourceStep
<1>7. CASE InstallStep
  <2>1. pc' = "off" \/ (pc' \in {"package", "fetch"} /\ UNCHANGED command /\ command = "install")
    BY <1>a, <1>7 DEF InstallStep, CheckSource, FetchPackage, CheckPackage, PackageLost, Engaged,
       Fetch, GoOn, Exit, Gone
  <2> QED
    BY <1>c, <1>o, <2>1
<1> QED
  BY <1>1, <1>2, <1>3, <1>4, <1>5, <1>6, <1>7
     DEF Next, Proceed, IdleStep, SourceStep, InstallStep

LEMMA LeavesSignedStep == TypeInv /\ InstallInv /\ SignedInv /\ [Next]_vars => LeavesSigned
<1> SUFFICES ASSUME TypeInv, InstallInv, SignedInv, [Next]_vars,
                    report' = "updated", pc # "off", world.signed, NEW s \in world.sources
             PROVE  LET c == disk'["list"][feed(s)] IN IsWhole(c) /\ disk'["list"][sig(s)] = c
  BY DEF LeavesSigned
<1>1. FinishUpdate
  BY Reports
<1>2. pc = "next" /\ todo = {} /\ ~failed /\ disk' = AtExit(disk)
  BY <1>1 DEF FinishUpdate, Exit, Gone
<1>3. command = "update"
  BY <1>1, UpdateGoesOn DEF SourceStep
<1>4. VerifiedList(s)
  BY <1>2, <1>3 DEF SignedInv
<1>5. disk \in Disks
  BY DEF TypeInv, TypeOK, TransferTypes, Disks
<1>6. disk'["list"] = disk["list"]
  BY <1>2, <1>5 DEF AtExit, Disks, Places
<1> QED
  BY <1>4, <1>6 DEF VerifiedList

\* An update that reports success with check_signature set leaves every list all of one
\* version, with the signature of that version beside it (opkg_update_cmd,
\* pkg_src_update, pkg_src_verify).
THEOREM UpdateLeavesSigned == Spec => SignedUpdateDelivers
<1>1. Init => InstallInv /\ SignedInv
  BY DEF Init, InstallInv, SignedInv, Walking
<1> QED
  BY InitInv, TypeStep, <1>1, InstallInvStep, SignedInvStep, LeavesSignedStep, PTL
     DEF Spec, SignedUpdateDelivers

(***************************************************************************)
(* Where nothing breaks off.                                               *)
(***************************************************************************)
Quiet == Faultless /\ "network" \notin world.faults

\* Transfers end well, and what they leave in the cache is whole, but for a file
\* that has only been created.
QuietInv ==
  Quiet => /\ offset = 0 /\ step # "failed"
           /\ \A u \in Url : \/ disk["cache"][u] \in {NoFile, <<>>}
                             \/ IsWhole(disk["cache"][u])
           /\ step = "get" /\ Resumes => Here = <<>>

LEMMA WholeLength ==
  ASSUME TypeOK, NEW c, IsWhole(c)
  PROVE  Len(c) = Size
<1>1. PICK v \in Version : c = Whole(v)
  BY DEF IsWhole
<1>2. Size \in Nat /\ c \in [1..Size -> Version]
  BY <1>1, WorldType DEF Whole
<1> QED
  BY <1>2

LEMMA WorkQuietStep ==
  ASSUME TypeInv, QuietInv, Work
  PROVE  QuietInv'
<1>a. /\ TypeOK /\ Underway /\ Transfer /\ UNCHANGED <<world, served, url, place>>
      /\ disk \in Disks /\ place \in Places /\ url \in Url /\ served[url] \in Version
      /\ Size \in Nat \ {0}
  BY WorldType DEF Work, TypeInv, TypeOK, TransferTypes, Disks, Transfer, AnswerHead, HeadFails,
     WriteStamp, StampFails, OpenCached, OpenFails, GetAll, GetPart
<1>b. Quiet' = Quiet /\ Resumes' = Resumes
  BY <1>a DEF Quiet, Faultless, Reliable, Resumes
<1> SUFFICES ASSUME Quiet
             PROVE  /\ offset' = 0 /\ step' # "failed"
                    /\ \A u \in Url : \/ disk'["cache"][u] \in {NoFile, <<>>}
                                      \/ IsWhole(disk'["cache"][u])
                    /\ step' = "get" /\ Resumes => Here' = <<>>
  BY <1>b DEF QuietInv, IsWhole
<1>c. ~Fault("network") /\ ~Fault("disk") /\ world.sized
  BY DEF Quiet, Faultless, Fault
<1>d. /\ offset = 0
      /\ \A u \in Url : disk["cache"][u] \in {NoFile, <<>>} \/ IsWhole(disk["cache"][u])
      /\ step = "get" /\ Resumes => Here = <<>>
  BY DEF QuietInv
\* One file changes.
<1>e. ASSUME NEW c, disk' = [disk EXCEPT ![place][url] = c], c \in {NoFile, <<>>} \/ IsWhole(c)
      PROVE  /\ \A u \in Url : disk'["cache"][u] \in {NoFile, <<>>} \/ IsWhole(disk'["cache"][u])
             /\ Here' = c
  <2>1. \A u \in Url : disk'["cache"][u] \in {disk["cache"][u], c}
    BY <1>a, <1>e DEF Disks, Places
  <2>2. Here' = c
    BY <1>a, <1>e DEF Here, Disks
  <2> QED
    BY <1>d, <1>e, <2>1, <2>2
<1>1. CASE AnswerHead
  <2>1. /\ step' \in {"open", "stamp"} /\ offset' = offset
        /\ UNCHANGED disk \/ disk' = [disk EXCEPT ![place][url] = NoFile]
    BY <1>1 DEF AnswerHead
  <2> QED
    BY <1>d, <1>e, <2>1
<1>2. CASE WriteStamp
  BY <1>d, <1>2 DEF WriteStamp
<1>3. CASE OpenCached
  <2> DEFINE c == IF Here = NoFile THEN <<>> ELSE Here
  <2>1. /\ step = "open" /\ disk' = [disk EXCEPT ![place][url] = c]
        /\ \/ step' = "ok" /\ UNCHANGED offset
           \/ ~Enough(c) /\ step' = "get" /\ offset' = Len(c)
    BY <1>3 DEF OpenCached
  <2>2. place = "cache"
    BY <1>a, <2>1 DEF Underway, Resumes
  <2>3. c = <<>> \/ IsWhole(c)
    BY <1>a, <1>d, <2>2 DEF Here
  <2>4. ~Enough(c) => c = <<>>
    <3>1. IsWhole(c) => Len(c) = Size
      BY <1>a, WholeLength
    <3>2. Size >= Size
      BY <1>a
    <3> QED
      BY <1>c, <2>3, <3>1, <3>2 DEF Enough
  <2> HIDE DEF c
  <2>5. Len(<<>>) = 0
    OBVIOUS
  <2> QED
    BY <1>d, <1>e, <2>1, <2>3, <2>4, <2>5
<1>4. CASE GetAll
  <2>1. step = "get" /\ disk' = [disk EXCEPT ![place][url] = Received(Size - Skipped)]
        /\ UNCHANGED offset /\ (Skipped = 0 => step' = "ok")
    BY <1>4 DEF GetAll
  <2>2. Skipped = 0 /\ Kept = <<>>
    BY <1>d, <2>1 DEF Skipped, Kept
  <2>3. Received(Size) = Whole(served[url])
    <3>1. Len(Kept) = 0
      BY <2>2
    <3>2. \A i \in 1..Size : ~(i <= 0)
      BY <1>a
    <3> QED
      BY <3>1, <3>2 DEF Received, Whole
  <2>4. Size - Skipped = Size
    BY <1>a, <2>2
  <2>5. IsWhole(Received(Size - Skipped))
    BY <1>a, <2>3, <2>4 DEF IsWhole
  <2> QED
    BY <1>d, <1>e, <2>1, <2>2, <2>5
<1>5. ~HeadFails /\ ~StampFails /\ ~OpenFails /\ ~GetPart
  BY <1>c DEF HeadFails, StampFails, OpenFails, GetPart
<1> QED
  BY <1>a, <1>1, <1>2, <1>3, <1>4, <1>5 DEF Transfer

LEMMA OffsetKept ==
  ASSUME DistStep \/ SourceStep \/ InstallStep
  PROVE  offset' \in {offset, 0}
<1>1. CASE DistStep
  BY <1>1 DEF DistStep, FetchRelease, ReleaseLost, StoreRelease, StoreReleaseFails, FetchList,
     GzListLost, TakeGzList, ListLost, TakeList, TakeListFails, FinishDist, DieOfRelease,
     Fetch, Begin, BeginOn, LeaveDist, NextList, FallBack, GoOn, Gone
<1>2. CASE SourceStep
  BY <1>2 DEF SourceStep, NextSource, TransferLost, StoreFeed, StoreFeedFails, CompressList,
     FetchSignature, StoreSignature, VerifyFeed, FinishUpdate,
     Fetch, Begin, BeginOn, NextOne, AfterFeed, GoOn, Exit, Gone
<1>3. CASE InstallStep
  BY <1>3 DEF InstallStep, CheckSource, FetchPackage, CheckPackage, PackageLost,
     Fetch, Begin, BeginOn, GoOn, Exit, Gone
<1> QED
  BY <1>1, <1>2, <1>3

LEMMA LeavesQuiet ==
  ASSUME QuietInv, Leaves, offset' \in {offset, 0}
  PROVE  QuietInv'
<1>1. Quiet' = Quiet
  BY DEF Leaves, Quiet, Faultless, Reliable
<1>2. \A u \in Url : disk'["cache"][u] \in {disk["cache"][u], NoFile}
  BY DEF Leaves
<1>3. step' # "failed" /\ ~(step' = "get" /\ Resumes')
  BY DEF Leaves
<1> QED
  BY <1>1, <1>2, <1>3 DEF QuietInv, IsWhole

LEMMA QuietInvStep == TypeInv /\ QuietInv /\ [Next]_vars => QuietInv'
<1> SUFFICES ASSUME TypeInv, QuietInv, [Next]_vars PROVE QuietInv'
  OBVIOUS
<1>a. disk \in Disks /\ (pc = "off" => step = "idle")
  BY DEF TypeInv, TypeOK, TransferTypes, Disks
<1>b. UNCHANGED <<world, disk, xfer>> => QuietInv'
  BY DEF QuietInv, Quiet, Faultless, Reliable, Resumes, Here, IsWhole, xfer
<1>1. CASE UNCHANGED vars
  BY <1>b, <1>1 DEF vars
<1>2. CASE IdleStep
  <2>1. CASE RepositoryChanges \/ CalmDown \/ StartUpdate \/ \E s \in Source : StartInstall(s)
    BY <1>b, <2>1 DEF RepositoryChanges, Publish, PublishDist, CalmDown, StartUpdate, StartInstall
  <2>2. CASE CannotStart
    BY <1>a, <2>2, ExitLeaves, LeavesQuiet DEF CannotStart, Exit, Gone
  <2>3. CASE DieLoading
    BY <2>3, GoneLeaves, LeavesQuiet DEF DieLoading, Gone
  <2>4. CASE Clean
    <3>1. UNCHANGED <<world, served, offset>> /\ step' = "idle"
          /\ \A u \in Url : disk'["cache"][u] = NoFile /\ stamp'[u] = NoVer
      BY <1>a, <2>4 DEF Clean, NoFiles, Disks, Places, xfer
    <3> QED
      BY <3>1, LeavesQuiet DEF Leaves
  <2> QED
    BY <1>2, <2>1, <2>2, <2>3, <2>4 DEF IdleStep
<1>3. CASE Kill
  BY <1>3, GoneLeaves, LeavesQuiet DEF Kill, Gone
<1>4. CASE Work
  BY <1>4, WorkQuietStep
<1>5. CASE DistStep \/ SourceStep \/ InstallStep
  BY <1>5, OffsetKept, DistLeaves, FeedLeaves, LeavesQuiet
<1> QED
  BY <1>1, <1>2, <1>3, <1>4, <1>5 DEF Next, Proceed, IdleStep, SourceStep, InstallStep

(***************************************************************************)
(* Updating where nothing is downloaded from the middle.                   *)
(***************************************************************************)
\* Where a transfer may find part of a file in the cache though that is volatile.
Resuming == /\ world.backend = "curl" /\ world.volatile
            /\ \/ world.kills
               \/ world.dist /\ world.distgz /\ ~(ListsDiffer /\ Faultless)

\* The compressed lists that the walk has come to.
GzTried(u) == /\ world.distgz
              /\ \E n \in 1..ListCount : /\ u = gz(ListAt(n))
                                         /\ n < walk.at \/ (n = walk.at /\ pc # "lists")

\* Where nothing is resumed, only lists that the walk has come to are in the cache.
DirectCache ==
  /\ pc \in Walking \ {"gzlist"} /\ step # "idle" => place = "list"
  /\ pc \in {"off", "dist", "release"} => \A u \in Url : disk["cache"][u] = NoFile
  /\ pc \in Listing => \A u \in Url : disk["cache"][u] = NoFile \/ GzTried(u)
  /\ pc # "off" /\ command = "update" => \A s \in todo : disk["cache"][feed(s)] = NoFile
  /\ step \in {"head", "stamp", "open"} => Here = NoFile
  /\ pc \in Listing /\ world.distgz => IsWhole(ReleaseFile)

\* The transfers of a process that may not resume start at the first block, and an
\* update is not at a source that it has yet to come to.
HandleInv ==
  /\ command = "update" /\ pc \in {"feed", "compress", "signature", "sig", "verify"} =>
       src \notin todo
  /\ pc = "compress" => world.compress
  /\ pc \in Walking => world.dist
  /\ pc = "gzlist" => world.distgz
  /\ ~Resuming =>
       /\ world.backend = "wget" \/ world.volatile => offset = 0
       /\ step # "idle" /\ ~world.volatile => place = "cache"
       /\ world.backend = "curl" /\ world.volatile => DirectCache

\* The feeds of the sources an update has been through, if nothing failed, are what
\* is served.
DeliveredFeed(s) == Loaded(s) = Whole(served[feed(s)])
DeliverInv ==
  Faultless /\ ~HandleReused /\ pc # "off" /\ command = "update" /\ ~failed =>
    /\ \A s \in world.sources \ todo :
         s # src \/ pc \in {"next", "signature", "sig", "verify"} => DeliveredFeed(s)
    /\ pc = "compress" => disk["list"][feed(src)] = Whole(served[feed(src)])

LEMMA WorldStays == [Next]_vars => UNCHANGED world
  BY DEF Next, vars, RepositoryChanges, Publish, PublishDist, CalmDown, StartUpdate, StartInstall,
     CannotStart, DieLoading, Clean, Kill, Proceed, Work, Transfer, AnswerHead, HeadFails,
     WriteStamp, StampFails, OpenCached, OpenFails, GetAll, GetPart, DistStep, FetchRelease,
     ReleaseLost, StoreRelease, StoreReleaseFails, FetchList, GzListLost, TakeGzList, ListLost,
     TakeList, TakeListFails, FinishDist, DieOfRelease, NextSource, TransferLost, StoreFeed,
     StoreFeedFails, CompressList, FetchSignature, StoreSignature, VerifyFeed, FinishUpdate,
     CheckSource, FetchPackage, CheckPackage, PackageLost, Fetch, LeaveDist, NextList, FallBack,
     NextOne, AfterFeed, GoOn, Gone

\* What is said of a world does not change.
LEMMA SameConditions ==
  ASSUME UNCHANGED world
  PROVE  /\ UNCHANGED ListCount /\ \A n : ListAt(n)' = ListAt(n)
         /\ Faultless' = Faultless /\ HandleReused' = HandleReused
         /\ ListsDiffer' = ListsDiffer
<1>1. UNCHANGED ListCount /\ \A n : ListAt(n)' = ListAt(n)
  BY DEF ListCount, ListAt
<1>2. ListsDiffer' = ListsDiffer
  BY <1>1 DEF ListsDiffer
<1> QED
  BY <1>1, <1>2 DEF HandleReused, Faultless, Reliable

LEMMA SameResuming ==
  ASSUME UNCHANGED world
  PROVE  Resuming' = Resuming /\ UNCHANGED ListCount /\ \A n : ListAt(n)' = ListAt(n)
  BY SameConditions DEF Resuming

\* Steps at which a process keeps its handle and what is in the cache.
LEMMA HandleKept ==
  ASSUME TypeInv, HandleInv, UNCHANGED <<world, offset, command, todo>>, pc # "off", pc' # "off",
         disk'["cache"] = disk["cache"], step' = "idle",
         pc' \notin Walking,
         pc' = "compress" => world.compress,
         command = "update" /\ pc' \in {"compress", "signature", "sig", "verify"} =>
           src' = src /\ pc \in {"feed", "compress", "signature", "sig", "verify"},
         pc' # "feed"
  PROVE  HandleInv'
<1>1. Resuming' = Resuming
  BY SameResuming
<1>2. DirectCache => DirectCache'
  BY DEF DirectCache, Walking, Listing
<1> QED
  BY <1>1, <1>2 DEF HandleInv, Walking

\* Steps that end a process and, with it, what its volatile cache holds.
LEMMA HandleGone ==
  ASSUME HandleInv, UNCHANGED world, pc' = "off", step' = "idle", offset' = 0,
         ~Resuming /\ world.backend = "curl" /\ world.volatile =>
           \A u \in Url : disk'["cache"][u] = NoFile
  PROVE  HandleInv'
<1>1. Resuming' = Resuming
  BY SameResuming
<1> QED
  BY <1>1 DEF HandleInv, DirectCache, Walking, Listing

LEMMA ExitHandle ==
  ASSUME HandleInv, NEW r, Exit(r), NEW d \in Disks, disk' = AtExit(d), UNCHANGED world
  PROVE  HandleInv'
<1>1. world.volatile => \A u \in Url : disk'["cache"][u] = NoFile
  BY DEF AtExit, NoFiles, Disks, Places
<1> QED
  BY <1>1, HandleGone DEF Exit, Gone, Rest

LEMMA WorkHandleStep ==
  ASSUME TypeInv, HandleInv, Work
  PROVE  HandleInv'
<1>a. /\ TypeOK /\ Engaged /\ Underway /\ Transfer /\ pc \in Transfers /\ step # "idle"
      /\ UNCHANGED <<cmd, world, url, place>> /\ disk \in Disks /\ url \in Url /\ step' # "idle"
      /\ NoFile \in Contents
  BY DEF TypeInv, TypeOK, TransferTypes, Disks, Contents, Work, Transfers, Transfer,
     AnswerHead, HeadFails, WriteStamp, StampFails, OpenCached, OpenFails, GetAll, GetPart
<1>b. /\ UNCHANGED <<command, pc, src, todo, walk, ListCount>> /\ Resuming' = Resuming
      /\ \A n : ListAt(n)' = ListAt(n)
      /\ UNCHANGED disk \/ \E c : disk' = [disk EXCEPT ![place][url] = c]
  BY <1>a, SameResuming DEF cmd, Transfer, AnswerHead, HeadFails, WriteStamp, StampFails, OpenCached,
     OpenFails, GetAll, GetPart
<1>d. world.backend = "wget" /\ ~Resuming => offset' = 0
  <2>1. world.backend = "wget" /\ ~Resuming => offset = 0 /\ step \notin {"head", "stamp", "open"}
    BY <1>a DEF HandleInv, Underway, Resumes
  <2> QED
    BY <1>a, <2>1 DEF Transfer, AnswerHead, HeadFails, WriteStamp, StampFails, OpenCached,
       OpenFails, GetAll, GetPart
<1>w. world.backend \in {"wget", "curl"}
  BY <1>a, WorldType DEF World
<1> SUFFICES ASSUME ~Resuming, world.backend = "curl", world.volatile
             PROVE  offset' = 0 /\ DirectCache'
  BY <1>a, <1>b, <1>d, <1>w DEF HandleInv
<1>c. offset = 0 /\ DirectCache
  BY DEF HandleInv
<1>e. offset' = 0
  <2>1. CASE OpenCached
    <3>1. Here = NoFile
      BY <1>c, <2>1 DEF OpenCached, DirectCache
    <3>2. offset' = offset \/ offset' = Len(<<>>)
      BY <2>1, <3>1 DEF OpenCached
    <3> QED
      BY <1>c, <3>2
  <2>2. CASE ~OpenCached
    BY <1>a, <1>c, <2>2 DEF Transfer, AnswerHead, HeadFails, WriteStamp, StampFails,
       OpenFails, GetAll, GetPart
  <2> QED
    BY <2>1, <2>2
<1>f. ASSUME command = "update", NEW s \in todo
      PROVE  disk'["cache"][feed(s)] = NoFile
  <2>1. place = "list" \/ url # feed(s)
    <3>1. CASE pc \in Walking \ {"gzlist"}
      BY <1>a, <1>c, <3>1 DEF DirectCache
    <3>2. CASE pc = "gzlist"
      BY <1>a, <3>2 DEF Engaged, gz, feed
    <3>3. CASE pc \in {"feed", "sig"}
      <4>1. url \in {feed(src), sig(src)} /\ src # s
        BY <1>a, <1>f, <3>3 DEF Engaged, HandleInv
      <4> QED
        BY <4>1, OtherAddress
    <3> QED
      BY <1>a, <1>f, <3>1, <3>2, <3>3 DEF Transfers, Walking, Engaged
  <2>2. feed(s) \in Url /\ disk["cache"][feed(s)] = NoFile
    BY <1>a, <1>c, <1>f, SourcesType DEF DirectCache, Transfers
  <2> QED
    BY <1>a, <1>b, <2>1, <2>2 DEF Disks, Places
<1>g. ASSUME step' \in {"head", "stamp", "open"}
      PROVE  Here' = NoFile
  <2>1. step \in {"head", "stamp", "open"}
    BY <1>a, <1>g DEF Transfer, AnswerHead, HeadFails, WriteStamp, StampFails, OpenCached,
       OpenFails, GetAll, GetPart
  <2>2. Here = NoFile
    BY <1>c, <2>1 DEF DirectCache
  <2>3. UNCHANGED disk \/ disk' = [disk EXCEPT ![place][url] = NoFile]
    BY <1>a, <1>g, <2>1 DEF Transfer, AnswerHead, HeadFails, WriteStamp, StampFails, OpenCached,
       OpenFails, GetAll, GetPart
  <2> QED
    BY <1>a, <2>2, <2>3 DEF Here, Disks, TypeOK, TransferTypes
\* What comes into the cache is a list of the walk.
<1>h. \A u \in Url : disk'["cache"][u] = disk["cache"][u] \/ (place = "cache" /\ u = url)
  BY <1>a, <1>b DEF Disks, Places
<1>i. ASSUME pc = "release", NEW u \in Url PROVE disk'["cache"][u] = NoFile
  <2>1. disk["cache"][u] = NoFile /\ place = "list"
    BY <1>a, <1>c, <1>i DEF DirectCache, Walking
  <2> QED
    BY <1>h, <2>1
<1>j. ASSUME pc \in Listing, NEW u \in Url PROVE disk'["cache"][u] = NoFile \/ GzTried(u)
  <2>1. disk["cache"][u] = NoFile \/ GzTried(u)
    BY <1>c, <1>j DEF DirectCache
  <2>2. ASSUME place = "cache", u = url PROVE GzTried(u)
    <3>1. pc = "gzlist"
      BY <1>a, <1>c, <1>j, <2>2 DEF DirectCache, Listing, Walking
    <3>2. walk.at \in 1..ListCount
      BY <1>a, <3>1 DEF Engaged, TypeOK
    <3> QED
      BY <1>a, <2>2, <3>1, <3>2 DEF GzTried, HandleInv, Engaged, Current
  <2> QED
    BY <1>h, <2>1, <2>2
<1>k. pc \in Listing => ReleaseFile' = ReleaseFile
  <2>1. pc \in Listing => url # Release
    BY <1>a DEF Listing, Transfers, Engaged, Release, feed, gz
  <2>2. Release \in Url
    BY <1>a, WorldType
  <2> QED
    BY <1>a, <1>b, <2>1, <2>2 DEF ReleaseFile, Disks, Places
<1>l. \A u : GzTried(u)' = GzTried(u)
  BY <1>a, <1>b DEF GzTried
<1> QED
  BY <1>a, <1>b, <1>c, <1>e, <1>f, <1>g, <1>i, <1>j, <1>k, <1>l DEF DirectCache, Transfers, IsWhole

LEMMA DistHandleStep ==
  ASSUME TypeInv, CacheInv, HandleInv, DistStep
  PROVE  HandleInv'
<1>a. /\ pc \in Walking /\ command = "update" /\ UNCHANGED world /\ OwnPlace \in {"cache", "list"}
      /\ world.dist /\ TypeOK /\ disk \in Disks /\ Release \in Url
      /\ \A s \in todo : feed(s) \in Url
      /\ Resuming' = Resuming /\ UNCHANGED ListCount /\ \A n : ListAt(n)' = ListAt(n)
  <2>1. pc \in Walking /\ command = "update" /\ UNCHANGED world /\ OwnPlace \in {"cache", "list"}
    BY UpdateGoesOn, WorldStays DEF DistStep, FetchRelease, ReleaseLost, StoreRelease,
       StoreReleaseFails, FetchList, GzListLost, TakeGzList, ListLost, TakeList, TakeListFails,
       FinishDist, DieOfRelease, Walking, Next, Proceed, OwnPlace
  <2>2. TypeOK /\ disk \in Disks /\ Release \in Url /\ \A s \in todo : feed(s) \in Url
    BY SourcesType, WorldType DEF TypeInv, TypeOK, TransferTypes, Disks
  <2>3. Resuming' = Resuming /\ UNCHANGED ListCount /\ \A n : ListAt(n)' = ListAt(n)
    BY <2>1, SameResuming
  <2> QED
    BY <2>1, <2>2, <2>3 DEF HandleInv
<1>b. /\ pc' \in Walking \union {"next", "off"}
      /\ pc' = "off" => DieOfRelease
      /\ offset' \in {offset, 0}
      /\ step' # "idle" /\ ~world.volatile => place' = "cache"
      /\ pc' = "gzlist" => world.distgz
  BY <1>a DEF DistStep, FetchRelease, ReleaseLost, StoreRelease,
     StoreReleaseFails, FetchList, GzListLost, TakeGzList, ListLost, TakeList, TakeListFails,
     FinishDist, DieOfRelease, Walking, Fetch, Begin, BeginOn, LeaveDist, NextList, FallBack, GoOn,
     Gone, Rest, OwnPlace
<1>d. \A u \in Url : disk'["cache"][u] \in {disk["cache"][u], NoFile}
  BY DistLeaves DEF Leaves
<1>1. CASE pc' = "off"
  <2>1. DieOfRelease
    BY <1>b, <1>1
  <2>2. pc \in Listing /\ ~IsWhole(ReleaseFile) /\ UNCHANGED disk /\ offset' = 0 /\ step' = "idle"
    BY <2>1 DEF DieOfRelease, MayDieOf, Gone, Rest, Listing
  <2>3. ~Resuming /\ world.backend = "curl" /\ world.volatile =>
          \A u \in Url : disk'["cache"][u] = NoFile
    BY <2>2 DEF HandleInv, DirectCache, GzTried
  <2> QED
    BY <1>a, <1>1, <2>2, <2>3, HandleGone
<1>2. CASE pc' # "off"
  <2> SUFFICES ASSUME ~Resuming, world.backend = "curl", world.volatile
               PROVE  DirectCache'
    BY <1>a, <1>b, <1>2 DEF HandleInv, Walking
  <2>a. DirectCache /\ OwnPlace = "list" /\ offset = 0 /\ (world.distgz => ListsDiffer /\ Faultless)
    BY <1>a DEF HandleInv, OwnPlace, Resuming
  <2>b. UNCHANGED todo
    BY <1>2 DEF DistStep, FetchRelease, ReleaseLost, StoreRelease, StoreReleaseFails, FetchList,
       GzListLost, TakeGzList, ListLost, TakeList, TakeListFails, FinishDist, DieOfRelease,
       Fetch, LeaveDist, NextList, FallBack, GoOn, Gone
  <2>c. \A s \in todo' : disk'["cache"][feed(s)] = NoFile
    BY <1>a, <1>d, <2>a, <2>b DEF DirectCache, Walking
  <2>d. ASSUME NEW u, GzTried(u), pc' \in Listing, walk'.at = walk.at \/ walk'.at = walk.at + 1,
               pc' = "lists" => pc = "lists" \/ walk'.at = walk.at + 1
        PROVE  GzTried(u)'
    <3>1. PICK n \in 1..ListCount : /\ world.distgz /\ u = gz(ListAt(n))
                                    /\ n < walk.at \/ (n = walk.at /\ pc # "lists")
      BY <2>d DEF GzTried
    <3>2. walk.at \in Nat /\ n \in Nat /\ gz(ListAt(n))' = gz(ListAt(n))
      BY <1>a DEF TypeOK, gz
    <3>3. n < walk'.at \/ (n = walk'.at /\ pc' # "lists")
      BY <2>d, <3>1, <3>2
    <3> QED
      BY <1>a, <3>1, <3>2, <3>3 DEF GzTried
  \* A step among the lists that leaves the Release file alone.
  <2>e. ASSUME pc \in Listing, pc' \in Listing, walk'.at = walk.at \/ walk'.at = walk.at + 1,
               pc' = "lists" => pc = "lists" \/ walk'.at = walk.at + 1,
               ReleaseFile' = ReleaseFile,
               step' # "idle" => pc' = "gzlist" \/ (place' = "list" /\ step' = "get"),
               step' = "head" => Here' = NoFile, step' \in {"idle", "head", "get"}
        PROVE  DirectCache'
    <3>1. \A u \in Url : disk'["cache"][u] = NoFile \/ GzTried(u)'
      BY <1>d, <2>a, <2>d, <2>e DEF DirectCache
    <3> QED
      BY <1>a, <2>a, <2>c, <2>e, <3>1 DEF DirectCache, Listing, Walking, IsWhole
  <2>f. ASSUME pc' = "next", step' = "idle" PROVE DirectCache'
    BY <2>c, <2>f DEF DirectCache, Walking, Listing
  <2>g. \A x : Release # feed(x)
    BY DEF Release, feed
  <2>1. CASE FetchRelease
    <3>1. pc = "dist" /\ pc' = "release" /\ place' = "list" /\ step' = "get"
      BY <2>a, <2>1 DEF FetchRelease, Fetch, Begin, BeginOn
    <3> QED
      BY <1>d, <2>a, <2>c, <3>1 DEF DirectCache, Listing
  <2>2. CASE ReleaseLost \/ StoreReleaseFails \/ FinishDist
    BY <2>f, <2>2 DEF ReleaseLost, StoreReleaseFails, FinishDist, LeaveDist, GoOn, Rest
  <2>3. CASE StoreRelease
    <3>1. CASE world.supported
      <4>1. /\ pc = "release" /\ step = "ok" /\ pc' = "lists" /\ step' = "idle"
            /\ disk' = [disk EXCEPT !["list"][Release] = Here]
        BY <2>3, <3>1 DEF StoreRelease, GoOn, Rest
      <4>2. world.distgz => IsWhole(Here)
        <5>1. Skipped = 0
          BY <2>a DEF Skipped
        <5>2. served[url] \in Version
          BY <1>a DEF TypeOK, TransferTypes
        <5> QED
          BY <2>a, <4>1, <5>1, <5>2 DEF CacheInv, Sound, Faultless, CompleteWhenDone, IsWhole
      <4>3. ReleaseFile' = Here
        BY <1>a, <4>1 DEF ReleaseFile, Disks, Places
      <4> QED
        BY <1>a, <1>d, <2>a, <2>c, <4>1, <4>2, <4>3 DEF DirectCache, IsWhole
    <3>2. CASE ~world.supported
      BY <2>f, <2>3, <3>2 DEF StoreRelease, LeaveDist, GoOn, Rest
    <3> QED
      BY <3>1, <3>2
  <2>4. CASE FetchList
    <3>1. /\ pc = "lists" /\ walk.at <= ListCount /\ UNCHANGED walk
          /\ \/ world.distgz /\ BeginOn(disk, gz(Current), "cache") /\ pc' = "gzlist"
             \/ BeginOn(disk, feed(Current), "list") /\ pc' = "list"
      BY <2>a, <2>4 DEF FetchList, Fetch, Begin
    <3>2. CASE world.distgz /\ BeginOn(disk, gz(Current), "cache") /\ pc' = "gzlist"
      <4>1. step' = "head" /\ disk' = disk /\ place' = "cache" /\ url' = gz(Current)
        BY <3>2 DEF BeginOn
      <4>2. walk.at \in 1..ListCount /\ walk.at \in Nat
        BY <1>a, <3>1 DEF TypeInv, Engaged, TypeOK
      <4>3. ~GzTried(gz(Current))
        <5> SUFFICES ASSUME NEW n \in 1..ListCount, gz(Current) = gz(ListAt(n)), n < walk.at
                     PROVE  FALSE
          BY <3>1 DEF GzTried
        <5>1. ListAt(n) = ListAt(walk.at)
          BY DEF gz, Current
        <5>2. n = walk.at
          BY <2>a, <3>2, <4>2, <5>1 DEF ListsDiffer
        <5> QED
          BY <4>2, <5>2
      <4>4. gz(Current) \in Url
        BY <1>a, <4>2, ListAtType, WorldType DEF Current
      <4>5. disk["cache"][gz(Current)] = NoFile
        BY <2>a, <3>1, <4>3, <4>4 DEF DirectCache, Listing
      <4> QED
        BY <2>e, <3>1, <3>2, <4>1, <4>5 DEF Listing, Here, ReleaseFile
    <3>3. CASE BeginOn(disk, feed(Current), "list") /\ pc' = "list"
      <4>1. step' = "get" /\ place' = "list" /\ ReleaseFile' = ReleaseFile
        BY <1>a, <2>g, <3>3 DEF BeginOn, ReleaseFile, Disks, Places
      <4> QED
        BY <2>e, <3>1, <3>3, <4>1 DEF Listing
    <3> QED
      BY <3>1, <3>2, <3>3
  <2>5. ASSUME NEW c, NEW d, disk' = d, d \in {disk, [disk EXCEPT !["list"][feed(Current)] = c]},
               NEW err, NextList(err), pc \in {"gzlist", "list"}
        PROVE  DirectCache'
    <3>1. pc' = "lists" /\ step' = "idle" /\ walk'.at = walk.at + 1
      BY <2>5 DEF NextList, GoOn, Rest
    <3>2. ReleaseFile' = ReleaseFile
      BY <1>a, <2>5, <2>g DEF ReleaseFile, Disks, Places
    <3> QED
      BY <2>5, <2>e, <3>1, <3>2 DEF Listing
  <2>6. ASSUME NEW c, NEW d, d \in {disk, [disk EXCEPT !["list"][feed(Current)] = c]},
               FallBack(d), pc = "gzlist"
        PROVE  DirectCache'
    <3>1. pc' = "list" /\ step' = "get" /\ place' = "list" /\ walk'.at = walk.at
          /\ disk' = [d EXCEPT !["list"][feed(Current)] = NoFile]
      BY <2>6, <2>a DEF FallBack, BeginOn
    <3>2. ReleaseFile' = ReleaseFile
      BY <1>a, <2>6, <2>g, <3>1 DEF ReleaseFile, Disks, Places
    <3> QED
      BY <1>a, <2>6, <2>e, <3>1, <3>2 DEF Listing
  <2>7. CASE GzListLost
    BY <2>5, <2>6, <2>7 DEF GzListLost
  <2>8. CASE TakeGzList
    BY <2>5, <2>6, <2>8 DEF TakeGzList
  <2>9. CASE ListLost
    BY <2>5, <2>9 DEF ListLost
  <2>10. CASE TakeList \/ TakeListFails
    <3>1. pc = "list" => url = feed(Current)
      BY DEF TypeInv, Engaged
    <3>2. pc = "list" /\ \E err : NextList(err)
      BY <2>10 DEF TakeList, TakeListFails
    <3>3. \E c : disk' = [disk EXCEPT !["list"][url] = c]
      BY <2>10 DEF TakeList, TakeListFails
    <3> QED
      BY <2>5, <3>1, <3>2, <3>3
  <2>11. ~DieOfRelease
    BY <1>2 DEF DieOfRelease, Gone
  <2> QED
    BY <2>1, <2>2, <2>3, <2>4, <2>7, <2>8, <2>9, <2>10, <2>11 DEF DistStep
<1> QED
  BY <1>1, <1>2

LEMMA SourceHandleStep ==
  ASSUME TypeInv, HandleInv, SourceStep
  PROVE  HandleInv'
<1>a. /\ TypeOK /\ Engaged /\ disk \in Disks /\ pc # "off" /\ command = "update"
      /\ src \in Source \union Sublist /\ UNCHANGED world
      /\ todo \subseteq Source \union Sublist
      /\ \A s \in Source \union Sublist : feed(s) \in Url /\ sig(s) \in Url
  <2>1. UNCHANGED world
    BY WorldStays DEF Next, Proceed, SourceStep
  <2> QED
    BY <2>1, UpdateGoesOn, SourcesType DEF TypeInv, TypeOK, TransferTypes, Disks
<1>o. {"compress", "signature", "sig", "verify", "next", "feed", "off"} \cap Walking = {}
  BY DEF Walking
<1>r. Resuming' = Resuming
  BY <1>a, SameResuming
<1>c. \A u, c : \A p \in {"list", "gz"} : [disk EXCEPT ![p][u] = c]["cache"] = disk["cache"]
  BY <1>a, ListLeaves
<1>d. ASSUME NEW p \in {"next", "compress", "signature", "verify"}, GoOn(p, IF p = "next" THEN NoSrc ELSE src),
             disk'["cache"] = disk["cache"],
             p = "compress" => world.compress,
             pc \in {"feed", "compress", "signature", "sig", "verify"}
      PROVE  HandleInv'
  BY <1>a, <1>d, <1>o, HandleKept DEF GoOn, Rest
<1>e. ASSUME NEW failure, NextOne(failure), disk'["cache"] = disk["cache"],
             pc \in {"feed", "compress", "signature", "sig", "verify"}
      PROVE  HandleInv'
  BY <1>d, <1>e DEF NextOne
<1>f. ASSUME AfterFeed, disk'["cache"] = disk["cache"],
             pc \in {"feed", "compress", "signature", "sig", "verify"}
      PROVE  HandleInv'
  BY <1>d, <1>e, <1>f DEF AfterFeed
<1>h. Target \in {"list", "gz"}
  BY DEF Target
<1>1. ASSUME NEW s \in todo, NextSource(s) PROVE HandleInv'
  <2>1. /\ pc = "next" /\ pc' = "feed" /\ src' = s /\ todo' = todo \ {s}
        /\ BeginOn(disk, feed(s), FeedPlace(s)) /\ FeedPlace(s) \in {"cache", "list"}
        /\ UNCHANGED <<world, command>> /\ s \notin todo'
    BY <1>1 DEF NextSource, Begin, FeedPlace
  <2>2. offset' = offset /\ url' = feed(s) /\ place' = FeedPlace(s)
        /\ step' \in {"head", "get"}
    BY <2>1 DEF BeginOn
  <2>3. ~world.volatile => place' = "cache"
    BY <2>2 DEF FeedPlace
  <2>4. ASSUME ~Resuming, world.backend = "curl", world.volatile
        PROVE  /\ \A x \in todo' : disk'["cache"][feed(x)] = NoFile
               /\ step' \in {"head", "stamp", "open"} => Here' = NoFile
    <3>1. \A x \in todo : disk["cache"][feed(x)] = NoFile
      BY <1>a, <2>4 DEF HandleInv, DirectCache
    <3>2. /\ step' = "head" => disk' = disk /\ place' = "cache"
          /\ disk' = disk \/ disk' = [disk EXCEPT ![FeedPlace(s)][feed(s)] = NoFile]
      BY <2>1 DEF BeginOn
    <3>3. \A x \in todo : disk'["cache"][feed(x)] = NoFile
      <4> SUFFICES ASSUME NEW x \in todo PROVE disk'["cache"][feed(x)] = NoFile
        OBVIOUS
      <4>1. disk["cache"][feed(x)] = NoFile /\ feed(x) \in Url
        BY <1>a, <3>1
      <4> QED
        BY <1>a, <2>1, <3>2, <4>1 DEF Disks, Places
    <3> QED
      BY <2>1, <2>2, <3>2, <3>3 DEF Here
  <2> QED
    BY <1>a, <1>o, <1>r, <2>1, <2>2, <2>3, <2>4 DEF HandleInv, DirectCache, Listing
<1>2. CASE TransferLost
  BY <1>e, <1>2 DEF TransferLost
<1>3. CASE StoreFeed
  <2>1. disk'["cache"] = disk["cache"] /\ pc = "feed"
    BY <1>c, <1>h, <1>3 DEF StoreFeed
  <2>2. (GoOn("compress", src) /\ world.compress) \/ AfterFeed
    BY <1>3 DEF StoreFeed
  <2> QED
    BY <1>d, <1>f, <2>1, <2>2
<1>4. CASE StoreFeedFails
  <2>1. disk'["cache"] = disk["cache"] /\ pc = "feed"
    <3>1. pc = "feed" /\ \E c : disk' = [disk EXCEPT ![Target][url] = c]
      BY <1>4 DEF StoreFeedFails
    <3> QED
      BY <1>c, <1>h, <3>1
  <2>2. NextOne(TRUE) \/ AfterFeed
    BY <1>4 DEF StoreFeedFails
  <2> QED
    BY <1>e, <1>f, <2>1, <2>2
<1>5. CASE CompressList
  <2>1. \E x, y : disk' = [disk EXCEPT !["gz"][feed(src)] = x, !["list"][feed(src)] = y]
    BY <1>5 DEF CompressList
  <2>2. disk'["cache"] = disk["cache"]
    BY <1>a, <2>1 DEF Disks, Places
  <2> QED
    BY <1>f, <1>5, <2>2 DEF CompressList
<1>6. CASE FetchSignature
  <2>1. /\ pc = "signature" /\ pc' = "sig" /\ UNCHANGED <<world, command, src, todo>>
        /\ BeginOn(disk, sig(src), OwnPlace)
    BY <1>6 DEF FetchSignature, Fetch, Begin
  <2>2. /\ offset' = offset /\ (~world.volatile => place' = "cache")
        /\ world.volatile => disk'["cache"] = disk["cache"] /\ step' = "get"
    BY <1>a, <2>1 DEF BeginOn, OwnPlace, Disks, Places
  <2> QED
    BY <1>a, <1>o, <1>r, <2>1, <2>2 DEF HandleInv, DirectCache, Listing
<1>7. CASE StoreSignature
  <2>1. disk'["cache"] = disk["cache"] /\ pc = "sig"
    <3>1. pc = "sig" /\ \E c : disk' = [disk EXCEPT !["list"][url] = c]
      BY <1>7 DEF StoreSignature
    <3> QED
      BY <1>c, <3>1
  <2>2. GoOn("verify", src) \/ NextOne(TRUE)
    BY <1>7 DEF StoreSignature
  <2> QED
    BY <1>d, <1>e, <2>1, <2>2
<1>8. CASE VerifyFeed
  <2>1. Unverified["cache"] = disk["cache"]
    BY <1>a DEF Unverified, Disks, Places
  <2> QED
    BY <1>e, <1>8, <2>1 DEF VerifyFeed
<1>9. CASE FinishUpdate
  BY <1>a, <1>9, ExitHandle DEF FinishUpdate
<1> QED
  BY <1>1, <1>2, <1>3, <1>4, <1>5, <1>6, <1>7, <1>8, <1>9 DEF SourceStep

LEMMA HandleInvStep == TypeInv /\ CacheInv /\ HandleInv /\ [Next]_vars => HandleInv'
<1> SUFFICES ASSUME TypeInv, CacheInv, HandleInv, [Next]_vars PROVE HandleInv'
  OBVIOUS
<1>a. /\ TypeOK /\ Engaged /\ disk \in Disks /\ UNCHANGED world
      /\ (pc = "off" => step = "idle")
  BY WorldStays DEF TypeInv, TypeOK, TransferTypes, Disks
<1>r. Resuming' = Resuming /\ UNCHANGED ListCount /\ \A n : ListAt(n)' = ListAt(n)
  BY <1>a, SameResuming
<1>b. ASSUME UNCHANGED <<world, disk, xfer, cmd>> PROVE HandleInv'
  <2>1. \A u : GzTried(u)' = GzTried(u)
    BY <1>b, <1>r DEF GzTried, cmd
  <2>2. DirectCache' = DirectCache
    BY <1>b, <2>1 DEF DirectCache, Here, ReleaseFile, xfer, cmd
  <2> QED
    BY <1>b, <1>r, <2>2 DEF HandleInv, xfer, cmd
<1>o. {"off", "verify", "package", "fetch", "next"} \cap Walking = {} /\ "dist" \in Walking
  BY DEF Walking
<1>1. CASE UNCHANGED vars
  BY <1>b, <1>1 DEF vars
<1>2. CASE IdleStep
  <2>1. CASE RepositoryChanges
    BY <1>b, <2>1 DEF RepositoryChanges, Publish, PublishDist
  <2>2. CASE CalmDown
    BY <1>b, <2>2 DEF CalmDown
  <2>3. CASE StartUpdate
    <3>1. pc = "off" /\ pc' = (IF world.dist THEN "dist" ELSE "next") /\ UNCHANGED <<disk, xfer>>
      BY <2>3 DEF StartUpdate
    <3>2. \A s \in todo' : feed(s) \in Url
      <4>1. TypeOK'
        BY TypeStep DEF TypeInv
      <4>2. (todo \subseteq Source \union Sublist)'
        BY <4>1, SourcesType, PTL
      <4> QED
        BY <1>a, <4>2, SourcesType
    <3> QED
      BY <1>a, <1>o, <1>r, <3>1, <3>2 DEF HandleInv, DirectCache, Listing, xfer
  <2>4. CASE CannotStart
    BY <1>a, <2>4, ExitHandle DEF CannotStart
  <2>5. CASE DieLoading
    BY <1>a, <2>5, HandleGone DEF DieLoading, Gone, Rest, HandleInv, DirectCache
  <2>6. CASE Clean
    <3>1. \A u \in Url : disk'["cache"][u] = NoFile
      BY <1>a, <2>6 DEF Clean, NoFiles, Disks, Places
    <3> QED
      BY <1>a, <1>o, <1>r, <2>6, <3>1 DEF Clean, HandleInv, DirectCache, Listing, xfer, cmd
  <2>7. CASE \E s \in Source : StartInstall(s)
    <3>1. pc = "off" /\ command' = "install" /\ pc' \in {"verify", "package"} /\ UNCHANGED <<disk, xfer>>
      BY <2>7 DEF StartInstall
    <3> QED
      BY <1>a, <1>o, <1>r, <3>1 DEF HandleInv, DirectCache, Listing, xfer
  <2> QED
    BY <1>2, <2>1, <2>2, <2>3, <2>4, <2>5, <2>6, <2>7 DEF IdleStep
<1>3. CASE Kill
  BY <1>3, HandleGone DEF Kill, Gone, Rest, Resuming
<1>4. CASE Work
  BY <1>4, WorkHandleStep
<1>5. CASE DistStep
  BY <1>5, DistHandleStep
<1>6. CASE SourceStep
  BY <1>6, SourceHandleStep
<1>7. CASE CheckSource
  <2>1. CASE Verified
    <3>1. /\ pc = "verify" /\ command = "install" /\ pc' = "package"
          /\ UNCHANGED <<world, disk, command, todo, offset>> /\ step' = "idle"
      BY <1>7, <2>1 DEF CheckSource, GoOn, Rest
    <3> QED
      BY <1>o, <3>1, HandleKept
  <2>2. CASE ~Verified
    <3>1. Unverified \in Disks
      BY <1>a, SourcesType DEF Unverified, Disks, Places, Contents, TypeOK
    <3> QED
      BY <1>a, <1>7, <2>2, <3>1, ExitHandle DEF CheckSource
  <2> QED
    BY <2>1, <2>2
<1>8. CASE FetchPackage
  <2>1. /\ pc = "package" /\ pc' = "fetch" /\ Package = NoFile
        /\ UNCHANGED <<world, command, todo>> /\ BeginOn(disk, pkg(src), "cache")
    BY <1>8 DEF FetchPackage, Fetch, Begin
  <2>2. command = "install"
    BY <1>a, <2>1 DEF Engaged
  <2>3. /\ offset' = offset /\ place' = "cache" /\ url' = pkg(src)
        /\ step' = "head" => disk' = disk
        /\ step' \in {"head", "get"}
    BY <2>1 DEF BeginOn
  <2>4. step' = "head" => Here' = NoFile
    BY <2>1, <2>3 DEF Here, Package
  <2> QED
    BY <1>a, <1>o, <1>r, <2>1, <2>2, <2>3, <2>4 DEF HandleInv, DirectCache, Listing
<1>9. CASE CheckPackage
  <2> DEFINE d == [disk EXCEPT !["cache"][pkg(src)] = NoFile]
  <2>1. d \in Disks
    BY <1>a DEF Disks, Places, Contents
  <2> HIDE DEF d
  <2>2. \/ Exit("installed") /\ disk' = AtExit(disk)
        \/ Exit("refused") /\ disk' = AtExit(d)
    BY <1>9 DEF CheckPackage, d
  <2> QED
    BY <1>a, <2>1, <2>2, ExitHandle
<1>10. CASE PackageLost
  BY <1>a, <1>10, ExitHandle DEF PackageLost
<1> QED
  BY <1>1, <1>2, <1>3, <1>4, <1>5, <1>6, <1>7, <1>8, <1>9, <1>10
     DEF Next, Proceed, IdleStep, SourceStep

LEMMA InitHandle == Init => QuietInv /\ HandleInv
<1> SUFFICES ASSUME Init PROVE QuietInv /\ HandleInv
  OBVIOUS
<1>1. offset = 0 /\ step = "idle" /\ pc = "off" /\ \A u \in Url : disk["cache"][u] = NoFile
  BY DEF Init, TransferInit, Places
<1> QED
  BY <1>1 DEF QuietInv, HandleInv, DirectCache, Walking, Listing

(***************************************************************************)
(* What such an update leaves.                                             *)
(***************************************************************************)
LEMMA SameFeed ==
  ASSUME NEW s, disk'["list"][feed(s)] = disk["list"][feed(s)],
         disk'["gz"][feed(s)] = disk["gz"][feed(s)], UNCHANGED <<world, served>>,
         DeliveredFeed(s)
  PROVE  DeliveredFeed(s)'
  BY DEF DeliveredFeed, Loaded

\* A transfer that ends well has what is served.
LEMMA AllReceived ==
  ASSUME TypeInv, CacheInv, QuietInv, HandleInv, Faultless, ~HandleReused, step = "ok"
  PROVE  Here = Whole(served[url])
<1>1. Skipped = 0
  <2>1. world.backend \in {"wget", "curl"}
    BY WorldType DEF TypeInv, World
  <2>2. CASE Resuming
    <3>1. Quiet
      BY <2>2 DEF Resuming, HandleReused, Faultless, Quiet
    <3> QED
      BY <3>1 DEF QuietInv, Skipped
  <2>3. CASE ~Resuming /\ (world.backend = "wget" \/ world.volatile)
    BY <2>3 DEF HandleInv, Skipped
  <2>4. CASE ~Resuming /\ world.backend = "curl" /\ ~world.volatile
    BY <2>4 DEF HandleInv, Skipped, Resumes
  <2> QED
    BY <2>1, <2>2, <2>3, <2>4
<1> QED
  BY <1>1 DEF CacheInv, Sound, Faultless, CompleteWhenDone

LEMMA WorkKeepsLists ==
  ASSUME TypeInv, Work
  PROVE  disk'["gz"] = disk["gz"] /\ \A x \in Url : x # url => disk'["list"][x] = disk["list"][x]
<1>1. /\ disk \in Disks /\ Transfer /\ Underway /\ place \in Places /\ url \in Url
  BY DEF TypeInv, TypeOK, TransferTypes, Disks, Work
<1>2. step \in {"head", "stamp", "open", "get"}
  BY <1>1 DEF Transfer, AnswerHead, HeadFails, WriteStamp, StampFails, OpenCached, OpenFails,
     GetAll, GetPart
<1>3. place \in {"cache", "list"}
  BY <1>1, <1>2 DEF Underway, Resumes
<1>4. UNCHANGED disk \/ \E c : disk' = [disk EXCEPT ![place][url] = c]
  BY <1>1 DEF Transfer, AnswerHead, HeadFails, WriteStamp, StampFails, OpenCached, OpenFails,
     GetAll, GetPart
<1> QED
  BY <1>1, <1>3, <1>4 DEF Disks, Places

\* A step of an update that is at the source src changes no list but its own.
LEMMA AtSourceDelivers ==
  ASSUME TypeInv, HandleInv, DeliverInv, pc \notin Walking \union {"off", "next"}, command = "update",
         UNCHANGED <<world, served, todo, command>>,
         \A x \in Url : x \notin {feed(src), sig(src)} =>
            disk'["list"][x] = disk["list"][x] /\ disk'["gz"][x] = disk["gz"][x],
         ~failed' => ~failed,
         pc' = "next" \/ src' = src,
         Faultless /\ ~HandleReused /\ ~failed' /\ pc' \in {"next", "signature", "sig", "verify"} =>
           \A s \in world.sources : s = src => DeliveredFeed(s)',
         Faultless /\ ~HandleReused /\ ~failed' /\ pc' = "compress" =>
           disk'["list"][feed(src)] = Whole(served[feed(src)])
  PROVE  DeliverInv'
<1>0. Faultless' = Faultless /\ HandleReused' = HandleReused
  BY SameConditions
<1> SUFFICES ASSUME Faultless, ~HandleReused, ~failed'
             PROVE  /\ \A s \in world.sources \ todo :
                         s # src' \/ pc' \in {"next", "signature", "sig", "verify"} => DeliveredFeed(s)'
                    /\ pc' = "compress" => disk'["list"][feed(src')] = Whole(served[feed(src')])
  BY <1>0 DEF DeliverInv
<1>1. ASSUME NEW s \in world.sources \ todo, s # src' \/ pc' \in {"next", "signature", "sig", "verify"}
      PROVE  DeliveredFeed(s)'
  <2>1. CASE s = src
    BY <1>1, <2>1
  <2>2. CASE s # src
    <3>1. s \in Source /\ feed(s) \in Url
      BY WorldType DEF TypeInv, World
    <3>2. DeliveredFeed(s)
      BY <2>2 DEF DeliverInv
    <3> QED
      BY <2>2, <3>1, <3>2, OtherAddress, SameFeed
  <2> QED
    BY <2>1, <2>2
<1>2. pc' = "compress" => disk'["list"][feed(src')] = Whole(served[feed(src')])
  <2>1. pc' = "compress" => src' = src
    OBVIOUS
  <2> QED
    BY <2>1
<1> QED
  BY <1>1, <1>2

LEMMA SourceDeliverStep ==
  ASSUME TypeInv, CacheInv, QuietInv, HandleInv, DeliverInv,
         \/ TransferLost \/ StoreFeed \/ StoreFeedFails \/ CompressList
         \/ FetchSignature \/ StoreSignature \/ VerifyFeed
  PROVE  DeliverInv'
<1>a. /\ Engaged /\ disk \in Disks /\ src \in Source \union Sublist
      /\ command = "update" /\ pc \notin Walking \union {"off", "next"} /\ UNCHANGED world
      /\ pc \in {"feed", "compress", "signature", "sig", "verify"}
      /\ feed(src) \in Url
  <2>1. Engaged /\ disk \in Disks /\ src \in Source \union Sublist /\ feed(src) \in Url
    BY SourcesType DEF TypeInv, TypeOK, TransferTypes, Disks
  <2>2. command = "update" /\ UNCHANGED world
    BY UpdateGoesOn, WorldStays DEF SourceStep, Next, Proceed
  <2>3. pc \in {"feed", "compress", "signature", "sig", "verify"}
    BY DEF TransferLost, StoreFeed, StoreFeedFails, CompressList,
       FetchSignature, StoreSignature, VerifyFeed
  <2> QED
    BY <2>1, <2>2, <2>3 DEF Walking
<1>b. /\ pc = "feed" => url = feed(src)
      /\ pc = "sig" => url = sig(src)
      /\ src \notin todo /\ (pc = "compress" => world.compress)
  BY <1>a DEF Engaged, HandleInv
<1>z. Faultless => ~Fault("disk")
  BY DEF Faultless, Fault
<1>y. Faultless /\ ~HandleReused /\ pc = "feed" /\ step = "ok" =>
        Here = Whole(served[feed(src)]) /\ IsWhole(Here)
  <2>1. served[feed(src)] \in Version
    BY <1>a DEF TypeInv, TypeOK, TransferTypes
  <2> QED
    BY <1>b, <2>1, AllReceived DEF IsWhole
<1> DEFINE OwnOnly == \A x \in Url : x \notin {feed(src), sig(src)} =>
                        disk'["list"][x] = disk["list"][x] /\ disk'["gz"][x] = disk["gz"][x]
           Stored == Faultless /\ ~HandleReused /\ ~failed =>
                       \A s \in world.sources : s = src => Loaded(s)' = Whole(served[feed(s)])
<1>s. ASSUME Stored, UNCHANGED served, Faultless, ~HandleReused, ~failed
      PROVE  \A s \in world.sources : s = src => DeliveredFeed(s)'
  BY <1>s DEF DeliveredFeed
<1>d. ASSUME NextOne(TRUE), OwnOnly PROVE DeliverInv'
  BY <1>a, <1>d, AtSourceDelivers DEF NextOne, GoOn
<1>e. ASSUME NEW p \in {"signature", "verify"}, GoOn(p, src), UNCHANGED <<failed, walk>>,
             OwnOnly, Stored
      PROVE  DeliverInv'
  <2>1. UNCHANGED <<world, served, todo, command>> /\ src' = src /\ pc' = p
    BY <1>e DEF GoOn
  <2>2. pc' \notin Walking /\ pc' # "compress"
    BY <2>1 DEF Walking
  <2> QED
    BY <1>a, <1>e, <1>s, <2>1, <2>2, AtSourceDelivers
<1>g. ASSUME NEW failure \in BOOLEAN, NextOne(failure), OwnOnly, ~failure => Stored
      PROVE  DeliverInv'
  <2>1. UNCHANGED <<world, served, todo, command>> /\ pc' = "next" /\ failed' = (failed \/ failure)
    BY <1>g DEF NextOne, GoOn
  <2> QED
    BY <1>a, <1>g, <1>s, <2>1, AtSourceDelivers
<1>f. ASSUME AfterFeed, OwnOnly, Stored PROVE DeliverInv'
  <2>1. CASE world.signed
    BY <1>e, <1>f, <2>1 DEF AfterFeed
  <2>2. CASE ~world.signed
    BY <1>f, <1>g, <2>2 DEF AfterFeed
  <2> QED
    BY <2>1, <2>2
<1>k. ASSUME NEW p \in {"list", "gz"}, NEW u \in {feed(src), sig(src)}, NEW c,
             disk' = [disk EXCEPT ![p][u] = c]
      PROVE  OwnOnly
  BY <1>a, <1>k DEF Disks, Places
<1>h. Target \in {"list", "gz"}
  BY DEF Target
<1>i. UNCHANGED disk => OwnOnly
  OBVIOUS
\* What was delivered stays while signatures are fetched and verified.
<1>j. ASSUME pc \in {"signature", "sig", "verify"}, disk'["list"][feed(src)] = disk["list"][feed(src)],
             disk'["gz"][feed(src)] = disk["gz"][feed(src)]
      PROVE  Stored
  BY <1>a, <1>b, <1>j DEF DeliverInv, DeliveredFeed, Loaded
<1> HIDE DEF OwnOnly, Stored
<1>1. CASE TransferLost
  BY <1>d, <1>i, <1>1 DEF TransferLost
<1>2. CASE StoreFeed
  <2>1. pc = "feed" /\ step = "ok" /\ disk' = [disk EXCEPT ![Target][url] = Here]
    BY <1>2 DEF StoreFeed
  <2>2. OwnOnly
    BY <1>b, <1>h, <1>k, <2>1
  <2>3. disk'[Target][feed(src)] = Here
    BY <1>a, <1>b, <1>h, <2>1 DEF Disks, Places
  <2>4. CASE world.compress /\ ~Gzipped
    <3>1. GoOn("compress", src) /\ UNCHANGED <<failed, walk>> /\ Target = "list"
      BY <1>2, <2>4 DEF StoreFeed, Target
    <3>2. UNCHANGED <<world, served, todo, command>> /\ src' = src /\ pc' = "compress"
      BY <3>1 DEF GoOn
    <3>3. Faultless /\ ~HandleReused => disk'["list"][feed(src)] = Whole(served[feed(src)])
      BY <1>y, <2>1, <2>3, <3>1
    <3>4. pc' \notin Walking
      BY <3>2 DEF Walking
    <3> QED
      BY <1>a, <2>2, <3>1, <3>2, <3>3, <3>4, AtSourceDelivers DEF OwnOnly
  <2>5. CASE ~(world.compress /\ ~Gzipped)
    <3>1. AfterFeed
      BY <1>2, <2>5 DEF StoreFeed
    <3>2. Target = IF world.compress THEN "gz" ELSE "list"
      BY <2>5 DEF Target
    <3>3. \A s : s = src => Loaded(s)' = disk'[Target][feed(src)]
      BY <1>a, <3>2 DEF Loaded
    <3>4. Stored
      BY <1>y, <2>1, <2>3, <3>3 DEF Stored
    <3> QED
      BY <1>f, <2>2, <3>1, <3>4
  <2> QED
    BY <2>4, <2>5
<1>3. CASE StoreFeedFails
  <2>1. /\ pc = "feed" /\ step = "ok" /\ \E c : disk' = [disk EXCEPT ![Target][url] = c]
        /\ NextOne(TRUE) \/ (Fault("disk") /\ AfterFeed)
    BY <1>3 DEF StoreFeedFails
  <2>2. OwnOnly
    BY <1>b, <1>h, <1>k, <2>1
  <2>3. Fault("disk") => Stored
    BY <1>z DEF Stored
  <2> QED
    BY <1>d, <1>f, <2>1, <2>2, <2>3
<1>4. CASE CompressList
  <2> DEFINE c == disk["list"][feed(src)]
  <2>1. /\ pc = "compress" /\ AfterFeed
        /\ \E x, y : /\ disk' = [disk EXCEPT !["gz"][feed(src)] = x, !["list"][feed(src)] = y]
                     /\ x = c \/ Fault("disk")
    BY <1>4 DEF CompressList
  <2>2. OwnOnly /\ (disk'["gz"][feed(src)] = c \/ Fault("disk"))
    BY <1>a, <2>1 DEF OwnOnly, Disks, Places
  <2>3. Stored
    <3>1. Faultless /\ ~HandleReused /\ ~failed => c = Whole(served[feed(src)])
      BY <1>a, <2>1 DEF DeliverInv
    <3>2. \A s : s = src => Loaded(s)' = disk'["gz"][feed(src)]
      BY <1>a, <1>b, <2>1 DEF Loaded
    <3> QED
      BY <1>z, <2>2, <3>1, <3>2 DEF Stored
  <2> QED
    BY <1>f, <2>1, <2>2, <2>3
<1>5. CASE FetchSignature
  <2>1. /\ BeginOn(disk, sig(src), OwnPlace) /\ OwnPlace \in {"cache", "list"}
        /\ pc = "signature" /\ pc' = "sig"
        /\ UNCHANGED <<world, served, todo, command, failed, src>>
    BY <1>5 DEF FetchSignature, Fetch, Begin, OwnPlace
  <2>2. /\ \A x \in Url : x # sig(src) => disk'["list"][x] = disk["list"][x]
        /\ disk'["gz"] = disk["gz"]
    BY <1>a, <2>1 DEF BeginOn, Disks, Places
  <2>3. OwnOnly
    BY <2>2 DEF OwnOnly
  <2>4. feed(src) # sig(src)
    BY DEF feed, sig
  <2>5. Stored
    BY <1>a, <1>j, <2>1, <2>2, <2>4
  <2>6. pc' \notin Walking
    BY <2>1 DEF Walking
  <2> QED
    BY <1>a, <1>s, <2>1, <2>3, <2>5, <2>6, AtSourceDelivers DEF OwnOnly
<1>6. CASE StoreSignature
  <2>1. /\ pc = "sig" /\ \E c : disk' = [disk EXCEPT !["list"][url] = c]
        /\ (GoOn("verify", src) /\ UNCHANGED <<failed, walk>>) \/ NextOne(TRUE)
    BY <1>6 DEF StoreSignature
  <2>2. OwnOnly
    BY <1>b, <1>k, <2>1
  <2>3. feed(src) # sig(src)
    BY DEF feed, sig
  <2>4. disk'["list"][feed(src)] = disk["list"][feed(src)] /\ disk'["gz"][feed(src)] = disk["gz"][feed(src)]
    BY <1>a, <1>b, <2>1, <2>3 DEF Disks, Places
  <2> QED
    BY <1>d, <1>e, <1>j, <2>1, <2>2, <2>4
<1>7. CASE VerifyFeed
  <2>1. pc = "verify"
    BY <1>7 DEF VerifyFeed
  <2>2. CASE Verified
    <3>1. UNCHANGED disk /\ NextOne(FALSE)
      BY <1>7, <2>2 DEF VerifyFeed
    <3> QED
      BY <1>g, <1>i, <1>j, <2>1, <3>1
  <2>3. CASE ~Verified
    <3>1. disk' = Unverified /\ NextOne(TRUE)
      BY <1>7, <2>3 DEF VerifyFeed
    <3>2. OwnOnly
      BY <1>a, <3>1 DEF OwnOnly, Unverified, Disks, Places
    <3> QED
      BY <1>d, <3>1, <3>2
  <2> QED
    BY <2>2, <2>3
<1> QED
  BY <1>1, <1>2, <1>3, <1>4, <1>5, <1>6, <1>7

LEMMA DeliverInvStep ==
  TypeInv /\ CacheInv /\ QuietInv /\ SignedInv /\ HandleInv /\ DeliverInv /\ [Next]_vars
    => DeliverInv'
<1> SUFFICES ASSUME TypeInv, CacheInv, QuietInv, SignedInv, HandleInv, DeliverInv, [Next]_vars
             PROVE  DeliverInv'
  OBVIOUS
<1>a. /\ TypeOK /\ Engaged /\ disk \in Disks /\ UNCHANGED world /\ SignedInv'
  BY WorldStays, SignedInvStep DEF TypeInv, TypeOK, TransferTypes, Disks
<1>p. HandleReused' = HandleReused /\ Faultless' = Faultless
  BY <1>a, SameConditions
<1>b. UNCHANGED <<disk, served, cmd>> => DeliverInv'
  BY <1>a, <1>p DEF DeliverInv, DeliveredFeed, Loaded, cmd
<1>c. pc' = "off" \/ command' = "install" => DeliverInv'
  BY DEF DeliverInv
<1>d. world.sources \subseteq todo' /\ pc' # "compress" => DeliverInv'
  BY <1>a DEF DeliverInv
<1>w. pc' \in Walking => DeliverInv'
  <2>1. pc' \in Walking => world'.sources \subseteq todo' /\ pc' # "compress"
    BY <1>a DEF SignedInv, Walking
  <2> QED
    BY <1>a, <1>d, <2>1
<1>1. CASE UNCHANGED vars
  BY <1>b, <1>1 DEF vars
<1>2. CASE IdleStep
  <2>1. CASE RepositoryChanges
    <3>1. UNCHANGED cmd /\ (world.restless \/ pc = "off")
      BY <2>1 DEF RepositoryChanges
    <3>2. CASE pc = "off"
      BY <1>c, <3>1, <3>2 DEF cmd
    <3>3. CASE world.restless
      BY <1>a, <1>p, <3>3 DEF DeliverInv, Faultless, Reliable
    <3> QED
      BY <3>1, <3>2, <3>3
  <2>2. CASE CalmDown
    BY <1>b, <2>2 DEF CalmDown
  <2>3. CASE StartUpdate
    <3>1. PICK lists \in Sublists : todo' = world.sources \union lists
      BY <2>3 DEF StartUpdate
    <3>2. pc' # "compress"
      BY <2>3 DEF StartUpdate
    <3> QED
      BY <1>d, <3>1, <3>2
  <2>4. CASE CannotStart \/ DieLoading
    BY <1>c, <2>4 DEF CannotStart, DieLoading, Exit, Gone
  <2>5. CASE Clean
    BY <1>c, <2>5 DEF Clean, cmd
  <2>6. CASE \E s \in Source : StartInstall(s)
    BY <1>c, <2>6 DEF StartInstall
  <2> QED
    BY <1>2, <2>1, <2>2, <2>3, <2>4, <2>5, <2>6 DEF IdleStep
<1>3. CASE Kill
  BY <1>c, <1>3 DEF Kill, Gone
<1>4. CASE Work
  <2>0. pc \in Transfers /\ UNCHANGED <<cmd, served>>
    BY <1>4 DEF Work, Transfers, Transfer, AnswerHead, HeadFails, WriteStamp, StampFails,
       OpenCached, OpenFails, GetAll, GetPart
  <2>1. CASE pc \in Walking
    BY <1>w, <2>0, <2>1 DEF cmd
  <2>2. CASE pc = "fetch"
    BY <1>a, <1>c, <2>0, <2>2 DEF Engaged, cmd
  <2>3. CASE pc \in {"feed", "sig"}
    <3>1. /\ command = "update" /\ url \in {feed(src), sig(src)} /\ pc \notin Walking \union {"off", "next"}
          /\ (pc = "sig" => url = sig(src)) /\ feed(src) # sig(src)
      BY <1>a, <2>3 DEF Engaged, Updating, Walking, feed, sig
    <3>2. disk'["gz"] = disk["gz"] /\ \A x \in Url : x # url => disk'["list"][x] = disk["list"][x]
      BY <1>4, WorkKeepsLists
    <3>3. UNCHANGED <<pc, src, todo, failed, command>>
      BY <2>0 DEF cmd
    <3>4. ASSUME Faultless, ~HandleReused, ~failed', pc' \in {"next", "signature", "sig", "verify"},
                 NEW s \in world.sources, s = src
          PROVE  DeliveredFeed(s)'
      <4>1. pc = "sig" /\ src \notin todo
        BY <2>3, <3>1, <3>3, <3>4 DEF HandleInv
      <4>2. DeliveredFeed(s)
        BY <3>1, <3>3, <3>4, <4>1 DEF DeliverInv
      <4>3. feed(s) \in Url
        BY <1>a, WorldType, SourcesType DEF World
      <4> QED
        BY <1>a, <2>0, <3>1, <3>2, <3>4, <4>1, <4>2, <4>3, SameFeed
    <3>5. pc' # "compress" /\ pc' \notin Walking
      BY <2>3, <3>1, <3>3
    <3> QED
      BY <1>a, <2>0, <3>1, <3>2, <3>3, <3>4, <3>5, AtSourceDelivers
  <2> QED
    BY <2>0, <2>1, <2>2, <2>3 DEF Transfers, Walking
<1>5. CASE DistStep
  <2>1. pc \in Walking
    BY <1>5 DEF DistStep, FetchRelease, ReleaseLost, StoreRelease, StoreReleaseFails, FetchList,
       GzListLost, TakeGzList, ListLost, TakeList, TakeListFails, FinishDist, DieOfRelease, Walking
  <2>2. (UNCHANGED todo /\ pc' # "compress") \/ pc' = "off"
    BY <1>5 DEF DistStep, FetchRelease, ReleaseLost, StoreRelease, StoreReleaseFails, FetchList,
       GzListLost, TakeGzList, ListLost, TakeList, TakeListFails, FinishDist, DieOfRelease,
       Fetch, LeaveDist, NextList, FallBack, GoOn, Gone
  <2> QED
    BY <1>c, <1>d, <2>1, <2>2 DEF SignedInv
<1>6. CASE SourceStep
  <2>1. ASSUME NEW s \in todo, NextSource(s) PROVE DeliverInv'
    <3>1. /\ pc = "next" /\ pc' = "feed" /\ src' = s /\ todo' = todo \ {s}
          /\ BeginOn(disk, feed(s), FeedPlace(s)) /\ FeedPlace(s) \in {"cache", "list"}
          /\ UNCHANGED <<world, served, command, failed>>
      BY <2>1 DEF NextSource, Begin, FeedPlace
    <3> SUFFICES ASSUME Faultless, ~HandleReused, command = "update", ~failed,
                        NEW x \in world.sources \ todo', x # s
                 PROVE  DeliveredFeed(x)'
      BY <1>a, <1>p, <3>1 DEF DeliverInv
    <3>2. x \in world.sources \ todo /\ DeliveredFeed(x)
      BY <3>1 DEF DeliverInv
    <3>3. feed(x) \in Url
      BY <1>a, <3>2, WorldType DEF World
    <3>4. disk'["gz"] = disk["gz"] /\ \A y \in Url : y # feed(s) => disk'["list"][y] = disk["list"][y]
      BY <1>a, <3>1 DEF BeginOn, Disks, Places
    <3> QED
      BY <3>1, <3>2, <3>3, <3>4, OtherAddress, SameFeed
  <2>2. CASE FinishUpdate
    BY <1>c, <2>2 DEF FinishUpdate, Exit, Gone
  <2> QED
    BY <1>6, <2>1, <2>2, SourceDeliverStep DEF SourceStep
<1>7. CASE InstallStep
  <2>1. pc' = "off" \/ (UNCHANGED command /\ command = "install")
    BY <1>a, <1>7 DEF InstallStep, CheckSource, FetchPackage, CheckPackage, PackageLost, Engaged,
       Fetch, GoOn, Exit, Gone
  <2> QED
    BY <1>c, <2>1
<1> QED
  BY <1>1, <1>2, <1>3, <1>4, <1>5, <1>6, <1>7
     DEF Next, Proceed, IdleStep, SourceStep, InstallStep

LEMMA DeliversStep == TypeInv /\ InstallInv /\ DeliverInv /\ [Next]_vars => Delivers
<1> SUFFICES ASSUME TypeInv, InstallInv, DeliverInv, [Next]_vars,
                    report' = "updated", pc # "off", Faultless, ~HandleReused,
                    NEW s \in world.sources
             PROVE  Loaded(s)' = Whole(served[feed(s)])
  BY DEF Delivers
<1>1. FinishUpdate
  BY Reports
<1>2. pc = "next" /\ todo = {} /\ ~failed /\ disk' = AtExit(disk) /\ UNCHANGED world
  BY <1>1 DEF FinishUpdate, Exit, Gone
<1>3. command = "update"
  BY <1>1, UpdateGoesOn DEF SourceStep
<1>4. Loaded(s) = Whole(served[feed(s)])
  BY <1>2, <1>3 DEF DeliverInv, DeliveredFeed
<1>5. disk \in Disks
  BY DEF TypeInv, TypeOK, TransferTypes, Disks
<1>6. disk'["list"] = disk["list"] /\ disk'["gz"] = disk["gz"]
  BY <1>2, <1>5 DEF AtExit, Disks, Places
<1> QED
  BY <1>2, <1>4, <1>6 DEF Loaded

\* An update that reports no failure leaves of every source all that the repository
\* has, where the next command looks, whatever was left by updates that were cut off
\* (opkg_update_cmd, pkg_src_update, opkg_download, pkg_hash_load_feeds).
THEOREM UpdateLeavesFeeds == Spec => UpdateDelivers
<1>1. Init => InstallInv /\ SignedInv /\ DeliverInv
  BY DEF Init, InstallInv, SignedInv, DeliverInv, Walking
<1> QED
  BY InitInv, InitHandle, TypeStep, CacheStep, <1>1, InstallInvStep, SignedInvStep, QuietInvStep,
     HandleInvStep, DeliverInvStep, DeliversStep, PTL DEF Spec, UpdateDelivers

(***************************************************************************)
(* What an update leaves of a dist, for any components, architectures,     *)
(* versions and blocks:                                                    *)
(*                                                                         *)
(*   ListsAreVouched    VouchedByRelease, in every world                   *)
(*   DistIsReliable     DistReliable: that, and DistUpdateDelivers         *)
(*                                                                         *)
(* VouchInv is of the lists that release_download has been through.  They  *)
(* may come more than once, because nothing keeps a configuration from     *)
(* naming a component or an architecture twice: what was vouched for is    *)
(* then written anew, but comes again as the last of its component         *)
(* (LastInGroup), unless it is that already.  DistInv follows the lists    *)
(* through the walk and then through their updates as sources; it takes    *)
(* what the parts above have of transfers that end well (AllReceived).     *)
(***************************************************************************)

\* The n-th list is what the Release file says.
IsVouched(n) == LET c == disk["list"][feed(ListAt(n))] IN IsWhole(c) /\ c = ReleaseFile

\* Whether the n-th list comes once more as the last of a component.
ComesAgain(n) == \E m \in walk.at..ListCount :
                   m % Len(world.arches) = 0 /\ ListAt(m) = ListAt(n)

VouchInv ==
  /\ pc \notin Listing => walk = NoWalk
  /\ pc \in Listing /\ ~walk.ret /\ ~world.distgz =>
       \A n \in 1..ListCount : n % Len(world.arches) = 0 /\ n < walk.at =>
         IsVouched(n) \/ ComesAgain(n)

Steady == /\ world.dist /\ Faultless /\ ~HandleReused
          /\ "network" \in world.faults => Len(world.arches) = 1 /\ ~world.distgz

DistDelivered(l) == disk["list"][feed(l)] = Whole(served[feed(l)])

\* An update that has failed nowhere has the Release file, the lists it has been
\* through, and keeps them while it updates them once more.
DistGood ==
  command = "update" /\ pc # "off" /\ ~failed =>
    /\ pc \notin {"dist", "release"} => ReleaseFile = Whole(served[Release])
    /\ pc \in Listing /\ ~walk.ret =>
         \A n \in 1..ListCount : n < walk.at =>
           DistDelivered(ListAt(n)) \/ (pc = "list" /\ ListAt(n) = Current)
    /\ pc \notin Walking =>
         \A l \in DistLists : DistDelivered(l) \/ (pc = "feed" /\ src = l)

DistInv == Steady => Consistent /\ DistGood

(***************************************************************************)
(* The order of the lists.                                                 *)
(***************************************************************************)
LEMMA DivMod ==
  ASSUME NEW a \in Nat \ {0}, NEW q \in Nat, NEW r \in 0..(a - 1)
  PROVE  ((a * q) + r) \div a = q /\ ((a * q) + r) % a = r
<1> DEFINE x == (a * q) + r
           p == x \div a
           t == x % a
<1>1. a * q \in Nat /\ x \in Nat
  OBVIOUS
<1>2. x = (a * p) + t /\ t \in 0..(a - 1) /\ p \in Int
  BY <1>1
<1> HIDE DEF p, t
<1>3. ASSUME p # q PROVE FALSE
  <2>1. CASE p >= q + 1
    <3>1. a * p >= a * (q + 1)
      BY <1>2, <2>1
    <3>2. a * (q + 1) = (a * q) + a
      OBVIOUS
    <3> QED
      BY <1>1, <1>2, <3>1, <3>2
  <2>2. CASE q >= p + 1
    <3>1. a * q >= a * (p + 1)
      BY <1>2, <2>2
    <3>2. a * (p + 1) = (a * p) + a
      BY <1>2
    <3> QED
      BY <1>1, <1>2, <3>1, <3>2
  <2> QED
    BY <1>2, <1>3, <2>1, <2>2
<1>4. p = q /\ t = r
  BY <1>1, <1>2, <1>3
<1> QED
  BY <1>4 DEF p, t

\* The last position of the group of a positions that k is in.
LEMMA LastInGroup ==
  ASSUME NEW c \in Nat, NEW a \in Nat, NEW k \in 1..(c * a)
  PROVE  \E m \in k..(c * a) : /\ m % a = 0
                               /\ (m - 1) \div a = (k - 1) \div a
                               /\ (m - 1) % a = a - 1
<1> DEFINE q == (k - 1) \div a
           r == (k - 1) % a
           m == a * (q + 1)
<1>1. a \in Nat \ {0} /\ k - 1 \in Nat
  OBVIOUS
<1>2. q \in 0..(c - 1) /\ r \in 0..(a - 1) /\ k - 1 = (a * q) + r
  BY <1>1, Within
<1> HIDE DEF q, r
<1>3. m = (a * q) + a /\ a * q \in Nat
  BY <1>1, <1>2
<1>4. m = (a * (q + 1)) + 0 /\ m - 1 = (a * q) + (a - 1)
  BY <1>1, <1>2, <1>3
<1>5. m % a = 0
  BY <1>1, <1>2, <1>4, DivMod
<1>6. (m - 1) \div a = q /\ (m - 1) % a = a - 1
  BY <1>1, <1>2, <1>4, DivMod
<1>7. m <= c * a
  <2>1. q + 1 <= c /\ q + 1 \in Nat
    BY <1>2
  <2>2. a * (q + 1) <= a * c
    BY <1>1, <2>1
  <2> QED
    BY <2>2
<1>8. k <= m /\ m \in Nat
  BY <1>1, <1>2, <1>3
<1> HIDE DEF m
<1>9. m \in k..(c * a)
  BY <1>1, <1>7, <1>8
<1> QED
  BY <1>5, <1>6, <1>9 DEF q

LEMMA EndOfGroup ==
  ASSUME NEW a \in Nat \ {0}, NEW n \in Nat \ {0}, n % a = 0
  PROVE  (n - 1) % a = a - 1
<1> DEFINE j == n \div a
<1>1. n = (a * j) + 0 /\ j \in Nat
  OBVIOUS
<1>2. j # 0
  BY <1>1
<1> HIDE DEF j
<1>3. j - 1 \in Nat /\ a * j = (a * (j - 1)) + a
  BY <1>1, <1>2
<1>4. n - 1 = (a * (j - 1)) + (a - 1)
  BY <1>1, <1>3
<1> QED
  BY <1>3, <1>4, DivMod

\* When the list of a position comes that is the last of a component, so does, there or
\* further on, a position that is the last of a component and has this list.
LEMMA ListComesLast ==
  ASSUME world \in World, NEW k \in 1..ListCount, NEW n \in 1..ListCount,
         n % Len(world.arches) = 0, ListAt(n) = ListAt(k)
  PROVE  \E m \in k..ListCount : m % Len(world.arches) = 0 /\ ListAt(m) = ListAt(n)
<1> DEFINE a == Len(world.arches)
           c == Len(world.components)
<1>1. a \in Nat /\ c \in Nat /\ ListCount = c * a
  BY DEF World, ListCount
<1> HIDE DEF a, c
<1>2. a \in Nat \ {0} /\ n \in Nat \ {0}
  BY <1>1
<1>3. PICK m \in k..(c * a) : /\ m % a = 0
                              /\ (m - 1) \div a = (k - 1) \div a
                              /\ (m - 1) % a = a - 1
  BY <1>1, LastInGroup
<1>4. (n - 1) % a = a - 1
  BY <1>2, EndOfGroup DEF a
<1>5. world.components[((k - 1) \div a) + 1] = world.components[((n - 1) \div a) + 1]
  BY DEF ListAt, a
<1>6. ListAt(m) = ListAt(n)
  BY <1>3, <1>4, <1>5 DEF ListAt, a
<1> QED
  BY <1>1, <1>3, <1>6 DEF a

(***************************************************************************)
(* What the Release file vouches for.                                      *)
(***************************************************************************)
LEMMA ListAddresses ==
  ASSUME TypeOK
  PROVE  /\ \A x : Release # feed(x) /\ Release # sig(x) /\ Release # gz(x)
         /\ \A x, y : feed(x) # sig(y) /\ feed(x) # gz(y) /\ (feed(x) = feed(y) => x = y)
         /\ Release \in Url
         /\ \A n \in 1..ListCount : ListAt(n) \in Sublist /\ feed(ListAt(n)) \in Url
<1>1. \A x : Release # feed(x) /\ Release # sig(x) /\ Release # gz(x)
  BY DEF Release, feed, sig, gz
<1>2. \A x, y : feed(x) # sig(y) /\ feed(x) # gz(y) /\ (feed(x) = feed(y) => x = y)
  BY DEF feed, sig, gz
<1>3. \A n \in 1..ListCount : ListAt(n) \in Sublist
  BY ListAtType, WorldType
<1> QED
  BY <1>1, <1>2, <1>3, WorldType

LEMMA ListCountType ==
  ASSUME TypeOK
  PROVE  ListCount \in Nat
<1>1. Len(world.components) \in Nat /\ Len(world.arches) \in Nat
  BY WorldType DEF World
<1>2. \A i, j \in Nat : i * j \in Nat
  OBVIOUS
<1> QED
  BY <1>1, <1>2, Zenon DEF ListCount

\* Positions do not move.
LEMMA SameOrder ==
  ASSUME UNCHANGED world
  PROVE  /\ UNCHANGED <<ListCount, Len(world.arches), DistLists>>
         /\ \A n : ListAt(n)' = ListAt(n)
         /\ walk'.at = walk.at => UNCHANGED Current
  BY DEF ListCount, ListAt, DistLists, Current

\* The walk stays where it is while the list it is at is written.
LEMMA WalkStays ==
  ASSUME TypeInv, HandleInv, VouchInv, UNCHANGED <<world, walk>>,
         pc \in Listing, pc' \in Listing, walk.at <= ListCount,
         \A x \in Url : x # feed(Current) => disk'["list"][x] = disk["list"][x]
  PROVE  VouchInv'
<1>a. /\ TypeOK /\ world \in World /\ walk.at \in 1..ListCount
      /\ UNCHANGED <<ListCount, Len(world.arches)>> /\ \A n : ListAt(n)' = ListAt(n)
  BY WorldType, SameOrder DEF TypeInv, Engaged, TypeOK
<1> SUFFICES ASSUME ~walk.ret, ~world.distgz, NEW n \in 1..ListCount,
                    n % Len(world.arches) = 0, n < walk.at
             PROVE  IsVouched(n)' \/ ComesAgain(n)'
  BY <1>a DEF VouchInv
<1>1. ComesAgain(n)' = ComesAgain(n)
  BY <1>a DEF ComesAgain
<1>2. CASE ListAt(n) = Current
  BY <1>a, <1>1, <1>2, ListComesLast DEF ComesAgain, Current
<1>3. CASE ListAt(n) # Current
  <2>1. UNCHANGED <<disk["list"][feed(ListAt(n))], ReleaseFile>>
    BY <1>a, <1>3, ListAddresses DEF ReleaseFile
  <2>2. IsVouched(n)' = IsVouched(n)
    BY <1>a, <2>1 DEF IsVouched, IsWhole
  <2> QED
    BY <1>1, <2>2 DEF VouchInv
<1> QED
  BY <1>2, <1>3

\* The walk goes on, and has the last list of a component or notes that it has not.
LEMMA WalkGoesOn ==
  ASSUME TypeInv, HandleInv, VouchInv, UNCHANGED world, pc = "list", pc' \in Listing,
         NEW k, k = walk.at, walk'.at = k + 1, walk.ret => walk'.ret,
         \A x \in Url : x # feed(Current) => disk'["list"][x] = disk["list"][x],
         LastOfComponent /\ ~walk'.ret => IsVouched(k)'
  PROVE  VouchInv'
<1>a. /\ TypeOK /\ world \in World /\ walk.at \in 1..ListCount
      /\ UNCHANGED <<ListCount, Len(world.arches)>> /\ \A n : ListAt(n)' = ListAt(n)
  BY WorldType, SameOrder DEF TypeInv, Engaged, TypeOK
<1> SUFFICES ASSUME ~walk'.ret, ~world.distgz, NEW n \in 1..ListCount,
                    n % Len(world.arches) = 0, n < walk.at + 1
             PROVE  IsVouched(n)' \/ ComesAgain(n)'
  BY <1>a DEF VouchInv, Listing
<1>1. ASSUME NEW m \in walk.at..ListCount, m # walk.at, m % Len(world.arches) = 0,
             ListAt(m) = ListAt(n)
      PROVE  ComesAgain(n)'
  <2>1. m \in (walk.at + 1)..ListCount
    BY <1>a, <1>1
  <2> QED
    BY <1>a, <1>1, <2>1 DEF ComesAgain
<1>2. CASE ListAt(n) = Current
  <2>1. PICK m \in walk.at..ListCount : m % Len(world.arches) = 0 /\ ListAt(m) = ListAt(n)
    BY <1>a, <1>2, ListComesLast DEF Current
  <2>2. CASE m = walk.at
    <3>1. IsVouched(k)'
      BY <2>1, <2>2 DEF LastOfComponent
    <3>2. ListAt(k)' = ListAt(n)'
      BY <1>a, <1>2 DEF Current
    <3> QED
      BY <3>1, <3>2 DEF IsVouched
  <2> QED
    BY <1>1, <2>1, <2>2
<1>3. CASE ListAt(n) # Current
  <2>1. n < walk.at
    <3>1. n # walk.at
      BY <1>3 DEF Current
    <3> QED
      BY <1>a, <3>1
  <2>2. UNCHANGED <<disk["list"][feed(ListAt(n))], ReleaseFile>>
    BY <1>a, <1>3, ListAddresses DEF ReleaseFile
  <2>3. IsVouched(n)' = IsVouched(n)
    BY <1>a, <2>2 DEF IsVouched, IsWhole
  <2>4. IsVouched(n) \/ ComesAgain(n)
    BY <2>1 DEF VouchInv, Listing
  <2>5. ComesAgain(n) => ComesAgain(n)'
    <3>1. ListAt(walk.at) # ListAt(n)
      BY <1>3 DEF Current
    <3> QED
      BY <1>1, <3>1 DEF ComesAgain
  <2> QED
    BY <2>3, <2>4, <2>5
<1> QED
  BY <1>2, <1>3

LEMMA DistVouchStep ==
  ASSUME TypeInv, HandleInv, VouchInv, DistStep
  PROVE  VouchInv'
<1>a. /\ TypeOK /\ disk \in Disks /\ (pc = "list" => url = feed(Current)) /\ UNCHANGED world
      /\ \A n : ListAt(n)' = ListAt(n)
      /\ OwnPlace \in {"cache", "list"}
  BY WorldStays, SameOrder DEF TypeInv, TypeOK, TransferTypes, Disks, Engaged, Next, Proceed, OwnPlace
<1>b. pc' \notin Listing /\ (walk' = NoWalk \/ (pc \notin Listing /\ UNCHANGED walk)) => VouchInv'
  BY DEF VouchInv
<1>c. {"dist", "release", "next", "off"} \cap Listing = {}
  BY DEF Listing
<1>d. ASSUME NEW failure, LeaveDist(failure) PROVE VouchInv'
  BY <1>b, <1>c, <1>d DEF LeaveDist, GoOn
<1>e. pc' \in Listing /\ world.distgz => VouchInv'
  BY <1>a DEF VouchInv
<1>1. CASE FetchRelease
  BY <1>b, <1>c, <1>1 DEF FetchRelease, Fetch
<1>2. CASE ReleaseLost \/ StoreReleaseFails \/ FinishDist
  BY <1>d, <1>2 DEF ReleaseLost, StoreReleaseFails, FinishDist
<1>3. CASE StoreRelease
  <2>1. CASE world.supported
    <3>1. pc' = "lists" /\ UNCHANGED walk /\ pc = "release"
      BY <1>3, <2>1 DEF StoreRelease, GoOn
    <3>2. walk.at = 1
      BY <1>c, <3>1 DEF VouchInv, NoWalk
    <3>3. \A n \in 1..(ListCount') : ~(n < 1)
      OBVIOUS
    <3> QED
      BY <3>1, <3>2, <3>3 DEF VouchInv, Listing
  <2>2. CASE ~world.supported
    BY <1>d, <1>3, <2>2 DEF StoreRelease
  <2> QED
    BY <2>1, <2>2
<1>4. CASE FetchList
  <2>1. /\ pc = "lists" /\ walk.at <= ListCount /\ UNCHANGED <<walk, world>>
        /\ \/ BeginOn(disk, gz(Current), "cache") /\ pc' = "gzlist"
           \/ BeginOn(disk, feed(Current), OwnPlace) /\ pc' = "list"
    BY <1>4 DEF FetchList, Fetch, Begin
  <2>2. \A x \in Url : x # feed(Current) => disk'["list"][x] = disk["list"][x]
    <3>1. CASE BeginOn(disk, gz(Current), "cache")
      BY <1>a, <3>1, BeginListsStay
    <3>2. CASE BeginOn(disk, feed(Current), OwnPlace)
      BY <1>a, <3>2, BeginListsStay
    <3> QED
      BY <2>1, <3>1, <3>2
  <2> QED
    BY <2>1, <2>2, WalkStays DEF Listing
<1>5. CASE GzListLost \/ TakeGzList
  <2>1. pc = "gzlist" /\ pc' \in {"lists", "list"}
    BY <1>5 DEF GzListLost, TakeGzList, NextList, FallBack, GoOn
  <2> QED
    BY <1>e, <2>1 DEF HandleInv, Listing
<1>6. ASSUME NEW err, NextList(err), pc = "list",
             \A x \in Url : x # feed(Current) => disk'["list"][x] = disk["list"][x],
             ~err => \A k : k = walk.at => IsVouched(k)'
      PROVE  VouchInv'
  <2>1. PICK k : k = walk.at
    OBVIOUS
  <2>2. /\ pc' = "lists" /\ walk'.at = k + 1 /\ walk'.ret = (walk.ret \/ (err /\ LastOfComponent))
        /\ UNCHANGED world
    BY <1>6, <2>1 DEF NextList, GoOn
  <2>3. LastOfComponent /\ ~walk'.ret => IsVouched(k)'
    BY <1>6, <2>1, <2>2
  <2> QED
    BY <1>6, <2>1, <2>2, <2>3, WalkGoesOn DEF Listing
<1>7. CASE ListLost
  BY <1>6, <1>7 DEF ListLost
<1>8. CASE TakeList
  <2>1. /\ pc = "list" /\ NextList(~Vouched(Here)) /\ url = feed(Current)
        /\ disk' = [disk EXCEPT !["list"][url] = IF Vouched(Here) THEN Here ELSE NoFile]
    BY <1>a, <1>8 DEF TakeList
  <2>2. \A x \in Url : x # feed(Current) => disk'["list"][x] = disk["list"][x]
    BY <1>a, <2>1 DEF Disks, Places
  <2>3. ASSUME Vouched(Here), NEW k, k = walk.at PROVE IsVouched(k)'
    <3>1. ListAt(k)' = Current /\ url \in Url /\ url # Release /\ Release \in Url
      BY <1>a, <2>1, <2>3, ListAddresses DEF Current, TypeOK, TransferTypes
    <3>2. disk'["list"][feed(Current)] = Here /\ ReleaseFile' = ReleaseFile
      BY <1>a, <2>1, <2>3, <3>1 DEF ReleaseFile, Disks, Places
    <3> QED
      BY <2>3, <3>1, <3>2 DEF IsVouched, Vouched, IsWhole
  <2> QED
    BY <1>6, <2>1, <2>2, <2>3
<1>9. CASE TakeListFails
  <2>1. pc = "list" /\ NextList(TRUE) /\ url = feed(Current)
        /\ \E c : disk' = [disk EXCEPT !["list"][url] = c]
    BY <1>a, <1>9 DEF TakeListFails
  <2>2. \A x \in Url : x # feed(Current) => disk'["list"][x] = disk["list"][x]
    BY <1>a, <2>1 DEF Disks, Places
  <2> QED
    BY <1>6, <2>1, <2>2
<1>10. CASE DieOfRelease
  BY <1>b, <1>c, <1>10 DEF DieOfRelease, Gone
<1> QED
  BY <1>1, <1>2, <1>3, <1>4, <1>5, <1>7, <1>8, <1>9, <1>10 DEF DistStep

LEMMA VouchInvStep == TypeInv /\ HandleInv /\ VouchInv /\ [Next]_vars => VouchInv'
<1> SUFFICES ASSUME TypeInv, HandleInv, VouchInv, [Next]_vars PROVE VouchInv'
  OBVIOUS
<1>a. TypeOK /\ Engaged /\ UNCHANGED world /\ UNCHANGED ListCount /\ \A n : ListAt(n)' = ListAt(n)
  BY WorldStays, SameOrder DEF TypeInv
<1>b. UNCHANGED <<disk, cmd>> => VouchInv'
  BY <1>a DEF VouchInv, IsVouched, ComesAgain, ReleaseFile, IsWhole, cmd
<1>c. pc' \notin Listing /\ (walk' = NoWalk \/ (pc \notin Listing /\ UNCHANGED walk)) => VouchInv'
  BY DEF VouchInv
<1>d. \A p \in Listing : p \notin {"off", "dist", "next", "feed", "compress", "signature", "sig",
                                   "verify", "package", "fetch"}
  BY DEF Listing
<1>1. CASE UNCHANGED vars
  BY <1>b, <1>1 DEF vars
<1>2. CASE IdleStep
  <2>1. CASE RepositoryChanges \/ CalmDown
    BY <1>b, <2>1 DEF RepositoryChanges, Publish, PublishDist, CalmDown
  <2>2. CASE StartUpdate \/ (\E s \in Source : StartInstall(s))
    BY <1>c, <1>d, <2>2 DEF StartUpdate, StartInstall
  <2>3. CASE CannotStart \/ DieLoading
    BY <1>c, <1>d, <2>3 DEF CannotStart, DieLoading, Exit, Gone
  <2>4. CASE Clean
    BY <1>c, <1>d, <2>4 DEF Clean, cmd
  <2> QED
    BY <1>2, <2>1, <2>2, <2>3, <2>4 DEF IdleStep
<1>3. CASE Kill
  BY <1>c, <1>d, <1>3 DEF Kill, Gone
<1>4. CASE Work
  <2>0. UNCHANGED cmd /\ pc \in Transfers
    BY <1>4 DEF Work, Transfers
  <2>1. CASE pc = "list"
    <3>1. walk.at <= ListCount /\ url = feed(Current) /\ pc' = pc /\ walk' = walk
      BY <1>a, <2>0, <2>1 DEF Engaged, cmd
    <3> QED
      BY <1>4, <1>a, <2>1, <3>1, WorkKeepsLists, WalkStays DEF Listing
  <2>2. CASE pc = "gzlist"
    BY <1>a, <1>c, <2>0, <2>2 DEF HandleInv, VouchInv, Listing, cmd
  <2>3. CASE pc \notin Listing
    BY <1>c, <2>0, <2>3 DEF cmd
  <2> QED
    BY <2>0, <2>1, <2>2, <2>3 DEF Listing, Transfers
<1>5. CASE DistStep
  BY <1>5, DistVouchStep
<1>6. CASE SourceStep
  <2>1. pc \notin Listing
    BY <1>d, <1>6 DEF SourceStep, NextSource, TransferLost, StoreFeed, StoreFeedFails, CompressList,
       FetchSignature, StoreSignature, VerifyFeed, FinishUpdate
  <2>2. pc' \notin Listing /\ (walk' = NoWalk \/ UNCHANGED walk)
    BY <1>d, <1>6 DEF SourceStep, NextSource, TransferLost, StoreFeed, StoreFeedFails, CompressList,
       FetchSignature, StoreSignature, VerifyFeed, FinishUpdate,
       Fetch, NextOne, AfterFeed, GoOn, Exit, Gone
  <2> QED
    BY <1>c, <2>1, <2>2
<1>7. CASE InstallStep
  BY <1>c, <1>d, <1>7 DEF InstallStep, CheckSource, FetchPackage, CheckPackage, PackageLost,
     Fetch, GoOn, Exit, Gone
<1> QED
  BY <1>1, <1>2, <1>3, <1>4, <1>5, <1>6, <1>7
     DEF Next, Proceed, IdleStep, SourceStep, InstallStep

LEMMA LeavesVouchedStep == TypeInv /\ VouchInv /\ [Next]_vars => LeavesVouched
<1> SUFFICES ASSUME TypeInv, VouchInv, [Next]_vars, pc = "lists", pc' = "next", ~failed',
                    ~world.distgz, NEW n \in 1..ListCount, n % Len(world.arches) = 0
             PROVE  LET c == disk'["list"][feed(ListAt(n))] IN
                      IsWhole(c) /\ c = disk'["list"][Release]
  BY DEF LeavesVouched
<1>1. FinishDist
  BY DEF Next, RepositoryChanges, Publish, PublishDist, CalmDown, StartUpdate, StartInstall,
     CannotStart, DieLoading, Clean, Kill, Gone, Proceed, Work, cmd, vars,
     DistStep, FetchRelease, ReleaseLost, StoreRelease, StoreReleaseFails, FetchList, Fetch,
     GzListLost, TakeGzList, ListLost, TakeList, TakeListFails, DieOfRelease,
     NextSource, TransferLost, StoreFeed, StoreFeedFails, CompressList,
     FetchSignature, StoreSignature, VerifyFeed, FinishUpdate,
     CheckSource, FetchPackage, CheckPackage, PackageLost, Exit
<1>2. walk.at > ListCount /\ ~walk.ret /\ disk' = disk
  BY <1>1 DEF FinishDist, LeaveDist
<1>3. ListCount \in Nat /\ walk.at \in Nat
  BY ListCountType DEF TypeInv, TypeOK
<1>4. n < walk.at /\ \A m \in walk.at..ListCount : FALSE
  BY <1>2, <1>3
<1>5. IsVouched(n)
  BY <1>2, <1>4 DEF VouchInv, ComesAgain, Listing
<1> QED
  BY <1>2, <1>5 DEF IsVouched, ReleaseFile

\* The update of a dist that reports no failure has, for each component, the list of its
\* last architecture as the Release file beside it says, whatever the server, the disk and
\* earlier updates did (opkg_update_cmd, release_download, release_verify_file).
THEOREM ListsAreVouched == Spec => VouchedByRelease
<1>1. Init => VouchInv
  BY DEF Init, VouchInv, Listing
<1>2. LeavesVouched => [LeavesVouched]_<<disk, cmd>>
  OBVIOUS
<1> QED
  BY InitInv, InitHandle, TypeStep, CacheStep, <1>1, <1>2, HandleInvStep, VouchInvStep,
     LeavesVouchedStep, PTL DEF Spec, VouchedByRelease

(***************************************************************************)
(* What an update has of a dist.                                           *)
(***************************************************************************)
LEMMA SteadyWorld ==
  ASSUME TypeOK, Steady
  PROVE  /\ world.dist /\ ~world.compress /\ ~world.restless /\ ~Fault("disk")
         /\ Quiet \/ (Len(world.arches) = 1 /\ ~world.distgz)
         /\ \A l \in DistLists : l \in Sublist /\ l \notin Source /\ l \notin world.gzip
         /\ world.sources \subseteq Source
         /\ \A u \in DistUrls : u \in Url /\ u[2] \notin Source
<1>1. world \in Worlds /\ world \in World /\ world.gzip \subseteq Source /\ world.sources \subseteq Source
  BY WorldType DEF TypeOK, TransferTypes, World
<1>2. /\ world.dist /\ ~world.compress /\ ~world.restless /\ ~Fault("disk")
      /\ Quiet \/ (Len(world.arches) = 1 /\ ~world.distgz)
  BY <1>1, FeedsOK DEF Steady, Faultless, Reliable, Fault, Quiet
<1>3. \A l \in DistLists : l \in Sublist
  BY ListAddresses DEF DistLists
<1>4. \A l \in Sublist : l \notin Source
  BY FeedsOK
<1>5. \A u \in DistUrls : u = Release \/ \E l \in DistLists : u = feed(l) \/ u = gz(l)
  BY DEF DistUrls
<1>6. Release \in Url /\ Release[2] \notin Source
  BY WorldType, FeedsOK DEF Release
<1>7. \A l \in Sublist : feed(l) \in Url /\ gz(l) \in Url /\ feed(l)[2] = l /\ gz(l)[2] = l
  BY WorldType DEF feed, gz
<1>8. \A u \in DistUrls : u \in Url /\ u[2] \notin Source
  BY <1>3, <1>4, <1>5, <1>6, <1>7
<1> QED
  BY <1>1, <1>2, <1>3, <1>4, <1>8

LEMMA ServedStays ==
  ASSUME [Next]_vars
  PROVE  UNCHANGED served \/ RepositoryChanges
  BY DEF Next, CalmDown, StartUpdate, StartInstall,
     CannotStart, DieLoading, Clean, Kill, Gone, GoOn, vars, Proceed, Work, Transfer,
     AnswerHead, HeadFails, WriteStamp, StampFails, OpenCached, OpenFails, GetAll, GetPart,
     DistStep, FetchRelease, ReleaseLost, StoreRelease, StoreReleaseFails, FetchList, Fetch,
     GzListLost, TakeGzList, ListLost, TakeList, TakeListFails, FinishDist, DieOfRelease,
     NextList, FallBack, LeaveDist,
     NextSource, TransferLost, StoreFeed, StoreFeedFails, CompressList, NextOne, AfterFeed,
     FetchSignature, StoreSignature, VerifyFeed, FinishUpdate,
     CheckSource, FetchPackage, CheckPackage, PackageLost

\* A dist is of one version, and stays as it is while a command runs.
LEMMA ConsistentStep ==
  ASSUME TypeInv, Steady, Consistent, [Next]_vars
  PROVE  Consistent' /\ (pc # "off" => UNCHANGED served)
<1>a. TypeOK /\ UNCHANGED world /\ DistUrls' = DistUrls /\ served \in [Url -> Version]
      /\ Release \in DistUrls
  <2>1. TypeOK /\ UNCHANGED world /\ served \in [Url -> Version]
    BY WorldStays DEF TypeInv, TypeOK, TransferTypes
  <2> QED
    BY <2>1, SameOrder, SteadyWorld DEF DistUrls
<1>1. CASE UNCHANGED served
  BY <1>a, <1>1 DEF Consistent
<1>2. CASE RepositoryChanges
  <2>1. pc = "off" /\ ~world.restless
    BY <1>a, <1>2, SteadyWorld DEF RepositoryChanges
  <2>2. ASSUME NEW u \in Url, u[2] \in world.sources, Publish(u) PROVE Consistent'
    <3>1. \A x \in DistUrls : x \in Url /\ x # u
      BY <1>a, <2>2, SteadyWorld
    <3>2. PICK v : served' = [served EXCEPT ![u] = v]
      BY <2>2 DEF Publish
    <3>3. \A x \in DistUrls : served'[x] = served[x]
      BY <1>a, <3>1, <3>2
    <3> QED
      BY <1>a, <3>3 DEF Consistent
  <2>3. CASE PublishDist
    <3>1. PICK v : served' = [u \in Url |-> IF u \in DistUrls THEN v ELSE served[u]]
      BY <2>3 DEF PublishDist
    <3>2. \A x \in DistUrls : served'[x] = v
      BY <1>a, <3>1, SteadyWorld
    <3> QED
      BY <1>a, <2>1, <3>2 DEF Consistent
  <2> QED
    BY <1>2, <2>1, <2>2, <2>3 DEF RepositoryChanges
<1> QED
  BY <1>1, <1>2, ServedStays DEF RepositoryChanges, Steady, Faultless, Reliable

\* What was delivered is so as long as the list stays.
LEMMA SameDelivered ==
  ASSUME NEW l, disk'["list"][feed(l)] = disk["list"][feed(l)], UNCHANGED served
  PROVE  DistDelivered(l)' = DistDelivered(l)
  BY DEF DistDelivered

\* The walk goes on from the list k, or stays there.
LEMMA WalkGood ==
  ASSUME TypeInv, Steady, DistGood, UNCHANGED <<world, served, command, failed>>,
         pc \in Listing, pc' \in Listing, NEW k, k = walk.at, k <= ListCount,
         \A x \in Url : x # feed(Current) => disk'["list"][x] = disk["list"][x],
         walk.ret => walk'.ret,
         \/ walk'.at \in {k, k + 1} /\ (walk'.ret \/ \A l : l = Current => DistDelivered(l)')
         \/ walk'.at = k /\ (pc' = "list" \/ (pc # "list" /\ disk'["list"] = disk["list"]))
  PROVE  DistGood'
<1>a. /\ TypeOK /\ k \in 1..ListCount /\ k \in Nat
      /\ UNCHANGED ListCount /\ \A n : ListAt(n)' = ListAt(n)
  BY SameOrder DEF TypeInv, Engaged, TypeOK
<1>b. pc \in Walking /\ pc' \in Walking /\ pc \notin {"dist", "release"}
  BY DEF Listing, Walking
<1> SUFFICES ASSUME command = "update", ~failed
             PROVE  /\ ReleaseFile' = Whole(served[Release])
                    /\ ~walk'.ret => \A n \in 1..ListCount : n < walk'.at =>
                         DistDelivered(ListAt(n))' \/ (pc' = "list" /\ ListAt(n) = Current')
  BY <1>a, <1>b DEF DistGood
<1>c. pc # "off"
  BY DEF Listing
<1>1. ReleaseFile' = Whole(served[Release])
  <2>1. disk'["list"][Release] = disk["list"][Release]
    BY <1>a, ListAddresses
  <2> QED
    BY <1>b, <1>c, <2>1 DEF DistGood, ReleaseFile
<1>2. ASSUME ~walk'.ret, NEW n \in 1..ListCount, n < walk'.at
      PROVE  DistDelivered(ListAt(n))' \/ (pc' = "list" /\ ListAt(n) = Current')
  <2>1. n <= k
    BY <1>a, <1>2
  <2>2. n # k => DistDelivered(ListAt(n)) \/ (pc = "list" /\ ListAt(n) = Current)
    <3>1. n # k => n < walk.at
      BY <1>a, <2>1
    <3> QED
      BY <1>2, <1>c, <3>1 DEF DistGood
  <2>3. \A l : l = ListAt(n) => ListAt(n)' = l
    BY <1>a
  <2>4. CASE ListAt(n) = Current
    <3>1. CASE \A l : l = Current => DistDelivered(l)'
      BY <1>a, <2>4, <3>1 DEF DistDelivered
    <3>2. CASE walk'.at = k /\ pc' = "list"
      <4>1. Current' = Current
        BY <3>2, SameOrder
      <4> QED
        BY <2>4, <3>2, <4>1
    <3>3. CASE walk'.at = k /\ pc # "list" /\ disk'["list"] = disk["list"]
      <4>1. DistDelivered(ListAt(n))
        BY <1>2, <1>a, <2>2, <3>3
      <4> QED
        BY <1>a, <3>3, <4>1 DEF DistDelivered
    <3> QED
      BY <1>2, <3>1, <3>2, <3>3
  <2>5. CASE ListAt(n) # Current
    <3>1. DistDelivered(ListAt(n))
      BY <2>2, <2>5 DEF Current
    <3>2. disk'["list"][feed(ListAt(n))] = disk["list"][feed(ListAt(n))]
      BY <1>a, <2>5, ListAddresses
    <3> QED
      BY <1>a, <3>1, <3>2 DEF DistDelivered
  <2> QED
    BY <2>4, <2>5
<1> QED
  BY <1>1, <1>2

LEMMA DistGoodStep ==
  ASSUME TypeInv, CacheInv, QuietInv, HandleInv, VouchInv, Steady, Consistent, DistGood, DistStep
  PROVE  DistGood'
<1>a. /\ TypeOK /\ disk \in Disks /\ url \in Url /\ Release \in Url
      /\ UNCHANGED <<world, served>> /\ OwnPlace \in {"cache", "list"}
      /\ (pc = "release" => url = Release) /\ (pc = "gzlist" => url = gz(Current))
      /\ (pc = "list" => url = feed(Current)) /\ (pc \in {"gzlist", "list"} => walk.at <= ListCount)
      /\ \A n : ListAt(n)' = ListAt(n)
  BY WorldStays, SameOrder, WorldType, DistLeaves DEF TypeInv, TypeOK, TransferTypes, Disks, Engaged,
     Next, Proceed, OwnPlace, Leaves
<1>b. /\ ~Fault("disk") /\ world.dist
      /\ Quiet \/ (Len(world.arches) = 1 /\ ~world.distgz)
      /\ Consistent
  BY <1>a, SteadyWorld
<1>c. failed' \/ pc' = "off" \/ pc' \in {"dist", "release"} => DistGood'
  BY DEF DistGood, Listing, Walking
<1>d. ASSUME LeaveDist(TRUE) PROVE DistGood'
  BY <1>c, <1>d DEF LeaveDist
\* What comes is what is served, which is one version.
<1>e. ASSUME step = "ok", url \in DistUrls
      PROVE  Here = Whole(served[Release]) /\ Here = Whole(served[url])
  BY <1>b, <1>e, AllReceived DEF Steady, Consistent
<1>f. ASSUME pc \in {"gzlist", "list"}
      PROVE  Current \in DistLists /\ walk.at \in 1..ListCount
  <2>1. walk.at \in 1..ListCount
    BY <1>a, <1>f DEF TypeInv, Engaged, TypeOK
  <2> QED
    BY <1>b, <2>1 DEF DistLists, Current
<1>g. ASSUME pc \in {"gzlist", "list"}, step = "ok", command = "update", ~failed
      PROVE  Vouched(Here) /\ Here = Whole(served[feed(Current)])
  <2>1. url \in DistUrls /\ feed(Current) \in DistUrls
    BY <1>a, <1>b, <1>f, <1>g DEF DistUrls
  <2>2. Here = Whole(served[Release]) /\ served[feed(Current)] = served[Release]
    BY <1>b, <1>e, <1>g, <2>1 DEF Consistent
  <2>3. ReleaseFile = Whole(served[Release])
    BY <1>g DEF DistGood
  <2>4. served[Release] \in Version
    BY <1>a DEF TypeOK, TransferTypes
  <2> QED
    BY <2>2, <2>3, <2>4 DEF Vouched, IsWhole
<1>h. ASSUME NextList(FALSE), pc \in {"gzlist", "list"}, step = "ok", command = "update", ~failed,
             disk' = [disk EXCEPT !["list"][feed(Current)] = Here]
      PROVE  DistGood'
  <2>1. PICK k : k = walk.at
    OBVIOUS
  <2>2. /\ pc' = "lists" /\ walk'.at = k + 1 /\ (walk.ret => walk'.ret) /\ k <= ListCount
        /\ UNCHANGED <<command, failed>>
    BY <1>a, <1>h, <2>1 DEF NextList, GoOn
  <2>3. feed(Current) \in Url
    BY <1>a, <1>f, <1>h, SteadyWorld, WorldType
  <2>4. disk'["list"][feed(Current)] = Whole(served[feed(Current)])
        /\ \A x \in Url : x # feed(Current) => disk'["list"][x] = disk["list"][x]
    BY <1>a, <1>g, <1>h, <2>3 DEF Disks, Places
  <2>5. \A l : l = Current => DistDelivered(l)'
    BY <1>a, <2>4 DEF DistDelivered
  <2> QED
    BY <1>a, <1>h, <2>1, <2>2, <2>4, <2>5, WalkGood DEF Listing
<1>i. command' = "update" /\ command = "update"
  BY UpdateGoesOn
<1>1. CASE FetchRelease
  BY <1>c, <1>1 DEF FetchRelease, Fetch
<1>2. CASE ReleaseLost \/ StoreReleaseFails
  BY <1>d, <1>2 DEF ReleaseLost, StoreReleaseFails
<1>3. CASE StoreRelease
  <2>1. CASE world.supported
    <3>1. /\ pc = "release" /\ step = "ok" /\ pc' = "lists" /\ UNCHANGED walk
          /\ disk' = [disk EXCEPT !["list"][Release] = Here]
      BY <1>3, <2>1 DEF StoreRelease, GoOn
    <3>2. Release \in DistUrls
      BY <1>b DEF DistUrls
    <3>3. ReleaseFile' = Whole(served[Release])
      BY <1>a, <1>e, <3>1, <3>2 DEF ReleaseFile, Disks, Places
    <3>4. walk'.at = 1
      BY <3>1 DEF VouchInv, NoWalk, Listing
    <3>5. \A n \in 1..(ListCount') : ~(n < 1)
      OBVIOUS
    <3> QED
      BY <1>a, <3>1, <3>3, <3>4, <3>5 DEF DistGood, Walking
  <2>2. CASE ~world.supported
    BY <1>d, <1>3, <2>2 DEF StoreRelease
  <2> QED
    BY <2>1, <2>2
<1>4. CASE FetchList
  <2>1. /\ pc = "lists" /\ walk.at <= ListCount /\ UNCHANGED <<walk, command, failed>>
        /\ \/ BeginOn(disk, gz(Current), "cache") /\ pc' = "gzlist"
           \/ BeginOn(disk, feed(Current), OwnPlace) /\ pc' = "list"
    BY <1>4 DEF FetchList, Fetch, Begin
  <2>2. PICK k : k = walk.at
    OBVIOUS
  <2>3. CASE BeginOn(disk, gz(Current), "cache") /\ pc' = "gzlist"
    <3>1. disk'["list"] = disk["list"]
      BY <1>a, <2>3, BeginListsStay
    <3> QED
      BY <1>a, <2>1, <2>2, <2>3, <3>1, WalkGood DEF Listing
  <2>4. CASE BeginOn(disk, feed(Current), OwnPlace) /\ pc' = "list"
    <3>1. \A x \in Url : x # feed(Current) => disk'["list"][x] = disk["list"][x]
      BY <1>a, <2>4, BeginListsStay
    <3> QED
      BY <1>a, <2>1, <2>2, <2>4, <3>1, WalkGood DEF Listing
  <2> QED
    BY <2>1, <2>3, <2>4
<1>5. CASE GzListLost
  <2>1. pc = "gzlist" /\ step = "failed"
    BY <1>5 DEF GzListLost
  <2> QED
    BY <1>b, <2>1 DEF HandleInv, QuietInv
<1>6. CASE TakeGzList
  <2>1. pc = "gzlist" /\ step = "ok" /\ (failed' = failed)
    BY <1>6 DEF TakeGzList, NextList, FallBack
  <2>2. CASE failed
    BY <1>c, <2>1, <2>2
  <2>3. CASE ~failed
    <3>1. Vouched(Here)
      BY <1>g, <1>i, <2>1, <2>3
    <3>2. disk' = [disk EXCEPT !["list"][feed(Current)] = Here] /\ NextList(FALSE)
      BY <1>b, <1>6, <3>1 DEF TakeGzList
    <3> QED
      BY <1>h, <1>i, <2>1, <2>3, <3>2
  <2> QED
    BY <2>2, <2>3
<1>7. CASE ListLost
  <2>1. pc = "list" /\ step = "failed" /\ NextList(TRUE) /\ UNCHANGED disk
    BY <1>7 DEF ListLost
  <2>2. Len(world.arches) = 1
    BY <1>b, <2>1 DEF QuietInv
  <2>3. walk.at \in Nat
    BY <1>a DEF TypeOK
  <2>4. LastOfComponent
    BY <2>2, <2>3 DEF LastOfComponent
  <2>5. PICK k : k = walk.at
    OBVIOUS
  <2>6. pc' = "lists" /\ walk'.at = k + 1 /\ walk'.ret /\ UNCHANGED <<command, failed>>
    BY <2>1, <2>4, <2>5 DEF NextList, GoOn
  <2> QED
    BY <1>a, <2>1, <2>5, <2>6, WalkGood DEF Listing
<1>8. CASE TakeList
  <2>1. /\ pc = "list" /\ step = "ok" /\ NextList(~Vouched(Here)) /\ url = feed(Current)
        /\ disk' = [disk EXCEPT !["list"][url] = IF Vouched(Here) THEN Here ELSE NoFile]
    BY <1>a, <1>8 DEF TakeList
  <2>2. CASE failed
    BY <1>c, <2>1, <2>2 DEF NextList
  <2>3. CASE ~failed
    <3>1. Vouched(Here)
      BY <1>g, <1>i, <2>1, <2>3
    <3> QED
      BY <1>h, <1>i, <2>1, <2>3, <3>1
  <2> QED
    BY <2>2, <2>3
<1>9. ~TakeListFails
  BY <1>b DEF TakeListFails
<1>10. CASE FinishDist
  <2>1. pc = "lists" /\ walk.at > ListCount /\ LeaveDist(walk.ret) /\ pc' = "next"
        /\ (~walk.ret => disk' = disk)
    BY <1>10 DEF FinishDist, LeaveDist, GoOn
  <2>2. CASE failed \/ walk.ret
    BY <1>c, <2>1, <2>2 DEF LeaveDist
  <2>3. CASE ~failed /\ ~walk.ret
    <3>1. \A n \in 1..ListCount : n < walk.at
      BY <1>a, <2>1, ListCountType DEF TypeOK
    <3>2. \A n \in 1..ListCount : DistDelivered(ListAt(n))
      BY <1>i, <2>1, <2>3, <3>1 DEF DistGood, Listing
    <3>3. \A l \in DistLists : DistDelivered(l)
      BY <1>b, <3>2 DEF DistLists
    <3>4. ReleaseFile = Whole(served[Release])
      BY <1>i, <2>1, <2>3 DEF DistGood
    <3>5. DistLists' = DistLists /\ disk' = disk
      BY <1>a, <2>1, <2>3, SameOrder
    <3>6. \A l \in DistLists : DistDelivered(l)'
      BY <1>a, <3>3, <3>5 DEF DistDelivered
    <3> QED
      BY <1>a, <2>1, <3>4, <3>5, <3>6 DEF DistGood, ReleaseFile, Listing
  <2> QED
    BY <2>2, <2>3
<1>11. CASE DieOfRelease
  BY <1>c, <1>11 DEF DieOfRelease, Gone
<1> QED
  BY <1>1, <1>2, <1>3, <1>4, <1>5, <1>6, <1>7, <1>8, <1>9, <1>10, <1>11 DEF DistStep

\* A step of an update that is at the source s changes no list but its own.
LEMMA AtSourceGood ==
  ASSUME TypeInv, Steady, DistGood, UNCHANGED <<world, served>>, command = "update",
         pc \notin Walking \union {"off"}, pc' \notin Walking, failed => failed',
         NEW s, pc = "feed" => s = src,
         \A x \in Url : x \notin {feed(s), sig(s)} => disk'["list"][x] = disk["list"][x],
         ~failed' /\ s \in DistLists =>
           \A l : l = s => DistDelivered(l)' \/ (pc' = "feed" /\ src' = l)
  PROVE  DistGood'
<1>a. /\ TypeOK /\ Release \in Url /\ DistLists' = DistLists
      /\ \A l \in DistLists : l \in Sublist /\ feed(l) \in Url
      /\ \A x : Release # feed(x) /\ Release # sig(x)
  BY SameOrder, SteadyWorld, WorldType, ListAddresses DEF TypeInv
<1>b. {"dist", "release"} \union Listing \subseteq Walking
  BY DEF Listing, Walking
<1> SUFFICES ASSUME ~failed'
             PROVE  /\ ReleaseFile' = Whole(served[Release])
                    /\ \A l \in DistLists : DistDelivered(l)' \/ (pc' = "feed" /\ src' = l)
  BY <1>a, <1>b DEF DistGood
<1>1. ReleaseFile' = ReleaseFile /\ ReleaseFile = Whole(served[Release])
  BY <1>a, <1>b DEF ReleaseFile, DistGood
<1>2. ASSUME NEW l \in DistLists, l # s
      PROVE  DistDelivered(l)'
  <2>1. DistDelivered(l)
    BY <1>2 DEF DistGood
  <2>2. disk'["list"][feed(l)] = disk["list"][feed(l)]
    BY <1>a, <1>2, OtherAddress
  <2> QED
    BY <2>1, <2>2, SameDelivered
<1> QED
  BY <1>1, <1>2

LEMMA SourceGoodStep ==
  ASSUME TypeInv, CacheInv, QuietInv, HandleInv, Steady, Consistent, DistGood, SourceStep
  PROVE  DistGood'
<1>a. /\ TypeOK /\ disk \in Disks /\ url \in Url /\ OwnPlace \in {"cache", "list"}
      /\ UNCHANGED <<world, served>> /\ command = "update"
      /\ (pc = "feed" => url = feed(src)) /\ (pc = "sig" => url = sig(src))
  BY WorldStays, UpdateGoesOn, FeedLeaves DEF TypeInv, TypeOK, TransferTypes, Disks, Engaged,
     Next, Proceed, SourceStep, OwnPlace, Leaves
<1>b. /\ ~Fault("disk") /\ ~world.compress
      /\ \A l \in DistLists : l \notin world.gzip
  BY <1>a, SteadyWorld
<1>c. failed' \/ pc' = "off" => DistGood'
  BY DEF DistGood
<1>d. ASSUME NextOne(TRUE) PROVE DistGood'
  BY <1>c, <1>d DEF NextOne
<1>o. {"next", "feed", "compress", "signature", "sig", "verify", "off"} \cap Walking = {}
  BY DEF Walking
\* The list of the source is left alone, or is what is served.
<1>e. ASSUME NEW s, pc = "feed" => s = src, command = "update",
             pc \in {"next", "feed", "compress", "signature", "sig", "verify"},
             pc' \in {"next", "feed", "compress", "signature", "sig", "verify"}, failed => failed',
             \A x \in Url : x \notin {feed(s), sig(s)} => disk'["list"][x] = disk["list"][x],
             \/ pc' = "feed" /\ src' = s
             \/ pc # "feed" /\ disk'["list"][feed(s)] = disk["list"][feed(s)]
             \/ s \in DistLists => disk'["list"][feed(s)] = Whole(served[feed(s)])
      PROVE  DistGood'
  <2>1. ~failed' /\ s \in DistLists =>
           \A l : l = s => DistDelivered(l)' \/ (pc' = "feed" /\ src' = l)
    <3> SUFFICES ASSUME ~failed', NEW l \in DistLists, l = s, ~(pc' = "feed" /\ src' = l)
                 PROVE  DistDelivered(l)'
      OBVIOUS
    <3>1. pc # "feed" => DistDelivered(l)
      BY <1>e, <1>o DEF DistGood
    <3> QED
      BY <1>a, <1>e, <3>1 DEF DistDelivered
  <2> QED
    BY <1>a, <1>e, <1>o, <2>1, AtSourceGood
<1>f. AfterFeed => pc' \in {"signature", "next"} /\ (failed => failed')
  BY DEF AfterFeed, NextOne, GoOn
<1>1. ASSUME NEW s \in todo, NextSource(s) PROVE DistGood'
  <2>1. /\ pc = "next" /\ pc' = "feed" /\ src' = s /\ UNCHANGED failed
        /\ BeginOn(disk, feed(s), FeedPlace(s)) /\ FeedPlace(s) \in {"cache", "list"}
    BY <1>1 DEF NextSource, Begin, FeedPlace
  <2>2. \A x \in Url : x # feed(s) => disk'["list"][x] = disk["list"][x]
    BY <1>a, <2>1, BeginListsStay
  <2> QED
    BY <1>a, <1>e, <2>1, <2>2
<1>2. CASE TransferLost
  BY <1>d, <1>2 DEF TransferLost
<1>3. CASE StoreFeed
  <2>1. /\ pc = "feed" /\ step = "ok" /\ disk' = [disk EXCEPT ![Target][url] = Here]
        /\ (GoOn("compress", src) /\ UNCHANGED <<failed, walk>>) \/ AfterFeed
    BY <1>3 DEF StoreFeed
  <2>2. Target \in {"list", "gz"} /\ (src \in DistLists => Target = "list")
    BY <1>b DEF Target, Gzipped
  <2>3. Here = Whole(served[feed(src)])
    BY <1>a, <2>1, AllReceived DEF Steady
  <2>4. /\ \A x \in Url : x # feed(src) => disk'["list"][x] = disk["list"][x]
        /\ src \in DistLists => disk'["list"][feed(src)] = Whole(served[feed(src)])
    BY <1>a, <2>1, <2>2, <2>3 DEF Disks, Places
  <2>5. pc' \in {"compress", "signature", "next"} /\ (failed => failed')
    BY <1>f, <2>1 DEF GoOn
  <2> QED
    BY <1>a, <1>e, <2>1, <2>4, <2>5
<1>4. CASE StoreFeedFails
  BY <1>b, <1>d, <1>4 DEF StoreFeedFails, Decompresses
<1>5. ~CompressList
  BY <1>b DEF CompressList, HandleInv
<1>6. CASE FetchSignature
  <2>1. /\ pc = "signature" /\ pc' = "sig" /\ UNCHANGED failed /\ BeginOn(disk, sig(src), OwnPlace)
    BY <1>6 DEF FetchSignature, Fetch, Begin
  <2>2. /\ \A x \in Url : x # sig(src) => disk'["list"][x] = disk["list"][x]
        /\ disk'["list"][feed(src)] = disk["list"][feed(src)]
    <3>1. feed(src) \in Url /\ feed(src) # sig(src)
      BY <1>a, SourcesType, ListAddresses DEF TypeOK
    <3> QED
      BY <1>a, <2>1, <3>1, BeginListsStay
  <2> QED
    BY <1>a, <1>e, <2>1, <2>2
<1>7. CASE StoreSignature
  <2>1. CASE NextOne(TRUE)
    BY <1>d, <2>1
  <2>2. CASE ~NextOne(TRUE)
    <3>1. /\ pc = "sig" /\ pc' = "verify" /\ UNCHANGED failed
          /\ disk' = [disk EXCEPT !["list"][url] = Here]
      BY <1>7, <2>2 DEF StoreSignature, GoOn
    <3>2. /\ \A x \in Url : x # sig(src) => disk'["list"][x] = disk["list"][x]
          /\ disk'["list"][feed(src)] = disk["list"][feed(src)]
      <4>1. feed(src) \in Url /\ feed(src) # sig(src)
        BY <1>a, SourcesType, ListAddresses DEF TypeOK
      <4> QED
        BY <1>a, <3>1, <4>1 DEF Disks, Places
    <3> QED
      BY <1>a, <1>e, <3>1, <3>2
  <2> QED
    BY <2>1, <2>2
<1>8. CASE VerifyFeed
  <2>1. CASE Verified
    <3>1. pc = "verify" /\ pc' = "next" /\ (failed => failed') /\ UNCHANGED disk
      BY <1>8, <2>1 DEF VerifyFeed, NextOne, GoOn
    <3> QED
      BY <1>a, <1>e, <3>1
  <2>2. CASE ~Verified
    BY <1>d, <1>8, <2>2 DEF VerifyFeed
  <2> QED
    BY <2>1, <2>2
<1>9. CASE FinishUpdate
  BY <1>c, <1>9 DEF FinishUpdate, Exit, Gone
<1> QED
  BY <1>1, <1>2, <1>3, <1>4, <1>5, <1>6, <1>7, <1>8, <1>9 DEF SourceStep

LEMMA DistInvStep ==
  TypeInv /\ CacheInv /\ QuietInv /\ HandleInv /\ VouchInv /\ DistInv /\ [Next]_vars => DistInv'
<1> SUFFICES ASSUME TypeInv, CacheInv, QuietInv, HandleInv, VouchInv, DistInv, [Next]_vars
             PROVE  DistInv'
  OBVIOUS
<1>w. UNCHANGED world
  BY WorldStays
<1>s. Steady' = Steady
  BY <1>w DEF Steady, Faultless, Reliable, HandleReused
<1> SUFFICES ASSUME Steady PROVE Consistent' /\ DistGood'
  BY <1>s DEF DistInv
<1>a. /\ TypeOK /\ Engaged /\ disk \in Disks /\ UNCHANGED world /\ Consistent /\ DistGood
      /\ UNCHANGED <<ListCount, DistLists>> /\ \A n : ListAt(n)' = ListAt(n)
      /\ world.dist
  BY WorldStays, SameOrder DEF TypeInv, TypeOK, TransferTypes, Disks, DistInv, Steady
<1>b. Consistent' /\ (pc # "off" => UNCHANGED served)
  BY <1>a, ConsistentStep
<1>c. pc' = "off" \/ command' = "install" => DistGood'
  BY DEF DistGood
<1>d. UNCHANGED <<disk, served, cmd>> => DistGood'
  BY <1>a DEF DistGood, DistDelivered, ReleaseFile, Current, cmd
<1> SUFFICES DistGood'
  BY <1>b
<1>1. CASE UNCHANGED vars
  BY <1>d, <1>1 DEF vars
<1>2. CASE IdleStep
  <2>1. CASE RepositoryChanges \/ CalmDown
    <3>1. UNCHANGED <<disk, cmd>>
      BY <2>1 DEF RepositoryChanges, Publish, PublishDist, CalmDown
    <3> QED
      BY <1>b, <1>c, <1>d, <3>1 DEF cmd
  <2>2. CASE StartUpdate
    BY <1>a, <2>2 DEF StartUpdate, DistGood, Listing, Walking
  <2>3. CASE CannotStart \/ DieLoading
    BY <1>c, <2>3 DEF CannotStart, DieLoading, Exit, Gone
  <2>4. CASE Clean
    BY <1>c, <2>4 DEF Clean, cmd
  <2>5. CASE \E s \in Source : StartInstall(s)
    BY <1>c, <2>5 DEF StartInstall
  <2> QED
    BY <1>2, <2>1, <2>2, <2>3, <2>4, <2>5 DEF IdleStep
<1>3. CASE Kill
  BY <1>c, <1>3 DEF Kill, Gone
<1>4. CASE Work
  <2>0. pc \in Transfers /\ UNCHANGED <<cmd, served>>
    BY <1>4 DEF Work, Transfers, Transfer, AnswerHead, HeadFails, WriteStamp, StampFails,
       OpenCached, OpenFails, GetAll, GetPart
  <2>1. \A x \in Url : x # url => disk'["list"][x] = disk["list"][x]
    BY <1>4, WorkKeepsLists
  <2>2. CASE pc = "release"
    BY <2>0, <2>2 DEF DistGood, Listing, Walking, cmd
  <2>3. CASE pc = "gzlist"
    <3>1. walk.at <= ListCount /\ url = gz(Current)
      BY <1>a, <2>3 DEF Engaged
    <3>2. disk'["list"][Release] = disk["list"][Release]
      BY <1>a, <2>1, <3>1, ListAddresses
    <3>3. \A n \in 1..ListCount : disk'["list"][feed(ListAt(n))] = disk["list"][feed(ListAt(n))]
      BY <1>a, <2>1, <3>1, ListAddresses
    <3>4. UNCHANGED <<pc, walk, command, failed>>
      BY <2>0 DEF cmd
    <3>5. DistGood' <=> (command = "update" /\ ~failed =>
                           /\ ReleaseFile' = Whole(served[Release])
                           /\ ~walk.ret => \A n \in 1..ListCount : n < walk.at =>
                                             DistDelivered(ListAt(n))')
      BY <1>a, <2>0, <2>3, <3>4 DEF DistGood, Listing, Walking
    <3> QED
      BY <1>a, <2>0, <2>3, <3>2, <3>3, <3>5 DEF DistGood, DistDelivered, ReleaseFile, Listing
  <2>4. CASE pc = "list"
    <3>1. walk.at <= ListCount /\ url = feed(Current) /\ UNCHANGED <<pc, walk, command, failed>>
      BY <1>a, <2>0, <2>4 DEF Engaged, cmd
    <3>2. PICK k : k = walk.at
      OBVIOUS
    <3> QED
      BY <1>a, <2>0, <2>1, <2>4, <3>1, <3>2, WalkGood DEF Listing
  <2>5. CASE pc \in {"feed", "sig"}
    <3>1. /\ command = "update" /\ url \in {feed(src), sig(src)} /\ pc \notin Walking \union {"off"}
          /\ (pc = "sig" => url = sig(src))
          /\ UNCHANGED <<pc, src, failed>>
      BY <1>a, <2>0, <2>5 DEF Engaged, Updating, Walking, cmd
    <3>2. \A x \in Url : x \notin {feed(src), sig(src)} => disk'["list"][x] = disk["list"][x]
      BY <2>1, <3>1
    <3>3. ASSUME ~failed', NEW l \in DistLists, l = src
          PROVE  DistDelivered(l)' \/ (pc' = "feed" /\ src' = l)
      <4>1. CASE pc = "sig"
        <5>1. DistDelivered(l)
          BY <1>a, <3>1, <3>3, <4>1 DEF DistGood
        <5>2. feed(l) \in Url /\ feed(l) # url
          BY <1>a, <3>1, <4>1, SteadyWorld, WorldType, ListAddresses
        <5> QED
          BY <2>0, <2>1, <5>1, <5>2, SameDelivered
      <4> QED
        BY <2>5, <3>1, <3>3, <4>1
    <3> QED
      BY <1>a, <2>0, <3>1, <3>2, <3>3, AtSourceGood
  <2>6. CASE pc = "fetch"
    BY <1>a, <1>c, <2>0, <2>6 DEF Engaged, cmd
  <2> QED
    BY <2>0, <2>2, <2>3, <2>4, <2>5, <2>6 DEF Transfers
<1>5. CASE DistStep
  BY <1>5, <1>a, DistGoodStep
<1>6. CASE SourceStep
  BY <1>6, <1>a, SourceGoodStep
<1>7. CASE InstallStep
  <2>1. pc' = "off" \/ (UNCHANGED command /\ command = "install")
    BY <1>a, <1>7 DEF InstallStep, CheckSource, FetchPackage, CheckPackage, PackageLost, Engaged,
       Fetch, GoOn, Exit, Gone
  <2> QED
    BY <1>c, <2>1
<1> QED
  BY <1>1, <1>2, <1>3, <1>4, <1>5, <1>6, <1>7
     DEF Next, Proceed, IdleStep, SourceStep, InstallStep

LEMMA DistDeliversStep == TypeInv /\ InstallInv /\ DistInv /\ [Next]_vars => DistDelivers
<1> SUFFICES ASSUME TypeInv, InstallInv, DistInv, [Next]_vars,
                    report' = "updated", pc # "off", Faultless, ~HandleReused,
                    "network" \in world.faults => Len(world.arches) = 1 /\ ~world.distgz
             PROVE  DistCurrent'
  BY DEF DistDelivers
<1>1. FinishUpdate
  BY Reports
<1>2. pc = "next" /\ ~failed /\ disk' = AtExit(disk) /\ UNCHANGED <<world, served>>
  BY <1>1 DEF FinishUpdate, Exit, Gone
<1>3. command = "update"
  BY <1>1, UpdateGoesOn DEF SourceStep
<1>4. disk \in Disks /\ DistLists' = DistLists
  BY <1>2, SameOrder DEF TypeInv, TypeOK, TransferTypes, Disks
<1>5. disk'["list"] = disk["list"]
  BY <1>2, <1>4 DEF AtExit, Disks, Places
<1> SUFFICES ASSUME world.dist
             PROVE  \A u \in {Release} \union {feed(l) : l \in DistLists} :
                      disk["list"][u] = Whole(served[u])
  BY <1>2, <1>4, <1>5 DEF DistCurrent
<1>6. DistGood
  BY DEF DistInv, Steady
<1>7. ReleaseFile = Whole(served[Release]) /\ \A l \in DistLists : DistDelivered(l)
  BY <1>2, <1>3, <1>6 DEF DistGood, Walking
<1> QED
  BY <1>7 DEF ReleaseFile, DistDelivered

\* The lists that a dist's update leaves are vouched for by its Release file, and are all of
\* what the repository has, with the Release file, when no list can be lost unnoticed
\* (opkg_update_cmd, release_download, pkg_src_update).
THEOREM DistIsReliable == Spec => DistReliable
<1>1. Init => InstallInv /\ VouchInv /\ DistInv
  <2> SUFFICES ASSUME Init PROVE DistInv /\ VouchInv /\ InstallInv
    OBVIOUS
  <2>1. pc = "off" /\ walk = NoWalk /\ served = [u \in Url |-> 1] /\ TypeOK
    BY InitInv DEF Init, TransferInit, TypeInv
  <2>2. Steady => Consistent
    BY <2>1, SteadyWorld DEF Consistent, DistUrls
  <2> QED
    BY <2>1, <2>2 DEF DistInv, DistGood, VouchInv, InstallInv, Listing
<1>2. DistDelivers => [DistDelivers]_vars
  OBVIOUS
<1>3. Spec => DistUpdateDelivers
  BY InitInv, InitHandle, TypeStep, CacheStep, <1>1, <1>2, InstallInvStep, QuietInvStep,
     HandleInvStep, VouchInvStep, DistInvStep, DistDeliversStep, PTL DEF Spec, DistUpdateDelivers
<1> QED
  BY ListsAreVouched, <1>3 DEF DistReliable
=============================================================================

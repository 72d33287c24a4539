----------------------------- MODULE Downloads -----------------------------
(***************************************************************************)
(* One transfer at a time from a server into a file: opkg_download_        *)
(* internal with the curl backend (which resumes what is in the cache, as  *)
(* far as the ETag recorded beside it allows) or the wget backend.         *)
(*                                                                         *)
(* A resource has one version at a time and a version is Size blocks; a    *)
(* file is the sequence of the blocks written to it, each known by the     *)
(* version it is from.  The server may change between the two requests of  *)
(* a transfer, and the transfer may break off after any block.             *)
(***************************************************************************)
EXTENDS Integers, Sequences

CONSTANTS
  Url,          \* what the server has
  MaxVersion,   \* bound: versions of a resource
  Size,         \* blocks of a version
  Worlds,       \* records with at least the fields named below
  NoFile        \* no such file

\* The fields of a world read here:
\*   backend   "curl" or "wget"
\*   tags      what the server does: {TRUE} sends an ETag, {FALSE} does not
\*   sized     it says how long a resource is
\*   restless  a resource may change while a command runs
\*   rollback  it may change to an earlier version
\*   faults    "network": transfers break off, "disk": files are not written

Version == 1..MaxVersion
NoVer == 0
Places == {"cache", "list", "gz"}
Contents == (UNION {[1..n -> Version] : n \in 0..Size}) \union {NoFile}

ASSUME DownloadsOK ==
  /\ MaxVersion \in Nat \ {0} /\ Size \in Nat \ {0}
  /\ NoFile \notin UNION {[1..n -> Version] : n \in 0..Size}

VARIABLES
  world,    \* the world this is; it does not change
  calm,     \* from now on nothing fails any more
  served,   \* the version of each resource on the server
  disk,     \* for each place and resource, what the file holds
  stamp,    \* the ETag in <cache file>.@stamp
  step,     \* where the transfer is
  url,      \* what is being fetched
  place,    \* where to
  etag,     \* the ETag of the last answer
  offset    \* CURLOPT_RESUME_FROM of the one curl handle of a process

xfer == <<step, url, place, etag, offset>>

Fault(f) == ~calm /\ f \in world.faults

Whole(v) == [i \in 1..Size |-> v]
IsWhole(c) == \E v \in Version : c = Whole(v)
PartOf(c, v) == c # NoFile /\ \A i \in DOMAIN c : c[i] = v
PrefixesOf(c) == {SubSeq(c, 1, n) : n \in 0..Len(c)}

TransferTypes ==
  /\ world \in Worlds /\ calm \in BOOLEAN
  /\ served \in [Url -> Version]
  /\ disk \in [Places -> [Url -> Contents]]
  /\ stamp \in [Url -> Version \union {NoVer}]
  /\ step \in {"idle", "head", "stamp", "open", "get", "ok", "failed"}
  /\ url \in Url
  /\ place \in Places
  /\ etag \in Version \union {NoVer}
  /\ offset \in 0..(Size - 1)

Publish(u) ==
  /\ \E v \in Version :
       /\ v # served[u] /\ (world.rollback \/ v > served[u])
       /\ served' = [served EXCEPT ![u] = v]
  /\ UNCHANGED <<world, calm, disk, stamp, xfer>>

\* opkg_download_internal(u, p), with the disk as d: curl validates a file of the
\* cache first, otherwise the file goes and the transfer starts at its first block.
BeginOn(d, u, p) ==
  /\ url' = u /\ place' = p
  /\ etag' = NoVer /\ UNCHANGED offset
  /\ IF world.backend = "curl" /\ p = "cache" THEN step' = "head" /\ disk' = d
     ELSE step' = "get" /\ disk' = [d EXCEPT ![p][u] = NoFile]

Begin(u, p) == BeginOn(disk, u, p)

\* Mutant: the transfer is left where it was.
Unfinished == UNCHANGED xfer

Rest == /\ step' = "idle" /\ url' = CHOOSE u \in Url : TRUE
        /\ place' = "cache" /\ etag' = NoVer

Here == disk[place][url]

\* Mutant: the stamp is not looked at.
FreshUnstamped(tag) == Here # NoFile

\* check_file_stamp: the file in the cache is of the version the ETag names.
Fresh(tag) == Here # NoFile /\ tag # NoVer /\ stamp[url] = tag

\* The answer to the HEAD request: a file that is not fresh is removed.
AnswerHead ==
  /\ step = "head"
  /\ \E tagged \in world.tags :
       LET tag == IF tagged THEN served[url] ELSE NoVer IN
       /\ etag' = tag
       /\ IF Fresh(tag) THEN step' = "open" /\ UNCHANGED disk
          ELSE step' = "stamp" /\ disk' = [disk EXCEPT ![place][url] = NoFile]
  /\ UNCHANGED <<world, calm, served, stamp, url, place, offset>>

HeadFails ==
  /\ step = "head" /\ Fault("network")
  /\ step' = "failed"
  /\ UNCHANGED <<world, calm, served, disk, stamp, url, place, etag, offset>>

\* create_file_stamp, whose failure is only logged.
WriteStamp ==
  /\ step = "stamp"
  /\ stamp' = IF etag = NoVer THEN stamp ELSE [stamp EXCEPT ![url] = etag]
  /\ step' = "open"
  /\ UNCHANGED <<world, calm, served, disk, url, place, etag, offset>>

StampFails ==
  /\ step = "stamp" /\ etag # NoVer /\ Fault("disk")
  /\ stamp' \in {stamp, [stamp EXCEPT ![url] = NoVer]}
  /\ step' = "open"
  /\ UNCHANGED <<world, calm, served, disk, url, place, etag, offset>>

\* Mutant: the last block is taken for granted.
EnoughButOne(c) == Len(c) >= Size - 1

\* resume_from >= src_size; src_size is -1 if the server did not say.
Enough(c) == ~world.sized \/ Len(c) >= Size

\* Open the cache file, which creates it, and see whether anything is missing.
OpenCached ==
  /\ step = "open"
  /\ LET c == IF Here = NoFile THEN <<>> ELSE Here IN
       /\ disk' = [disk EXCEPT ![place][url] = c]
       /\ IF Enough(c) THEN step' = "ok" /\ UNCHANGED offset
                       ELSE step' = "get" /\ offset' = Len(c)
  /\ UNCHANGED <<world, calm, served, stamp, url, place, etag>>

OpenFails ==
  /\ step = "open" /\ Fault("disk")
  /\ step' = "failed"
  /\ UNCHANGED <<world, calm, served, disk, stamp, url, place, etag, offset>>

\* What the GET appends to: curl resumes a file of the cache where it ends.
Resumes == world.backend = "curl" /\ place = "cache"
Kept == IF Resumes THEN Here ELSE <<>>

\* Nothing takes the offset of an earlier transfer back before a direct one.
Skipped == IF Resumes THEN 0 ELSE offset

\* The file after blocks up to n of what is served now were received.
Received(n) == [i \in 1..n |-> IF i <= Len(Kept) THEN Kept[i] ELSE served[url]]

\* An offset beyond the end is an error, so a transfer that skips may also fail.
GetAll ==
  /\ step = "get"
  /\ disk' = [disk EXCEPT ![place][url] = Received(Size - Skipped)]
  /\ step' \in {"ok"} \union IF Skipped > 0 THEN {"failed"} ELSE {}
  /\ UNCHANGED <<world, calm, served, stamp, url, place, etag, offset>>

\* A broken transfer.  wget reports that it could not write; curl's caller
\* closes the file without asking whether what was buffered got there.
GetPart ==
  /\ step = "get" /\ (Fault("network") \/ Fault("disk"))
  /\ \/ /\ \E n \in Len(Kept)..(Size - Skipped) : disk' = [disk EXCEPT ![place][url] = Received(n)]
        /\ \/ step' = "failed"
           \/ step' = "ok" /\ world.backend = "curl" /\ Fault("disk")
     \/ /\ Here = NoFile /\ UNCHANGED disk
        /\ step' = "failed"
  /\ UNCHANGED <<world, calm, served, stamp, url, place, etag, offset>>

Transfer == \/ AnswerHead \/ HeadFails
            \/ WriteStamp \/ StampFails
            \/ OpenCached \/ OpenFails
            \/ GetAll \/ GetPart

TransferInit ==
  /\ world \in Worlds /\ calm = FALSE
  /\ served = [u \in Url |-> 1]
  /\ disk = [p \in Places |-> [u \in Url |-> NoFile]]
  /\ stamp = [u \in Url |-> NoVer]
  /\ step = "idle" /\ url = CHOOSE u \in Url : TRUE
  /\ place = "cache" /\ etag = NoVer /\ offset = 0

\* The server keeps still while a command runs, and a version that is gone does
\* not come back for curl to take for what it has of another.
Reliable ==
  ~world.restless /\ (world.backend = "curl" => world.tags = {TRUE} \/ ~world.rollback)

\* A file in the cache is never made of two versions, and what curl finds there
\* is of the version its stamp names, wherever a transfer broke off.
CacheIsOneVersion ==
  Reliable /\ "disk" \notin world.faults => \A u \in Url :
    LET c == disk["cache"][u] IN c # NoFile =>
      /\ \E v \in Version : PartOf(c, v)
      /\ world.backend = "curl" /\ world.tags = {TRUE} => PartOf(c, stamp[u])

\* "0 if file exists in cache and is completely downloaded": a transfer that
\* ends well leaves all of what the server has, if that said how much it is and the
\* transfer did not begin where an earlier one had been resumed.
CompleteWhenDone ==
  /\ step = "ok" /\ Skipped = 0
  /\ Reliable /\ world.sized /\ "disk" \notin world.faults
  => Here = Whole(served[url])
=============================================================================

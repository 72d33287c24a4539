------------------------------ MODULE MCFeeds ------------------------------
(***************************************************************************)
(* Instances of Feeds.                                                     *)
(***************************************************************************)
EXTENDS Feeds

CONSTANTS s1, s2, main, extra, all, arm

MCSource == {s1, s2}
MCComponent == {main, extra}
MCArch == {all, arm}
MCUrl == ({"feed", "sig", "pkg"} \X MCSource) \union {Release}
         \union ({"feed", "gz", "sig"} \X (MCComponent \X MCArch))

\* One source, curl, a network that breaks off transfers and users who kill.
Plain == [backend |-> "curl", tags |-> {TRUE}, sized |-> TRUE, restless |-> FALSE,
          rollback |-> TRUE, faults |-> {"network"}, sources |-> {s1},
          gzip |-> {}, compress |-> FALSE, signed |-> FALSE,
          volatile |-> FALSE, force |-> FALSE, kills |-> TRUE,
          dist |-> FALSE, distgz |-> FALSE, components |-> <<main>>,
          arches |-> <<all>>, supported |-> TRUE]
Signed == [Plain EXCEPT !.gzip = {s1}, !.signed = TRUE, !.rollback = FALSE]
Compressed == [Plain EXCEPT !.gzip = {s1}, !.compress = TRUE, !.rollback = FALSE,
                            !.kills = FALSE]
\* A full disk under lists that opkg compresses itself, and under signed ones.
FullDisk == [Plain EXCEPT !.compress = TRUE, !.faults = {"network", "disk"},
                          !.volatile = TRUE]
FullDiskSigned == [Signed EXCEPT !.faults = {"network", "disk"}, !.volatile = TRUE,
                                 !.kills = FALSE]
FullDiskDirect == [FullDiskSigned EXCEPT !.gzip = {}, !.kills = TRUE]
\* A server that changes under the commands and does not always send an ETag.
Unruly == [Plain EXCEPT !.restless = TRUE, !.tags = BOOLEAN, !.rollback = FALSE]
Wget == [Signed EXCEPT !.backend = "wget", !.volatile = TRUE, !.gzip = {},
                       !.rollback = FALSE]
Forced == [Plain EXCEPT !.force = TRUE, !.rollback = FALSE]
Two == [Plain EXCEPT !.sources = {s1, s2}, !.rollback = FALSE, !.volatile = TRUE,
                     !.gzip = {s1}, !.kills = FALSE]
Unsized == [Plain EXCEPT !.sized = FALSE]

\* A dist under failures, of several lists, and on a server that changes.
Dist == [Plain EXCEPT !.sources = {}, !.dist = TRUE, !.rollback = FALSE]
DistLists4 == [Dist EXCEPT !.components = <<main, extra>>, !.arches = <<all, arm>>,
                           !.faults = {}, !.kills = FALSE]
DistGz == [Dist EXCEPT !.distgz = TRUE]
DistGz2 == [DistGz EXCEPT !.arches = <<all, arm>>, !.volatile = TRUE, !.kills = FALSE]
DistUnruly == [Dist EXCEPT !.restless = TRUE, !.volatile = TRUE, !.kills = FALSE,
                           !.faults = {"network", "disk"}]
DistFullDisk == [DistGz EXCEPT !.volatile = TRUE, !.kills = FALSE,
                               !.faults = {"network", "disk"}]
DistPlainDisk == [Dist EXCEPT !.kills = FALSE, !.faults = {"disk"}, !.backend = "wget"]
DistGzSource == [DistGz EXCEPT !.volatile = TRUE, !.kills = FALSE, !.sources = {s1}]
DistGzQuiet == [DistGz2 EXCEPT !.faults = {}, !.sources = {s1}]
\* A component that the configuration names twice.
DistTwice == [DistLists4 EXCEPT !.components = <<main, main>>, !.arches = <<all>>,
                                !.faults = {"network"}]
DistRefused == [DistLists4 EXCEPT !.supported = FALSE]
EachWorld == {Plain, Signed, Compressed, FullDisk, FullDiskSigned, FullDiskDirect,
              Unruly, Wget, Forced, Two, Dist, DistLists4, DistGz, DistGz2, DistUnruly,
              DistFullDisk, DistPlainDisk, DistGzSource, DistGzQuiet,
              DistTwice, DistRefused, Unsized}
=============================================================================

--------------------------- MODULE MCOpkgInstall ---------------------------
(***************************************************************************)
(* Instances of OpkgInstall for TLC: a package with an upgrade that drops  *)
(* one file and brings another, and two more packages that want the        *)
(* dropped file.                                                           *)
(***************************************************************************)
EXTENDS OpkgInstall, TLC

MCPkg == {"a1", "a2", "b1", "c1"}
MCNames == {"a", "b", "c"}
MCFile == {"f", "g", "h"}
MCname == "a1" :> "a" @@ "a2" :> "a" @@ "b1" :> "b" @@ "c1" :> "c"
MCversion == "a1" :> 1 @@ "a2" :> 2 @@ "b1" :> 1 @@ "c1" :> 1

Files(a1, a2, b1, c1) == "a1" :> a1 @@ "a2" :> a2 @@ "b1" :> b1 @@ "c1" :> c1
NoReplaces == [p \in Pkg |-> {}]
BReplacesA == [p \in Pkg |-> IF p = "b1" THEN {"a"} ELSE {}]

\* One package per command, with every fault.
Plain ==
  [available |-> Pkg, files |-> Files({"f", "g"}, {"f", "h"}, {"f", "g"}, {"g"}),
   replaces |-> NoReplaces, dependency |-> {}, expendable |-> {"c1"},
   noPrune |-> {}, userFiles |-> {}, forceOverwrite |-> FALSE,
   overwriteNoOwner |-> FALSE, batch |-> FALSE, faults |-> FaultKinds,
   interrupts |-> FALSE, crashes |-> {}]

Interrupted == [Plain EXCEPT !.replaces = BReplacesA, !.expendable = Pkg,
                             !.interrupts = TRUE]
UsersFiles == [Plain EXCEPT !.userFiles = {"h"}, !.overwriteNoOwner = TRUE]
Batched == [Plain EXCEPT !.replaces = BReplacesA, !.expendable = {"b1", "c1"},
                         !.batch = TRUE, !.faults = {}]
Optional == [Plain EXCEPT !.noPrune = {"a1"}, !.userFiles = {"h"}, !.dependency = {"b1"}]
Forced == [Optional EXCEPT !.forceOverwrite = TRUE, !.dependency = {}]
ForcedBatch == [Forced EXCEPT !.batch = TRUE, !.faults = {"script"},
                              !.available = {"a1", "a2", "b1"}, !.expendable = {"a2"}]

\* Without c1, and the upgrade of a brings nothing new.
Small == [Plain EXCEPT !.available = {"a1", "a2", "b1"}, !.expendable = {},
                       !.files = Files({"f", "g"}, {"f"}, {"g"}, {})]
Torn == [Small EXCEPT !.replaces = BReplacesA, !.interrupts = TRUE,
                      !.crashes = CrashPoints]

MCWorlds == {Interrupted, UsersFiles, Batched, Optional, Forced, ForcedBatch, Torn}

\* The upgrade of a drops the one file that b and c bring.
HandoverWorlds == {[Plain EXCEPT !.files = Files({"f", "g"}, {"f"}, {"g"}, {"g"}),
                                 !.expendable = {}, !.batch = TRUE, !.faults = {}]}
=============================================================================

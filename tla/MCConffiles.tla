---------------------------- MODULE MCConffiles ----------------------------
(***************************************************************************)
(* Instances of Conffiles: three versions of a package and two paths.      *)
(***************************************************************************)
EXTENDS Conffiles

CONSTANTS f, g,                   \* the paths
          old, new, E1, E2        \* maintainers' contents, users' contents

MCVersion == 1..3
MCFile == {f, g}
MCContent == {old, new, E1, E2, Torn}

Each(X) == [v \in MCVersion |-> X]
Ships(v) == [h \in MCFile |-> IF v = 3 THEN new ELSE old]

\* A conffile in every version, that only the third changes; users write what
\* they like, also what the maintainer will.
Plainly ==
  [files |-> Each({f}), conffiles |-> Each({f}),
   ships |-> [v \in MCVersion |-> Ships(v)], policy |-> "keep",
   noPrune |-> FALSE, downgrade |-> TRUE, faults |-> {},
   deaths |-> FALSE, edits |-> {E1, E2, new}, careless |-> TRUE]

Unwinding == [Plainly EXCEPT !.faults = {"script", "backup", "unwind"}]
Ignoring == [Unwinding EXCEPT !.policy = "ignore"]
Forcing == [Unwinding EXCEPT !.policy = "maintainer"]
\* Two conffiles, so that one may be done and the other not; upgrades only.
Both == [Unwinding EXCEPT !.files = Each({f, g}), !.conffiles = Each({f, g}),
                          !.edits = {E1}, !.downgrade = FALSE]
Stopping == [Plainly EXCEPT !.faults = {"script", "extract"},
                         !.edits = {E1, new}, !.careless = FALSE]
\* Two installs fail in a row, one of them past the point of no return; or users do
\* not wait for the next install to give their file back.
Twice == [Stopping EXCEPT !.faults = {"unwind", "extract"}]
Careless == [Stopping EXCEPT !.careless = TRUE, !.edits = {E1, E2}]
\* The second version does not have the conffile.
Dropping == [Stopping EXCEPT !.files[2] = {}, !.conffiles[2] = {}]
Keeping == [Dropping EXCEPT !.noPrune = TRUE]
\* The second lists it and does not ship it, and ships another file.
Listing == [Dropping EXCEPT !.files[2] = {g}, !.conffiles[2] = {f}]
Faultless == [Dropping EXCEPT !.faults = {}]
Carefree == [Faultless EXCEPT !.careless = TRUE, !.edits = {E1, E2}]
\* The first ships it as a data file.
Becoming == [Unwinding EXCEPT !.conffiles[1] = {}]
\* Deaths, with one file; and with two, of which only one version is there.
Dying == [Stopping EXCEPT !.deaths = TRUE]
DyingBoth == [Both EXCEPT !.faults = {}, !.deaths = TRUE, !.careless = FALSE,
                          !.files[1] = {}, !.conffiles[1] = {},
                          !.files[2] = {}, !.conffiles[2] = {}]

MCWorlds == {Plainly, Unwinding, Ignoring, Forcing, Both, Stopping, Twice,
             Careless, Dropping, Keeping, Listing, Faultless, Carefree,
             Becoming, Dying, DyingBoth}
=============================================================================

------------------------------ MODULE PkgGraph ------------------------------
(***************************************************************************)
(* The package hash as the internal solver reads it: what every known      *)
(* package depends on, provides, conflicts with and replaces, and the      *)
(* queries of pkg_depends.c, pkg_hash.c and pkg_depends_internal.c.        *)
(*                                                                         *)
(* `graph' is what the control files say; it does not change.  What does   *)
(* change during a process is in a record m, given to every query:         *)
(*   status, want, auto, hold   of each pkg_t                              *)
(*   repl      the pkg_t's flagged SF_REPLACE                              *)
(*   abs       state_status of each abstract_pkg_t                         *)
(*   checked   dependencies_checked of each abstract_pkg_t                 *)
(*   wantedBy  wanted_by of each pkg_t                                     *)
(*   opt       the options of the command                                  *)
(*                                                                         *)
(* There is one architecture, and a package is known by name and version.  *)
(***************************************************************************)
EXTENDS Integers, SequencesExt

CONSTANTS
  Pkg,        \* the pkg_t's
  Names,      \* names of packages and of what they provide
  name,       \* [Pkg -> Names]
  version,    \* [Pkg -> Nat], ordered as pkg_compare_versions orders
  rank,       \* [Names -> Nat], ordered as strcmp orders
  LoadOrder,  \* a sequence of all of Pkg: the order of the feeds
  NoPkg       \* NULL

ASSUME GraphConstantsOK ==
  /\ name \in [Pkg -> Names]
  /\ version \in [Pkg -> Nat]
  /\ rank \in [Names -> Nat]
  /\ ToSet(LoadOrder) = Pkg
  /\ NoPkg \notin Pkg

VARIABLE
  graph       \* depends, provides, conflicts, replaces, essential, and the
              \* relations hash_insert_pkg derives from them

InPlace == {"installed", "unpacked"}
Statuses == InPlace \union {"half-installed", "not-installed"}

\* A dependence is a record [on, op, ver]; a clause of the Depends field,
\* [type, any], is a sequence of dependences of which one will do.
Types == {"predepend", "depend", "greedy", "recommend", "suggest"}
Required == {"predepend", "depend"}

\* version_constraints_satisfied
Meets(d, p) ==
  CASE d.op = ""   -> TRUE
    [] d.op = "<<" -> version[p] < d.ver
    [] d.op = "<=" -> version[p] <= d.ver
    [] d.op = "="  -> version[p] = d.ver
    [] d.op = ">=" -> version[p] >= d.ver
    [] d.op = ">>" -> version[p] > d.ver

Meeting(d) == {p \in Pkg : Meets(d, p)}
Targets(clauses, types) ==
  UNION {{d.on : d \in ToSet(c.any)} : c \in {k \in ToSet(clauses) : k.type \in types}}

\* abstract_pkg_t.pkgs
Versions(n) == SelectSeq(LoadOrder, LAMBDA p : name[p] = n)

\* The elements of s that seq does not have yet, in order.
Extend(seq, s) ==
  FoldLeft(LAMBDA acc, x : IF Contains(acc, x) THEN acc ELSE Append(acc, x), seq, s)
NamesOf(s) == Extend(<<>>, [i \in DOMAIN s |-> name[s[i]]])

(***************************************************************************)
(* hash_insert_pkg: the relations between names.                           *)
(***************************************************************************)
ConflictsAbstract(c, p, n) == \E d \in ToSet(c.conflicts[p]) : d.on = n

BuildProvides(c, n) ==
  NamesOf(SelectSeq(LoadOrder, LAMBDA p : n \in ToSet(c.provides[p])))

BuildReplaces(c, n) ==
  NamesOf(SelectSeq(LoadOrder, LAMBDA p :
    /\ \E d \in ToSet(c.replaces[p]) : d.on = n
    /\ ConflictsAbstract(c, p, n)))

BuildDependedUponBy(c, n) ==
  NamesOf(SelectSeq(LoadOrder, LAMBDA p :
    n \in Targets(c.depends[p], {"predepend", "depend", "recommend"})))

HashInsert(c, order) ==
  [depends |-> c.depends, provides |-> c.provides, conflicts |-> c.conflicts,
   replaces |-> c.replaces, essential |-> c.essential, order |-> order,
   providedBy |-> [n \in Names |-> BuildProvides(c, n)],
   replacedBy |-> [n \in Names |-> BuildReplaces(c, n)],
   dependedUponBy |-> [n \in Names |-> BuildDependedUponBy(c, n)]]

(***************************************************************************)
(* pkg_depends.c                                                           *)
(***************************************************************************)
Replaces(p, q)  == \E d \in ToSet(graph.replaces[p]) : d.on \in ToSet(graph.provides[q])
Conflicts(p, q) == \E d \in ToSet(graph.conflicts[p]) :
                      d.on \in ToSet(graph.provides[q]) /\ Meets(d, q)

\* The clauses pkg_breaks_reverse_dep looks at: depends_count of them, from
\* the front of an array that starts with the Pre-Depends.
Scanned(p) ==
  LET n == Cardinality({i \in DOMAIN graph.depends[p] :
                          graph.depends[p][i].type \in {"depend", "greedy"}})
  IN SubSeq(graph.depends[p], 1, n)

\* Mutant: no dependent counts.
BreaksNothing(m, p) == FALSE

BreaksReverseDep(m, p) ==
  \E q \in {r \in Pkg : Contains(graph.dependedUponBy[name[p]], name[r])} :
    /\ m.want[q] = "install"
    /\ \E c \in ToSet(Scanned(q)) :
         /\ c.type \in Required
         /\ \E d \in ToSet(c.any) : d.on = name[p] /\ ~Meets(d, p)

(***************************************************************************)
(* pkg_hash.c                                                              *)
(***************************************************************************)
Replacer(n) == IF graph.replacedBy[n] = <<>> THEN {} ELSE {Head(graph.replacedBy[n])} \ {n}

\* Providers that give way to their replacer: it provides as well, or an
\* earlier provider has the same one.
GivesWay(ps, i) ==
  \E r \in Replacer(ps[i]) :
    r \in ToSet(ps) \/ \E j \in 1 .. i - 1 : r \in Replacer(ps[j])

Before(p, q) == \/ rank[name[p]] < rank[name[q]]
                \/ name[p] = name[q] /\ version[p] < version[q]
Earliest(S) == CHOOSE p \in S : \A q \in S : p = q \/ Before(p, q)
Latest(S) == CHOOSE p \in S : \A q \in S : p = q \/ Before(q, p)

\* Mutant: a held package is like any other.
EligibleIfFit(m, p, fit) == p \in fit /\ (m.opt.forceDepends \/ ~BreaksReverseDep(m, p))

Eligible(m, p, fit) ==
  \/ m.status[p] \in InPlace /\ p \in m.hold
  \/ p \in fit /\ (m.opt.forceDepends \/ ~BreaksReverseDep(m, p))

Candidates(m, n, fit) ==
  LET ps == graph.providedBy[n]
      offered == UNION {ToSet(Versions(ps[i])) : i \in {j \in DOMAIN ps : ~GivesWay(ps, j)}}
  IN {p \in offered : Eligible(m, p, fit)}

\* pkg_hash_fetch_best_installation_candidate: of the packages that provide n
\* and meet the constraint (fit), one that is held, else one of that name,
\* else one whose name is installed, else, unless told to be quiet, the first
\* and otherwise the last of them.
BestCandidate(m, n, fit, preferInstalled, quiet) ==
  LET found  == Candidates(m, n, fit)
      held   == {p \in found : p \in m.hold}
      good   == {p \in found : name[p] = n}
      here   == {p \in good : m.status[p] \in InPlace}
      parent == {p \in found : m.abs[name[p]] \in InPlace}
  IN CASE found = {}                        -> NoPkg
       [] held # {}                         -> Latest(held)
       [] preferInstalled /\ here # {}      -> Earliest(here)
       [] good # {}                         -> Latest(good)
       [] parent # {}                       -> Latest(parent)
       [] ~quiet /\ Cardinality(found) > 1  -> Earliest(found)
       [] OTHER                             -> Latest(found)

BestByName(m, n) == BestCandidate(m, n, Pkg, FALSE, FALSE)

\* pkg_vec_fetch_by_name: a name without packages stands for its first
\* provider.
FetchByName(n) ==
  IF Versions(n) # <<>> THEN Versions(n)
  ELSE IF graph.providedBy[n] # <<>> THEN Versions(Head(graph.providedBy[n]))
  ELSE <<>>

\* Mutant: whatever its status.
FirstByName(m, n) == IF FetchByName(n) = <<>> THEN NoPkg ELSE Head(FetchByName(n))

InstalledByName(m, n) ==
  LET here == SelectSeq(FetchByName(n), LAMBDA p : m.status[p] # "not-installed")
  IN IF here = <<>> THEN NoPkg ELSE Head(here)

\* pkg_hash_fetch_available, in the order of the hash table
Available == FlattenSeq([i \in DOMAIN graph.order |-> Versions(graph.order[i])])
AllInstalled(m, statuses) ==
  SelectSeq(Available, LAMBDA p : m.status[p] \in statuses)

(***************************************************************************)
(* pkg_depends_internal.c and opkg_solver_internal.c                       *)
(***************************************************************************)

\* is_pkg_a_replaces: the constraint of the first replacement alone, on any
\* package.
IsReplaces(q, p) == graph.replaces[p] # <<>> /\ Meets(Head(graph.replaces[p]), q)

IsProvides(p, q, strict) ==
  \/ name[p] \in ToSet(graph.provides[q])
  \/ strict /\ Len(graph.provides[p]) = 2
            /\ graph.provides[p][2] \in ToSet(graph.provides[q])

ProvidesInstalled(m, p, strict) ==
  \E q \in Pkg : m.want[q] = "install" /\ name[q] # name[p] /\ IsProvides(p, q, strict)

FetchConflicts(m, p) ==
  {q \in Pkg : \E d \in ToSet(graph.conflicts[p]) :
     /\ name[q] = d.on
     /\ m.status[q] = "installed" \/ m.want[q] = "install"
     /\ Meets(d, q) /\ ~IsReplaces(q, p)}

\* Mutant: only one direction is looked at.
NoConflictees(m, p) == {}

FetchConflictees(m, p) ==
  {q \in Pkg : /\ m.status[q] \in InPlace
               /\ Conflicts(q, p) /\ name[q] # name[p] /\ ~Replaces(p, q)}

\* check_conflicts_for
ConflictsFound(m, p) ==
  ~m.opt.forceDepends /\ FetchConflicts(m, p) \union FetchConflictees(m, p) # {}

\* pkg_has_installed_dependents: how many, counted once per provided name,
\* and the list of those whose name is installed.
NDependents(m, p) ==
  Cardinality({<<i, n>> \in (DOMAIN graph.provides[p]) \X Names :
     Contains(graph.dependedUponBy[graph.provides[p][i]], n) /\ m.abs[n] \in InPlace})

Dependents(m, p) ==
  Extend(<<>>, SelectSeq(
    FlattenSeq([i \in DOMAIN graph.provides[p] |->
                  graph.dependedUponBy[graph.provides[p][i]]]),
    LAMBDA n : m.abs[n] = "installed"))

\* pkg_get_installed_replacees, added to the list acc
InstalledReplacees(m, p, acc) ==
  LET providers(d) ==
        IF ~ConflictsAbstract(graph, p, d.on) THEN <<>>
        ELSE SelectSeq(FlattenSeq([i \in DOMAIN graph.providedBy[d.on] |->
                                      Versions(graph.providedBy[d.on][i])]),
               LAMBDA q : q # InstalledByName(m, name[p]) /\ m.status[q] \in InPlace)
      versions(d) ==
        SelectSeq(Versions(d.on),
          LAMBDA q : Conflicts(p, q) /\ m.status[q] = "installed" /\ Meets(d, p))
  IN FoldLeft(LAMBDA s, d : Extend(Extend(s, providers(d)), versions(d)),
              acc, graph.replaces[p])

\* pkg_get_orphan_dependents, added to the list acc
OrphanDependents(m, p, old, acc) ==
  LET kept == Targets(graph.depends[p], {"depend", "recommend"})
      lost == FlattenSeq([i \in DOMAIN graph.depends[old] |->
                IF graph.depends[old][i].type \in {"depend", "recommend"}
                THEN [j \in DOMAIN graph.depends[old][i].any |->
                        graph.depends[old][i].any[j].on]
                ELSE <<>>])
      found == [i \in DOMAIN lost |-> IF lost[i] \in kept THEN NoPkg
                                      ELSE InstalledByName(m, lost[i])]
  IN acc \o SelectSeq(found, LAMBDA q :
              q # NoPkg /\ q \in m.auto /\ NDependents(m, q) = 1)
=============================================================================

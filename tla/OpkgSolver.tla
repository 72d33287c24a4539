----------------------------- MODULE OpkgSolver -----------------------------
(***************************************************************************)
(* The internal solver: how `opkg install', `opkg upgrade', `opkg remove'  *)
(* and `opkg configure' choose the packages they handle and their order.   *)
(* A command is one process.  It loads the status file, prepares and       *)
(* solves one request after the other (all are prepared first under        *)
(* --combine), carries each plan out before the next request is solved,    *)
(* configures what is unpacked and writes the status file.                 *)
(*                                                                         *)
(* What happens inside opkg_install_pkg and opkg_remove_pkg is the subject *)
(* of OpkgInstall; here they are one step that may fail.                   *)
(***************************************************************************)
EXTENDS PkgGraph

\* A world has the control files, the order of the hash table (hash_table_foreach),
\* what the status file says at first, the commands that are run, in any order
\* and as often as one likes, each [kind, args, opt], and what may fail.
CONSTANT Worlds

FaultKinds == {"fetch", "script", "extract", "prerm", "postrm", "configure"}
ASSUME WorldsOK ==
  \A w \in Worlds : /\ DOMAIN w = {"control", "order", "db", "commands", "faults"}
                    /\ w.faults \subseteq FaultKinds

VARIABLES
  world,   \* the world this is; it does not change
  db,      \* the status file
  m,       \* the package hash of the process, see PkgGraph
  cmd,     \* the command that runs or ran last
  pc,      \* where it is
  args,    \* requests still to be prepared
  ready,   \* packages prepared and still to be solved
  plan,    \* what is still to be done for the request in hand
  err      \* has the command failed so far?

vars == <<graph, world, db, m, cmd, pc, args, ready, plan, err>>

NoPlan == [top |-> NoPkg, todo |-> <<>>, orphans |-> <<>>, replacees |-> <<>>,
           undo |-> <<>>, failed |-> FALSE]

\* f with x set to v, if there is an x.
Put(f, x, v) == [y \in DOMAIN f |-> IF y = x THEN v ELSE f[y]]

\* pkg_hash_load_status_files: a fresh package hash.
Load(d, opt) ==
  LET has(n, s) == \E p \in Pkg : name[p] = n /\ d.status[p] = s
  IN [status |-> d.status, want |-> d.want, auto |-> d.auto,
      hold |-> d.hold, user |-> d.user, repl |-> {}, dirty |-> FALSE, opt |-> opt,
      abs |-> [n \in Names |-> CASE has(n, "installed") -> "installed"
                                 [] has(n, "unpacked")  -> "unpacked"
                                 [] OTHER               -> "not-installed"],
      checked |-> [n \in Names |-> 0],
      wantedBy |-> [p \in Pkg |-> {}]]

(***************************************************************************)
(* pkg_hash_fetch_unsatisfied_dependencies.  s has the marks so far        *)
(* (checked), the packages collected (vec) and whether a dependence of p   *)
(* was lost; n is the function's result.                                   *)
(***************************************************************************)
RECURSIVE Unsatisfied(_, _, _)

Scouts(c) == FlattenSeq([j \in DOMAIN c.any |->
  FlattenSeq([i \in DOMAIN graph.providedBy[c.any[j].on] |->
                Versions(graph.providedBy[c.any[j].on][i])])])

\* A clause that takes whatever provides it and has all it needs installed.
TakenIfMet(mem, s, p, r) ==
  IF r.lost \/ \E i \in 1 .. r.n : mem.want[r.vec[i]] # "install"
  THEN [s EXCEPT !.checked = r.checked]
  ELSE [s EXCEPT !.checked = r.checked, !.vec = Append(@, p)]

TakeGreedily(mem, s, p) ==
  IF mem.want[p] = "install" \/ s.checked[name[p]] # 0 \/ Contains(s.vec, p)
  THEN s
  ELSE TakenIfMet(mem, s, p, Unsatisfied(mem, [s EXCEPT !.vec = <<>>], p))

InstalledSatisfier(mem, d) ==
  BestCandidate(mem, d.on, {p \in Meeting(d) : mem.status[p] \in InPlace}, FALSE, TRUE)

\* Declined at the user's request: a recommendation, or any excluded package.
Declined(mem, c, p) ==
  \/ c.type \in {"recommend", "suggest"}
     /\ (mem.want[p] = "deinstall" \/ mem.opt.noRecommends)
  \/ name[p] \in mem.opt.exclude

Satisfier(mem, c) ==
  LET best == [j \in DOMAIN c.any |->
                 BestCandidate(mem, c.any[j].on, Meeting(c.any[j]), FALSE, TRUE)]
      fine == SelectSeq(best, LAMBDA p : p # NoPkg /\ ~Declined(mem, c, p))
  IN IF fine = <<>> THEN NoPkg ELSE Head(fine)

Lose(s, lost) == [s EXCEPT !.lost = @ \/ lost]

\* q is to satisfy the clause, and what q needs comes after it.
Add(mem, s, p, c, q) ==
  CASE q = NoPkg -> Lose(s, c.type \notin {"recommend", "suggest"})
    [] c.type = "suggest" \/ q = p \/ Contains(s.vec, q) -> s
    [] OTHER -> Lose(Unsatisfied(mem, [s EXCEPT !.vec = Append(@, q)], q), s.lost)

CheckClause(mem, s, p, c) ==
  IF c.type = "greedy"
  THEN FoldLeft(LAMBDA t, q : TakeGreedily(mem, t, q), s, Scouts(c))
  ELSE IF \E d \in ToSet(c.any) : InstalledSatisfier(mem, d) # NoPkg THEN s
  ELSE Add(mem, s, p, c, Satisfier(mem, c))

Counted(s, p) == [s EXCEPT !.n = IF graph.depends[p] = <<>> THEN 0 ELSE Len(s.vec)]

Unsatisfied(mem, s, p) ==
  IF s.checked[name[p]] # 0 THEN [s EXCEPT !.lost = FALSE, !.n = 0]
  ELSE Counted(FoldLeft(LAMBDA t, c : CheckClause(mem, t, p, c),
                        [s EXCEPT !.lost = FALSE, !.checked[name[p]] = 1],
                        graph.depends[p]), p)

\* pkg_hash_fetch_satisfied_dependencies: for every alternative of every
\* required clause the best candidate there is.
Satisfied(mem, p) ==
  LET best(c) == [j \in DOMAIN c.any |->
                    BestCandidate(mem, c.any[j].on, Meeting(c.any[j]), TRUE, FALSE)]
      of(c) == CASE c.type = "greedy"  -> SelectSeq(Scouts(c), LAMBDA q :
                                            q # p /\ mem.want[q] = "install")
                 [] c.type \in Required -> SelectSeq(best(c), LAMBDA q :
                                            q \notin {NoPkg, p} /\ mem.want[q] # "deinstall")
                 [] OTHER -> <<>>
  IN FlattenSeq([i \in DOMAIN graph.depends[p] |-> of(graph.depends[p][i])])

(***************************************************************************)
(* calculate_dependencies_for.  x has the memory m, the plan so far (todo, *)
(* replacees, orphans) and ok, false once something cannot be solved.      *)
(***************************************************************************)
RECURSIVE Calculate(_, _)

\* d is planned, y is the plan for what it needs.  What d replaces goes to the
\* replacees, and what a new version of d orphans too if d was unsatisfied.
Planned(y, d, unsatisfied, old) ==
  LET replacees == InstalledReplacees(y.m, d, y.replacees)
  IN CASE ~y.ok       -> y
       [] old = NoPkg -> [y EXCEPT !.todo = Append(@, d), !.replacees = replacees]
       [] OTHER ->
            [y EXCEPT !.todo = Append(@, d),
                      !.replacees = IF unsatisfied
                                    THEN OrphanDependents(y.m, d, old, replacees)
                                    ELSE replacees,
                      !.orphans = IF unsatisfied THEN @
                                  ELSE OrphanDependents(y.m, d, old, @)]

WantedBy(x, p, d) == [x EXCEPT !.m.wantedBy[d] = @ \union {p}]

\* One dependence d of p: plan it, after what it needs in turn, unless it is
\* in place, planned already or provided by something else.
Pull(x, p, d, unsatisfied) ==
  LET circular == ~unsatisfied /\ p \in x.m.wantedBy[d]
      needed == /\ x.m.status[d] \notin InPlace
                /\ ~Contains(x.todo, d)
                /\ ~ProvidesInstalled(x.m, d, ~unsatisfied)
      clash == needed /\ ConflictsFound(x.m, d)
  IN IF ~x.ok \/ circular THEN x
     ELSE IF clash \/ ~needed
     THEN [(IF unsatisfied THEN WantedBy(x, p, d) ELSE x) EXCEPT !.ok = ~clash]
     ELSE Planned(Calculate(WantedBy(x, p, d), d), d, unsatisfied,
                  InstalledByName(x.m, name[d]))

\* u is what of p is unsatisfied.
Follow(x, p, u) ==
  LET checked == [x EXCEPT !.m.checked = u.checked,
                           !.m.want = [q \in Pkg |-> IF u.n # 0 /\ Contains(u.vec, q)
                                                     THEN "install" ELSE @[q]]]
  IN IF u.lost /\ ~x.m.opt.forceDepends
     THEN [x EXCEPT !.m.checked = u.checked, !.ok = FALSE]
     ELSE FoldLeft(LAMBDA y, d : Pull(y, p, d, u.n # 0), checked,
                   IF u.n = 0 THEN Satisfied(x.m, p) ELSE u.vec)

Calculate(x, p) ==
  Follow(x, p, Unsatisfied(x.m, [checked |-> x.m.checked, vec |-> <<>>,
                                 lost |-> FALSE, n |-> 0], p))

NothingPlanned(mem) ==
  [m |-> mem, todo |-> <<>>, replacees |-> <<>>, orphans |-> <<>>, ok |-> TRUE]

\* opkg_install_check_downgrade: 0 to go on, 1 up to date, -1 a downgrade.
CheckDowngrade(mem, p, old) ==
  CASE old = NoPkg -> 0
    [] version[p] = version[old] -> 1
    [] version[p] < version[old] /\ ~mem.opt.forceDowngrade -> -1
    [] OTHER -> 0

\* internal_solver_solv; x is what calculate_dependencies_for finds for p.
Solved(mem, p, upgrade, old, x) ==
  LET no == [x EXCEPT !.m = mem, !.ok = FALSE]
  IN CASE mem.status[p] = "installed" /\ ~mem.opt.nodeps -> x
       [] CheckDowngrade(mem, p, old) < 0 -> no
       [] CheckDowngrade(mem, p, old) = 1 /\ ~upgrade -> NothingPlanned(mem)
       [] ConflictsFound(mem, p) -> no
       [] ~x.ok -> x
       [] OTHER -> [x EXCEPT !.orphans = IF old = NoPkg THEN @
                                         ELSE OrphanDependents(x.m, p, old, @),
                             !.replacees = InstalledReplacees(x.m, p, @)]

Solve(mem, p, upgrade) ==
  Solved(mem, p, upgrade, InstalledByName(mem, name[p]),
         IF mem.opt.nodeps THEN NothingPlanned(mem) ELSE Calculate(NothingPlanned(mem), p))

(***************************************************************************)
(* Preparing one request: [m, r, pkg], where r is the result of the C      *)
(* function (1: go on with pkg).                                           *)
(***************************************************************************)
Go(mem, old, new) ==
  [m |-> [mem EXCEPT !.want = Put(Put(@, old, "deinstall"), new, "install")],
   r |-> 1, pkg |-> new]
Stay(mem, r) == [m |-> mem, r |-> r, pkg |-> NoPkg]

\* opkg_prepare_install_by_name: a name, or a name with a version.
PrepareInstall(mem, d) ==
  LET old == InstalledByName(mem, d.on)
      new == IF d.op = "" THEN BestByName(mem, d.on)
             ELSE BestCandidate(mem, d.on, Meeting(d), FALSE, TRUE)
      asked == [mem EXCEPT !.user = @ \union {new}]
  IN CASE new = NoPkg                  -> Stay(mem, -1)
       [] old = NoPkg                  -> Go(asked, old, new)
       [] version[old] < version[new]  -> Go(asked, old, new)
       [] version[old] = version[new]  -> Stay(asked, 0)
       [] OTHER -> IF mem.opt.forceDowngrade THEN Go(asked, old, new) ELSE Stay(asked, 0)

\* opkg_prepare_upgrade_pkg: the flags and the Auto-Installed mark go over
\* from the old version to the new one.
PrepareUpgrade(mem, old) ==
  LET new  == BestByName(mem, name[old])
      take(S) == IF old \in S THEN S \union {new} ELSE S \ {new}
      kept == [mem EXCEPT !.user = take(@), !.auto = take(@),
                          !.hold = take(@), !.repl = take(@)]
  IN CASE old \in mem.hold \union mem.repl -> Stay(mem, 0)
       [] new = NoPkg                      -> Stay(mem, 0)
       [] version[old] < version[new]      -> Go(kept, old, new)
       [] OTHER                            -> Stay(mem, 0)

(***************************************************************************)
(* The two operations on one package, as the set of their outcomes.        *)
(***************************************************************************)
Outcome(mem, failed) == [m |-> mem, failed |-> failed]

\* Mutant: the new package is not marked.
OldUnwanted(mem, p, old) == [mem EXCEPT !.want = Put(@, old, "deinstall")]

Supersede(mem, p, old) == [mem EXCEPT !.want = Put(Put(@, p, "install"), old, "deinstall")]

\* Mutant: the mark of the new version stays as it is.
NotInherited(mem, p, old) == mem.auto

Inherited(mem, p, old) ==
  CASE old = NoPkg       -> mem.auto
    [] old \in mem.auto  -> mem.auto \union {p}
    [] OTHER             -> mem.auto \ {p}

\* opkg_install_pkg: refused before anything is changed; hosed, by a script
\* with its effects unwound or by the archive once the old version is gone;
\* or unpacked.  The old package's mark is passed on once it is gone.
InstallsOver(mem, p, old) ==
  LET wants  == Supersede(mem, p, old)
      heir   == Inherited(mem, p, old)
      to(st, auto) == [wants EXCEPT !.status = Put(Put(@, p, st), old, "not-installed"),
                                    !.auto = auto, !.dirty = TRUE]
      hosed(auto)  == [to("half-installed", auto) EXCEPT
                         !.user = @ \ {p}, !.hold = @ \ {p}, !.repl = @ \ {p}]
      unpacked     == to("unpacked", heir)
  IN {Outcome([unpacked EXCEPT !.abs[name[p]] = unpacked.status[p]], FALSE)}
     \union {Outcome(wants, TRUE) : f \in world.faults \intersect {"fetch"}}
     \union {Outcome(hosed(mem.auto), TRUE) : f \in world.faults \intersect {"script"}}
     \union {Outcome(hosed(heir), TRUE) : f \in world.faults \intersect {"extract"}}

Installs(mem, p) == InstallsOver(mem, p, InstalledByName(mem, name[p]))

\* opkg_remove_pkg: refused for an essential package, stopped by its prerm
\* script, or done, even when its postrm script fails.
Removals(mem, p) ==
  LET begun == [mem EXCEPT !.want[p] = "deinstall", !.dirty = TRUE]
      gone  == [begun EXCEPT !.status[p] = "not-installed", !.abs[name[p]] = "not-installed"]
      may   == IF mem.status[p] = "not-installed" THEN {} ELSE world.faults  \* its scripts are gone
  IN IF p \in graph.essential THEN {Outcome(mem, TRUE)}
     ELSE {Outcome(gone, FALSE)}
          \union {Outcome(begun, TRUE) : f \in may \intersect {"prerm"}}
          \union {Outcome(gone, TRUE) : f \in may \intersect {"postrm"}}

(***************************************************************************)
(* opkg_solver_remove: the list of what goes, [m, todo, err].              *)
(***************************************************************************)

\* opkg_get_dependent_pkgs: one level of dependents, once per package.
WithDependents(x, p) ==
  LET fresh == SelectSeq(Dependents(x.m, p), LAMBDA n :
                 x.m.checked[n] # 2 /\ n # name[p])
      pkgs  == SelectSeq(FlattenSeq([i \in DOMAIN fresh |-> Versions(fresh[i])]),
                 LAMBDA q : x.m.status[q] = "installed")
  IN IF x.m.checked[name[p]] = 2 THEN x
     ELSE [x EXCEPT !.m.checked[name[p]] = 2, !.todo = @ \o pkgs]

\* opkg_get_autoinstalled_pkgs: gives up at the first possibility that is not
\* installed.
WithOrphans(x, p) ==
  LET clauses == SelectSeq(graph.depends[p], LAMBDA c :
                   c.type \in {"predepend", "depend", "recommend"})
      names == FlattenSeq([i \in DOMAIN clauses |->
                 [j \in DOMAIN clauses[i].any |-> clauses[i].any[j].on]])
      here(i) == InstalledByName(x.m, names[i])
      gaps  == {i \in DOMAIN names : here(i) = NoPkg}
      n     == IF gaps = {} THEN Len(names)
               ELSE (CHOOSE i \in gaps : \A j \in gaps : i <= j) - 1
      found == SelectSeq([i \in 1 .. n |-> here(i)], LAMBDA q :
                 q \in x.m.auto /\ NDependents(x.m, q) = 1)
  IN [x EXCEPT !.todo = @ \o found, !.err = @ \/ gaps # {}]

\* Mutant: dependents that are only unpacked do not count.
BlockedIfConfigured(mem, p) == Dependents(mem, p) # <<>>

Blocked(mem, p) == NDependents(mem, p) > 0

RemoveOne(x, p) ==
  LET blocked == ~x.m.opt.forceDepends /\ p \notin x.m.repl /\ Blocked(x.m, p)
      y == IF blocked THEN WithDependents(x, p) ELSE x
      z == [y EXCEPT !.todo = Append(@, p)]
  IN IF blocked /\ ~x.m.opt.forceRemoval THEN [x EXCEPT !.err = TRUE]
     ELSE IF x.m.opt.autoremove THEN WithOrphans(z, p) ELSE z

RemovalPlan(mem, patterns) ==
  LET matches(S) == SelectSeq(AllInstalled(mem, Statuses \ {"not-installed"}),
                              LAMBDA p : name[p] \in S)
  IN FoldLeft(LAMBDA x, S : FoldLeft(LAMBDA y, p : RemoveOne(y, p), x, matches(S)),
              [m |-> mem, todo |-> <<>>, err |-> FALSE], patterns)

(***************************************************************************)
(* opkg_recurse_pkgs_in_order: depth first, each name once.                *)
(***************************************************************************)
RECURSIVE InOrder(_, _, _)

\* For each name depended on, the first of its providers that is there.
Descend(mem, p) ==
  LET there(n) == SelectSeq(FlattenSeq([i \in DOMAIN graph.providedBy[n] |->
                                          Versions(graph.providedBy[n][i])]),
                            LAMBDA q : mem.status[q] # "not-installed")
      first(n) == IF there(n) = <<>> THEN <<>> ELSE <<Head(there(n))>>
  IN FlattenSeq([i \in DOMAIN graph.depends[p] |->
       FlattenSeq([j \in DOMAIN graph.depends[p][i].any |->
                     first(graph.depends[p][i].any[j].on)])])

InOrder(mem, s, p) ==
  IF mem.status[p] = "not-installed" \/ name[p] \in s.visited THEN s
  ELSE LET t == FoldLeft(LAMBDA u, q : InOrder(mem, u, q),
                         [s EXCEPT !.visited = @ \union {name[p]}], Descend(mem, p))
       IN [t EXCEPT !.ordered = Append(@, p)]

\* Mutant: the order of the hash table.
HashOrder(mem) == Available

ConfigureOrder(mem) ==
  FoldLeft(LAMBDA s, p : InOrder(mem, s, p),
           [visited |-> {}, ordered |-> <<>>], Available).ordered

(***************************************************************************)
(* opkg_conf_write_status_files: what the next process will find.          *)
(***************************************************************************)
Recorded(mem, p) ==
  IF mem.status[p] # "not-installed" THEN TRUE
  ELSE \/ mem.want[p] = "deinstall" /\ p \in mem.hold
       \/ mem.want[p] = "install"
          /\ \A q \in Pkg : name[q] = name[p] => mem.status[q] = "not-installed"

StatusFile(mem) ==
  LET kept == {p \in Pkg : Recorded(mem, p)}
  IN [status |-> mem.status,
      want |-> [p \in Pkg |-> IF p \in kept THEN mem.want[p] ELSE "unknown"],
      auto |-> {p \in mem.auto : mem.status[p] # "not-installed"}, hold |-> mem.hold \intersect kept,
      user |-> mem.user \intersect kept]

(***************************************************************************)
(* The process.                                                            *)
(***************************************************************************)
NoCommand == [kind |-> "none", args |-> <<>>, opt |-> [forceDepends |-> FALSE]]

Init ==
  /\ world \in Worlds
  /\ graph = HashInsert(world.control, world.order)
  /\ db = world.db
  /\ cmd = NoCommand
  /\ m = Load(db, cmd.opt)
  /\ pc = "off" /\ args = <<>> /\ ready = <<>> /\ plan = NoPlan
  /\ err = FALSE

Start(c) ==
  /\ pc = "off"
  /\ cmd' = c
  /\ m' = Load(db, c.opt)
  /\ args' = IF c.kind = "upgrade" /\ c.args = <<>> THEN AllInstalled(m', InPlace)
             ELSE c.args
  /\ pc' = CASE c.kind = "remove"    -> "listing"
             [] c.kind = "configure" -> "ordering"
             [] OTHER                -> "requests"
  /\ err' = FALSE
  /\ UNCHANGED <<graph, world, db, ready, plan>>

\* A request of opkg_solver_install or opkg_solver_upgrade is prepared: the
\* next one, or under --combine all of them before any is solved.
PrepareNext ==
  /\ pc = "requests" /\ args # <<>>
  /\ m.opt.combine \/ ready = <<>>
  /\ LET a   == Head(args)
         old == IF a \in Pkg THEN a ELSE InstalledByName(m, a)
         x   == IF cmd.kind = "install" THEN PrepareInstall(m, a)
                ELSE IF old = NoPkg THEN Stay(m, 0)
                ELSE PrepareUpgrade(m, old)
     IN /\ m' = x.m
        /\ ready' = IF x.r = 1 THEN Append(ready, x.pkg) ELSE ready
        /\ err' = (err \/ x.r < 0)
  /\ args' = Tail(args)
  /\ UNCHANGED <<graph, world, db, cmd, pc, plan>>

\* Its plan is worked out.  An install that cannot be solved is no longer
\* wanted; for an upgrade everything stays marked.
SolveNext ==
  /\ pc = "requests" /\ ready # <<>>
  /\ m.opt.combine => args = <<>>
  /\ \E x \in {Solve(m, Head(ready), cmd.kind = "upgrade")} :
       \/ /\ x.ok
          /\ m' = x.m
          /\ plan' = [top |-> Head(ready), todo |-> Append(x.todo, Head(ready)),
                      orphans |-> x.orphans, replacees |-> x.replacees,
                      undo |-> x.replacees, failed |-> FALSE]
          /\ pc' = "executing"
          /\ UNCHANGED err
       \/ /\ ~x.ok
          /\ m' = IF cmd.kind = "install"
                  THEN [x.m EXCEPT !.want[Head(ready)] = "unknown"] ELSE x.m
          /\ err' = TRUE
          /\ UNCHANGED <<plan, pc>>
  /\ ready' = Tail(ready)
  /\ UNCHANGED <<graph, world, db, cmd, args>>

(***************************************************************************)
(* opkg_execute_install.                                                   *)
(***************************************************************************)
FlaggedReplace(p) == [m EXCEPT !.repl = @ \union {p}]

\* A failure ends the removal of the orphans and is forgotten.
RemoveOrphan ==
  /\ pc = "executing" /\ plan.orphans # <<>>
  /\ \E x \in Removals(FlaggedReplace(Head(plan.orphans)), Head(plan.orphans)) :
       /\ m' = x.m
       /\ plan' = [plan EXCEPT !.orphans = IF x.failed THEN <<>> ELSE Tail(@)]
  /\ UNCHANGED <<graph, world, db, cmd, pc, args, ready, err>>

\* A failure to remove a replacee gives the request up and brings the
\* replacees back.
RemoveReplacee ==
  /\ pc = "executing" /\ plan.orphans = <<>> /\ plan.replacees # <<>>
  /\ \E x \in Removals(FlaggedReplace(Head(plan.replacees)), Head(plan.replacees)) :
       /\ m' = x.m
       /\ plan' = [plan EXCEPT !.replacees = Tail(@)]
       /\ pc' = IF x.failed THEN "unwinding" ELSE pc
       /\ err' = (err \/ x.failed)
  /\ UNCHANGED <<graph, world, db, cmd, args, ready>>

Unwind ==
  /\ pc = "unwinding"
  /\ IF plan.undo = <<>>
     THEN pc' = "requests" /\ plan' = NoPlan /\ UNCHANGED m
     ELSE IF m.status[Head(plan.undo)] = "installed"
     THEN plan' = [plan EXCEPT !.undo = Tail(@)] /\ UNCHANGED <<m, pc>>
     ELSE \E x \in Installs(m, Head(plan.undo)) :
            /\ m' = x.m
            /\ plan' = [plan EXCEPT !.undo = IF x.failed THEN <<>> ELSE Tail(@)]
            /\ UNCHANGED pc
  /\ UNCHANGED <<graph, world, db, cmd, args, ready, err>>

Executing == pc = "executing" /\ plan.orphans = <<>> /\ plan.replacees = <<>>

\* The packages of the plan one by one; all but the requested one are marked
\* as installed automatically.  A failure does not end the loop.
InstallNext ==
  /\ Executing /\ plan.todo # <<>>
  /\ LET p == Head(plan.todo)
         marked == IF p = plan.top THEN m ELSE [m EXCEPT !.auto = @ \union {p}]
     IN IF m.status[p] \in InPlace
        THEN plan' = [plan EXCEPT !.todo = Tail(@)] /\ UNCHANGED m
        ELSE \E x \in Installs(marked, p) :
               /\ m' = x.m
               /\ plan' = [plan EXCEPT !.todo = Tail(@), !.failed = @ \/ x.failed]
  /\ UNCHANGED <<graph, world, db, cmd, pc, args, ready, err>>

FinishExecute ==
  /\ Executing /\ plan.todo = <<>>
  /\ m' = IF plan.failed /\ cmd.kind = "upgrade"
          THEN [m EXCEPT !.want = Put(Put(@, InstalledByName(m, name[plan.top]), "install"),
                                      plan.top, "unknown")]
          ELSE m
  /\ err' = (err \/ plan.failed)
  /\ plan' = NoPlan
  /\ pc' = "requests"
  /\ UNCHANGED <<graph, world, db, cmd, args, ready>>

(***************************************************************************)
(* Removal, configuration and the end of the process.                      *)
(***************************************************************************)
ListRemovals ==
  /\ pc = "listing"
  /\ LET x == RemovalPlan(m, args)
     IN m' = x.m /\ plan' = [NoPlan EXCEPT !.todo = x.todo] /\ err' = x.err
  /\ args' = <<>>
  /\ pc' = "removing"
  /\ UNCHANGED <<graph, world, db, cmd, ready>>

RemoveNext ==
  /\ pc = "removing" /\ plan.todo # <<>>
  /\ \E x \in Removals(m, Head(plan.todo)) :
       /\ m' = x.m
       /\ plan' = [plan EXCEPT !.todo = IF x.failed THEN <<>> ELSE Tail(@)]
       /\ err' = (err \/ x.failed)
  /\ UNCHANGED <<graph, world, db, cmd, pc, args, ready>>

BeginConfigure ==
  /\ \/ pc = "ordering"
     \/ pc = "requests" /\ args = <<>> /\ ready = <<>>
  /\ plan' = [NoPlan EXCEPT !.todo = ConfigureOrder(m)]
  /\ pc' = "configuring"
  /\ UNCHANGED <<graph, world, db, m, cmd, args, ready, err>>

ConfigureNext ==
  /\ pc = "configuring" /\ plan.todo # <<>>
  /\ LET p == Head(plan.todo)
     IN \/ /\ m.status[p] = "unpacked"
           /\ m' = [m EXCEPT !.status[p] = "installed", !.abs[name[p]] = "installed",
                             !.dirty = TRUE]
           /\ UNCHANGED err
        \/ /\ m.status[p] = "unpacked" /\ "configure" \in world.faults
           /\ err' = TRUE
           /\ UNCHANGED m
        \/ /\ m.status[p] # "unpacked"
           /\ UNCHANGED <<m, err>>
  /\ plan' = [plan EXCEPT !.todo = Tail(@)]
  /\ UNCHANGED <<graph, world, db, cmd, pc, args, ready>>

\* write_status_files_if_changed, and the process is gone.
Exit ==
  /\ pc \in {"removing", "configuring"} /\ plan.todo = <<>>
  /\ db' = IF m.dirty THEN StatusFile(m) ELSE db
  /\ m' = Load(db', m.opt)
  /\ pc' = "off"
  /\ UNCHANGED <<graph, world, cmd, args, ready, plan, err>>

Next ==
  \/ \E c \in world.commands : Start(c)
  \/ PrepareNext \/ SolveNext
  \/ RemoveOrphan \/ RemoveReplacee \/ Unwind \/ InstallNext \/ FinishExecute
  \/ ListRemovals \/ RemoveNext
  \/ BeginConfigure \/ ConfigureNext \/ Exit

Spec == Init /\ [][Next]_vars

(***************************************************************************)
(* Properties.                                                             *)
(***************************************************************************)

\* A command that ends without an error.
Succeeds == pc \in {"removing", "configuring"} /\ pc' = "off" /\ ~err

\* The user asked opkg not to look at dependences.
Forced == m.opt.forceDepends \/ m.opt.nodeps \/ m.opt.forceRemoval

Satisfies(d, q) == d.on \in ToSet(graph.provides[q]) /\ Meets(d, q)

ClauseMet(st, c) ==
  \E d \in ToSet(c.any) : \E q \in Pkg : st[q] \in InPlace /\ Satisfies(d, q)

Unmet(st, p) == {c \in ToSet(graph.depends[p]) : c.type \in Required /\ ~ClauseMet(st, c)}
Broken(st) == {p \in Pkg : st[p] \in InPlace /\ Unmet(st, p) # {}}

\* What the solver does guarantee: a command that succeeds breaks a package
\* only by a package it removed as an orphan or as replaced, or by one that is
\* held; version constraints, alternatives, virtual packages and cycles are
\* solved right (calculate_dependencies_for, pkg_breaks_reverse_dep).
OnlyRemovalsBreak ==
  [][LET excuses(d, q) ==
        /\ d.on \in ToSet(graph.provides[q])
        /\ \/ q \in m.repl /\ m.status[q] \notin InPlace
           \/ q \in m.hold /\ m.status[q] \in InPlace
      sound == \A q \in Pkg : db.status[q] # "half-installed"
  IN Succeeds /\ ~Forced /\ sound =>
          \A p \in Broken(m.status) \ Broken(db.status) :
            \E c \in Unmet(m.status, p) : \E d \in ToSet(c.any) : \E q \in Pkg :
              excuses(d, q)]_vars

\* `opkg remove', with or without --autoremove, breaks nothing at any step,
\* whatever order the packages come in and however many are named: a package
\* something in place needs is refused (opkg_solver_remove).
RemovalBreaksNothing ==
  [][pc = "removing" /\ ~Forced => Broken(m'.status) \subseteq Broken(m.status)]_vars

\* p conflicts with q by the name of q.
Clashes(st) ==
  {<<p, q>> \in Pkg \X Pkg :
     /\ st[p] \in InPlace /\ st[q] \in InPlace
     /\ \E d \in ToSet(graph.conflicts[p]) : d.on = name[q] /\ Meets(d, q)}

\* What packages in S may need: S and everything that satisfies a dependence of it.
RECURSIVE Closure(_, _)
Closure(S, n) ==
  IF n = 0 THEN S
  ELSE Closure(S \union {q \in Pkg : \E p \in S : \E c \in ToSet(graph.depends[p]) :
                           \E d \in ToSet(c.any) : d.on \in ToSet(graph.provides[q])}, n - 1)
MayNeed(p, q) == q \in Closure({p}, Cardinality(Pkg))

\* A command that succeeds never leaves two packages in place of which one
\* conflicts with the other, in whichever order they came and whether or not
\* they were pulled in as dependences, unless the one may need the other
\* (pkg_hash_fetch_conflicts, __pkg_hash_fetch_conflictees).
NoNewClash ==
  [][Succeeds /\ ~Forced =>
       \A x \in Clashes(m.status) \ Clashes(db.status) : MayNeed(x[1], x[2])]_vars

\* A command that succeeds leaves every package in place wanted, unless it was
\* in place unwanted before, or its removal, as an orphan or as replaced,
\* failed and was forgotten: one that is not wanted is passed over by every
\* later check of reverse dependences, conflicts and provided packages.
InPlaceIsWanted ==
  [][Succeeds => \A p \in Pkg :
       m.status[p] \in InPlace =>
         \/ m.want[p] = "install" \/ p \in m.repl
         \/ db.status[p] \in InPlace /\ db.want[p] # "install"]_vars

\* An `opkg install' that succeeds leaves in place what it was asked for, or
\* something not older, or what replaces it, however many requests follow it
\* in the same command and whatever they remove.
InstallDelivers ==
  [][LET delivered(d) == \E q \in Pkg :
        /\ d.on \in ToSet(graph.provides[q])
        /\ \/ m.status[q] \in InPlace /\ (Meets(d, q) \/ version[q] >= d.ver \/ q \in m.hold)
           \/ \E r \in Pkg : m.status[r] \in InPlace /\ Replaces(r, q)
           \/ db.status[q] = "half-installed"
  IN Succeeds /\ cmd.kind = "install" => \A d \in ToSet(cmd.args) : delivered(d)]_vars

\* A package is configured after what it needs, unless that needs it in turn:
\* a required clause that is met is met by a package whose own turn is over
\* (opkg_recurse_pkgs_in_order, for its postinst script).  Something left
\* half-installed may stand in the way.
DependencyConfiguredFirst ==
  [][LET configures(p) == pc = "configuring" /\ m.status[p] = "unpacked"
                                          /\ m'.status[p] = "installed"
      waits(q) == m.status[q] = "unpacked" /\ Contains(plan.todo, q)
      met(c, p) == \E d \in ToSet(c.any) : \E q \in Pkg :
                     m.status[q] \in InPlace /\ Satisfies(d, q) /\ (waits(q) => MayNeed(q, p))
      sound == \A q \in Pkg : m.status[q] # "half-installed"
  IN \A p \in Pkg : configures(p) /\ sound =>
          \A c \in ToSet(graph.depends[p]) \ Unmet(m.status, p) :
             c.type \in Required => met(c, p)]_vars

\* Only `opkg remove' takes a held package away, or its removal as an orphan or
\* as replaced: no install or upgrade, direct or of a dependence with any
\* version, puts another version in its place (the hold flag of opkg_cmd.c).
HeldStays ==
  [][\A p \in m.hold : m.status[p] \in InPlace /\ p \notin m'.repl /\ pc # "removing"
       => m'.status[p] \in InPlace]_vars
=============================================================================

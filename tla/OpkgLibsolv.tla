----------------------------- MODULE OpkgLibsolv -----------------------------
(***************************************************************************)
(* The other solver: opkg_solver_libsolv.c hands the package database to   *)
(* libsolv as a pool of solvables and a queue of jobs, and carries out the *)
(* transaction that comes back.  The commands around it, and the process,  *)
(* are those of OpkgSolver.                                                *)
(*                                                                         *)
(* libsolv itself is external: a solution is any set of packages that      *)
(* meets the rules which the pool and the jobs stand for, changes nothing  *)
(* without a reason, and comes in an order that follows the dependences.   *)
(***************************************************************************)
EXTENDS OpkgSolver

Installed(st) == {p \in Pkg : st[p] # "not-installed"}

(***************************************************************************)
(* The pool.                                                               *)
(***************************************************************************)

\* populate_available_repos: what may be installed.
Fresh(mem) ==
  {p \in Pkg \ (Installed(mem.status) \union mem.hold) : name[p] \notin mem.opt.exclude}

\* Mutant: what is wanted is not looked at.
NotMarked(mem) == {}

\* Marked for install by a command that failed: at this version, if the user
\* asked for it (repo_to_install), or at any, if it was to be a dependence.
Marked(mem)   == {p \in Fresh(mem) : mem.want[p] = "install"}

Pinned(mem)   == Marked(mem) \ mem.auto
Floating(mem) == Marked(mem) \intersect mem.auto

\* repo_available, the only one that names given to `opkg install' are looked
\* up in.
Offered(mem) == Fresh(mem) \ Marked(mem)

\* Mutant: of a dependence only the name counts.
MatchesByName(d, q) == d.on \in ToSet(graph.provides[q])

\* dep2id, as libsolv matches what it returns: what is only provided has no
\* version.
Matches(d, q) ==
  IF d.op = "" THEN d.on \in ToSet(graph.provides[q]) ELSE d.on = name[q] /\ Meets(d, q)

MetIn(S, c) == \E d \in ToSet(c.any) : \E q \in S : Matches(d, q)

\* pkg2solvable: requires, conflicts and obsoletes.
Requires(mem, p) ==
  IF mem.opt.nodeps THEN {} ELSE {c \in ToSet(graph.depends[p]) : c.type \in Required}

Recommends(mem, p) ==
  {c \in ToSet(graph.depends[p]) : c.type = "recommend" /\ ~mem.opt.nodeps
                                                        /\ ~mem.opt.noRecommends}

ConflictsWith(p, q) == p # q /\ \E d \in ToSet(graph.conflicts[p]) : Matches(d, q)
Obsoletes(p, q)     == p # q /\ \E d \in ToSet(graph.replaces[p]) : Matches(d, q)

(***************************************************************************)
(* The jobs.                                                               *)
(***************************************************************************)
InstallJobs(mem, c) ==
  {d \in ToSet(c.args) : c.kind = "install" /\
      \E q \in Offered(mem) : d.on \in ToSet(graph.provides[q])}

EraseJobs(mem, c) ==
  {n \in ToSet(c.args) : c.kind = "remove" /\ \E q \in Installed(mem.status) : name[q] = n}

\* SOLVER_UPDATE and SOLVER_DISTUPGRADE, of all or of what is named.
UpdateJobs(mem, c) ==
  {q \in Installed(mem.status) : c.kind \in {"upgrade", "distupgrade"}
                                 /\ (c.args = <<>> \/ name[q] \in ToSet(c.args))}

Essential(mem) == {name[p] : p \in Installed(mem.status) \intersect graph.essential}

\* Mutant: a held package is not locked.
NotLocked(mem) == {}

Locked(mem) == Installed(mem.status) \intersect mem.hold

(***************************************************************************)
(* What libsolv makes of them.                                             *)
(***************************************************************************)

\* q takes the place of p: a version of it, or something that replaces it.
TakesPlace(mem, q, p) ==
  /\ q \notin Installed(mem.status)
  /\ name[q] = name[p] \/ Obsoletes(q, p)

\* No rule keeps p in place.
MayGo(mem, c, p) ==
  \/ p \in mem.auto \/ mem.opt.forceRemoval
  \/ c.kind = "distupgrade" /\ c.args = <<>>
  \/ name[p] \in EraseJobs(mem, c)

\* The rules of packages: dependences, unless they were broken before;
\* conflicts, one version of a name, replaced packages, and packages that
\* provide the name of a new one.
Consistent(mem, T) ==
  LET here == Installed(mem.status)
  IN /\ mem.opt.forceDepends \/ \A p \in T : \A c \in Requires(mem, p) :
          MetIn(T, c) \/ (p \in here /\ ~MetIn(here, c))
     /\ \A p, q \in T :
          /\ ConflictsWith(p, q) => {p, q} \subseteq here
          /\ name[p] = name[q] => p = q \/ {p, q} \subseteq here
          /\ p \notin here /\ p # q => ~Obsoletes(p, q) /\ name[p] \notin ToSet(graph.provides[q])

\* The rules of jobs and of what is installed.
Complies(mem, c, T) ==
  LET here == Installed(mem.status)
  IN /\ T \subseteq here \union Offered(mem) \union Pinned(mem)
     /\ Pinned(mem) \union Locked(mem) \subseteq T
     /\ \A d \in InstallJobs(mem, c) : \E q \in T : Matches(d, q)
     /\ \A p \in Floating(mem) : \E q \in T : name[p] \in ToSet(graph.provides[q])
     /\ \A n \in EraseJobs(mem, c) : \A q \in T : name[q] # n
     /\ \A n \in Essential(mem) : \E q \in T : name[q] = n
     /\ \A p \in here \ T : MayGo(mem, c, p) \/ \E q \in T : TakesPlace(mem, q, p)
     /\ \A p \in here \ T, q \in T \ here :
          name[p] = name[q] /\ version[q] < version[p] =>
            mem.opt.forceDowngrade \/ c.kind = "distupgrade"

\* What comes is asked for, needed or an update; what goes has to.
Reasonable(mem, c, T) ==
  LET here == Installed(mem.status)
  IN /\ \A q \in T \ here :
          \/ q \in Pinned(mem)
          \/ \E p \in Floating(mem) : name[p] \in ToSet(graph.provides[q])
          \/ \E d \in InstallJobs(mem, c) : Matches(d, q)
          \/ \E p \in here \ T : /\ TakesPlace(mem, q, p)
                               /\ \/ p \in UpdateJobs(mem, c)
                                  \/ ~Consistent(mem, (T \ {q}) \union {p})
          \/ \E p \in T : \E k \in Requires(mem, p) \union
                                   (IF p \in here THEN {} ELSE Recommends(mem, p)) :
               \E d \in ToSet(k.any) : Matches(d, q)
     /\ \A p \in here \ T :
          \/ name[p] \in EraseJobs(mem, c) \/ mem.opt.autoremove \/ c.kind = "distupgrade"
          \/ ~Consistent(mem, T \union {p})

Solutions(mem, c) ==
  {T \in SUBSET Pkg : Complies(mem, c, T) /\ Consistent(mem, T) /\ Reasonable(mem, c, T)}

(***************************************************************************)
(* The transaction: steps [do, pkg, byJob], in the order they are taken.   *)
(***************************************************************************)
RECURSIVE Needs(_, _, _)
Needs(S, W, n) ==  \* W and what of S it needs, in n rounds
  IF n = 0 THEN W
  ELSE Needs(S, W \union {q \in S : \E p \in W : \E c \in ToSet(graph.depends[p]) :
                            c.type \in Required /\ \E d \in ToSet(c.any) : Matches(d, q)}, n - 1)

NeededFor(p, q) == q \in Needs(Pkg, {p}, Cardinality(Pkg)) /\ p \notin Needs(Pkg, {q}, Cardinality(Pkg))

\* Mutant: only of its own other version.
ReplacedVersion(mem, T, p) ==
  SetToSeq({q \in Installed(mem.status) \ T : name[q] = name[p]})

\* What p takes the place of: its own other version first.
Replaced(mem, T, p) ==
  LET gone == {q \in Installed(mem.status) \ T : TakesPlace(mem, p, q)}
  IN SetToSeq({q \in gone : name[q] = name[p]}) \o SetToSeq({q \in gone : name[q] # name[p]})

\* solver_describe_decision: a package that was asked for, and that something
\* new needs as well, may have been decided for either reason.
ByJob(mem, c, T, p) ==
  LET asks == \/ \E d \in InstallJobs(mem, c) : Matches(d, p)
              \/ \E f \in Floating(mem) : name[f] \in ToSet(graph.provides[p])
  IN CASE p \in Pinned(mem) -> {TRUE}
       [] p \notin Pinned(mem) /\ ~asks -> {FALSE}
       [] OTHER -> {TRUE} \union {FALSE : q \in {r \in T \ {p} : NeededFor(r, p)}}

Kind(mem, T, p) ==
  LET before == Replaced(mem, T, p)
  IN CASE before = <<>> -> "install"
       [] before # <<>> /\ name[Head(before)] = name[p] /\ version[p] < version[Head(before)]
            -> "downgrade"
       [] OTHER -> "upgrade"

Step(do, p, byJob) == [do |-> do, pkg |-> p, byJob |-> byJob]

\* transaction_order: what is needed before what needs it, what goes after it;
\* what was replaced follows what replaces it, once.
Orders(mem, T) ==
  LET here   == Installed(mem.status)
      erased == {p \in here \ T : \A q \in T : ~TakesPlace(mem, q, p)}
      active == erased \union (T \ here)
      before(p, q) == IF p \in erased /\ q \in erased THEN NeededFor(p, q)
                      ELSE IF p \in erased THEN ConflictsWith(p, q) \/ ConflictsWith(q, p)
                      ELSE q \notin erased /\ NeededFor(q, p)
  IN {s \in SetToSeqs(active) : \A i, j \in DOMAIN s : i < j => ~before(s[j], s[i])}

Transaction(mem, T, s, job) ==
  LET first(q) == CHOOSE i \in DOMAIN s : /\ Contains(Replaced(mem, T, s[i]), q)
                                          /\ \A j \in 1 .. i - 1 : ~Contains(Replaced(mem, T, s[j]), q)
      follows(i) == SelectSeq(Replaced(mem, T, s[i]), LAMBDA q : first(q) = i)
      ignored(i) == [k \in DOMAIN follows(i) |-> Step("ignore", follows(i)[k], FALSE)]
      step(i) == IF s[i] \in T THEN Step(Kind(mem, T, s[i]), s[i], job[s[i]])
                 ELSE Step("erase", s[i], FALSE)
  IN FlattenSeq([i \in DOMAIN s |-> <<step(i)>> \o ignored(i)])

(***************************************************************************)
(* The process.                                                            *)
(***************************************************************************)
SolvStart(c) ==
  /\ pc = "off"
  /\ cmd' = c
  /\ m' = Load(db, c.opt)
  /\ pc' = "solving"
  /\ err' = FALSE
  /\ UNCHANGED <<graph, world, db, args, ready, plan>>

\* libsolv_solver_solve: problems are printed, and nothing is done.
SolveFails ==
  /\ pc = "solving" /\ Solutions(m, cmd) = {}
  /\ err' = TRUE
  /\ pc' = "transaction" /\ plan' = NoPlan
  /\ UNCHANGED <<graph, world, db, m, cmd, args, ready>>

SolveSucceeds ==
  /\ pc = "solving"
  /\ \E T \in Solutions(m, cmd) : \E s \in Orders(m, T) :
       \E job \in [T -> BOOLEAN] :
         /\ \A p \in T : IF p \in Installed(m.status) THEN ~job[p]
                         ELSE job[p] \in ByJob(m, cmd, T, p)
         /\ plan' = [NoPlan EXCEPT !.todo = Transaction(m, T, s, job)]
  /\ pc' = "preamble"
  /\ UNCHANGED <<graph, world, db, m, cmd, args, ready, err>>

\* libsolv_solver_transaction_preamble: under --download-first nothing is
\* changed unless all packages have come.
Preamble ==
  /\ pc = "preamble"
  /\ pc' = "transaction"
  /\ \/ UNCHANGED <<plan, err>>
     \/ /\ m.opt.downloadFirst /\ "fetch" \in world.faults
        /\ \E i \in DOMAIN plan.todo : plan.todo[i].do \notin {"erase", "ignore"}
        /\ plan' = NoPlan
        /\ err' = TRUE
  /\ UNCHANGED <<graph, world, db, m, cmd, args, ready>>

\* Mutant: the rest of the transaction is carried out all the same.
CarriesOn(steps, failed) == steps

\* A step that fails is the last one.
Remaining(steps, failed) == IF failed THEN <<>> ELSE steps

Take(outcomes) ==
  /\ \E x \in outcomes :
       /\ m' = x.m
       /\ err' = (err \/ x.failed)
       /\ plan' = [plan EXCEPT !.todo = Remaining(Tail(@), x.failed)]
  /\ UNCHANGED <<graph, world, db, cmd, pc, args, ready>>

Stepping(do) == pc = "transaction" /\ plan.todo # <<>> /\ Head(plan.todo).do \in do

EraseStep == Stepping({"erase"}) /\ Take(Removals(m, Head(plan.todo).pkg))

\* What no job asked for is marked as installed automatically.
InstallStep ==
  /\ Stepping({"install", "downgrade"})
  /\ LET step == Head(plan.todo)
     IN Take(Installs(IF step.byJob THEN m ELSE [m EXCEPT !.auto = @ \union {step.pkg}],
                      step.pkg))

\* What follows as ignored is what the new package takes the place of.
UpgradeStep ==
  /\ Stepping({"upgrade"})
  /\ LET p    == Head(plan.todo).pkg
         next == IF Len(plan.todo) > 1 /\ plan.todo[2].do = "ignore"
                 THEN plan.todo[2].pkg ELSE p
         old  == InstalledByName(m, name[next])
     IN Take(InstallsOver([m EXCEPT !.auto = Inherited(m, p, old)], p,
                          IF old = NoPkg THEN InstalledByName(m, name[p]) ELSE old))

IgnoreStep == Stepping({"ignore"}) /\ Take({Outcome(m, FALSE)})

EndTransaction ==
  /\ pc = "transaction" /\ plan.todo = <<>>
  /\ pc' = IF cmd.kind = "remove" THEN "removing" ELSE "ordering"
  /\ UNCHANGED <<graph, world, db, m, cmd, args, ready, plan, err>>

SolvNext ==
  \/ \E c \in world.commands : SolvStart(c)
  \/ SolveFails \/ SolveSucceeds \/ Preamble
  \/ EraseStep \/ InstallStep \/ UpgradeStep \/ IgnoreStep \/ EndTransaction
  \/ BeginConfigure \/ ConfigureNext \/ Exit

SolvSpec == Init /\ [][SolvNext]_vars

(***************************************************************************)
(* Properties.                                                             *)
(***************************************************************************)

\* A clause is met, as the rest of opkg understands it, by what is on record.
MetOnRecord(st, c) == \E d \in ToSet(c.any) : \E q \in Installed(st) : Satisfies(d, q)

Unsupported(st) ==
  {p \in Pkg : st[p] \in InPlace /\ \E c \in ToSet(graph.depends[p]) :
                                     c.type \in Required /\ ~MetOnRecord(st, c)}

\* A command that succeeds leaves no package without what it depends on, unless
\* it was without it before: what libsolv solves is what the control files say,
\* and the whole of its solution is carried out (pkg2solvable, dep2id,
\* libsolv_solver_execute_transaction).  What is half-installed counts.
TransactionDelivers ==
  [][Succeeds /\ ~Forced => Unsupported(m.status) \subseteq Unsupported(db.status)]_vars

\* However a transaction ends, a package that it has brought came after what it
\* depends on, unless that depends on it in turn: nothing goes on after a step
\* that failed ("order the transaction so dependencies are handled first").
ArrivesAfterNeeds ==
  [][LET later(c, p) == \E i \in 2 .. Len(plan.todo) : \E d \in ToSet(c.any) :
           Satisfies(d, plan.todo[i].pkg) /\ ~NeededFor(p, plan.todo[i].pkg)
     IN pc = "transaction" /\ ~Forced => \A p \in Pkg :
          m.status[p] = "not-installed" /\ m'.status[p] = "unpacked" =>
            \A c \in ToSet(graph.depends[p]) :
               c.type \in Required => MetOnRecord(m'.status, c) \/ later(c, p)]_vars

\* A held package stays whatever is asked for, and no package that is excluded,
\* or is held out, ever comes, not even one that an earlier command could not
\* install and marked to be installed.
HeldAndExcludedStay ==
  [][\A p \in Pkg :
       /\ p \in m.hold /\ m.status[p] \in InPlace => m'.status[p] \in InPlace
       /\ m.status[p] = "not-installed" /\ m'.status[p] # "not-installed" =>
            name[p] \notin m.opt.exclude /\ p \notin m.hold]_vars

\* What a failed command has left wanted is made good by the next command that
\* succeeds, whatever that one was asked for.
PendingIsDone ==
  [][Succeeds => \A p \in Pkg :
       m.want[p] = "install" /\ m.status[p] = "not-installed" =>
         name[p] \in m.opt.exclude \/ p \in m.hold]_vars

\* "maintain the Auto-Installed flag": over upgrades, downgrades and
\* replacements a name in place keeps the mark that it has.
MarksKept ==
  [][Succeeds => \A p, q \in Pkg :
       name[p] = name[q] /\ db.status[p] \in InPlace /\ m.status[q] \in InPlace =>
         (p \in db.auto <=> q \in m.auto)]_vars

\* A command that succeeds leaves no two packages in place of which one
\* conflicts with the other, unless both were there, or a package replaces
\* several: only the first of them goes.
NoClashLeft ==
  [][Succeeds => \A p, q \in Pkg :
       /\ m.status[p] \in InPlace /\ m.status[q] \in InPlace /\ ConflictsWith(p, q)
       /\ ~{p, q} \subseteq Installed(db.status)
       => \E r, s \in Pkg : /\ r # s /\ r \in {p, q} /\ {r, s} \subseteq Installed(db.status)
                            /\ \E x \in Pkg : Obsoletes(x, r) /\ (Obsoletes(x, s) \/ name[x] = name[s])]_vars
=============================================================================

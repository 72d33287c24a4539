---------------------------- MODULE MCOpkgSolver ----------------------------
(***************************************************************************)
(* Instances of OpkgSolver for TLC: two versions of a and of b, one of c,  *)
(* and a virtual package v that b and c may provide.                       *)
(***************************************************************************)
EXTENDS OpkgSolver, TLC

MCPkg == {"a1", "a2", "b1", "b2", "c1"}
MCNames == {"a", "b", "c", "v"}
MCname == "a1" :> "a" @@ "a2" :> "a" @@ "b1" :> "b" @@ "b2" :> "b" @@ "c1" :> "c"
MCversion == "a1" :> 1 @@ "a2" :> 2 @@ "b1" :> 1 @@ "b2" :> 2 @@ "c1" :> 1
MCrank == "a" :> 1 @@ "b" :> 2 @@ "c" :> 3 @@ "v" :> 4
MCLoadOrder == <<"a1", "a2", "b1", "b2", "c1">>

On(n) == [on |-> n, op |-> "", ver |-> 0]
Is(n, op, v) == [on |-> n, op |-> op, ver |-> v]
Of(t, d) == [type |-> t, any |-> <<d>>]
Dep(d) == Of("depend", d)
Or(d, e) == [type |-> "depend", any |-> <<d, e>>]

(***************************************************************************)
(* Universes.  A field of the control files is given for a1, a2, both      *)
(* versions of b, and c1.                                                  *)
(***************************************************************************)
Field(a1, a2, b, c1) == "a1" :> a1 @@ "a2" :> a2 @@ "b1" :> b @@ "b2" :> b @@ "c1" :> c1
NoField == Field(<<>>, <<>>, <<>>, <<>>)
OwnName == [p \in Pkg |-> <<name[p]>>]
Virtual == [p \in Pkg |-> IF name[p] = "a" THEN <<"a">> ELSE <<name[p], "v">>]
Universe(deps, provs, confs, reps, ess) ==
  [depends |-> deps, provides |-> provs, conflicts |-> confs, replaces |-> reps,
   essential |-> ess]

\* Versions asked for, of packages and of what a virtual package needs.
Versioned ==
  {Universe(Field(a1, a2, b, <<>>), provs, NoField, NoField, {}) :
     a1 \in {<<Dep(On("b"))>>, <<Dep(Is("b", "=", 1))>>, <<Dep(On("v"))>>},
     a2 \in {<<Dep(On("c"))>>, <<Dep(Is("b", ">=", 2))>>},
     b \in {<<>>, <<Dep(On("c"))>>},
     provs \in {OwnName, Virtual}}

\* Alternatives, recommendations, Pre-Depends and greedy dependences.
Varied ==
  {Universe(Field(a1, a2, <<>>, c1), OwnName, NoField, NoField, {}) :
     a1 \in {<<Or(On("b"), On("c"))>>, <<Of("recommend", On("b"))>>,
             <<Of("predepend", On("b")), Dep(On("c"))>>},
     a2 \in {<<Or(Is("b", ">=", 2), On("c"))>>, <<Of("greedy", On("c"))>>,
             <<Of("suggest", On("b"))>>},
     c1 \in {<<>>, <<Dep(Is("b", ">=", 2))>>}}

\* Conflicts with a version of a package, with what is replaced, with a virtual
\* package; and what is replaced may be essential.
Conflicting ==
  {Universe(Field(<<Dep(On("b"))>>, a2, <<>>, <<>>), Virtual,
            Field(<<>>, <<>>, <<>>, <<On("b")>>), Field(<<>>, <<>>, <<>>, c), {}) :
     a2 \in {<<Dep(On("v"))>>, <<Or(On("b"), On("c"))>>},
     c \in {<<>>, <<On("b")>>}}
  \union
  {Universe(Field(<<Dep(On("b"))>>, <<Dep(On("v"))>>, <<>>, <<>>), Virtual,
            Field(<<>>, <<>>, b, c), NoField, {}) :
     b \in {<<>>, <<Is("a", "<<", 2)>>}, c \in {<<>>, <<On("v")>>}}
  \union
  {Universe(Field(<<Dep(On("b"))>>, <<Dep(On("v"))>>, <<>>, <<>>), Virtual,
            Field(<<>>, <<>>, <<>>, <<On("b")>>), Field(<<>>, <<>>, <<>>, <<On("b")>>),
            {"b1"})}

\* Cycles.
Cyclic ==
  {Universe(Field(a, a, b, c), OwnName, NoField, NoField, {}) :
     a \in {<<Dep(On("b"))>>}, b \in {<<Dep(On("a"))>>, <<Dep(On("c"))>>},
     c \in {<<Dep(On("a"))>>, <<Dep(On("b"))>>}}

(***************************************************************************)
(* Commands.                                                               *)
(***************************************************************************)
Plain == [forceDepends |-> FALSE, nodeps |-> FALSE, noRecommends |-> FALSE,
          exclude |-> {}, forceRemoval |-> FALSE, autoremove |-> FALSE,
          combine |-> FALSE, forceDowngrade |-> FALSE]
Cmd(k, as, o) == [kind |-> k, args |-> as, opt |-> o]

Everyday ==
  {Cmd("install", <<On("a")>>, Plain),
   Cmd("install", <<Is("a", "=", 1)>>, Plain),
   Cmd("install", <<Is("b", "=", 1), On("c")>>, [Plain EXCEPT !.combine = TRUE]),
   Cmd("upgrade", <<>>, Plain),
   Cmd("upgrade", <<"b">>, Plain),
   Cmd("remove", <<{"a"}>>, [Plain EXCEPT !.autoremove = TRUE]),
   Cmd("remove", <<{"b"}, {"c"}>>, Plain)}

\* With options that leave less or more to the solver.
Choosy ==
  {Cmd("install", <<Is("a", "=", 1)>>, Plain),
   Cmd("install", <<On("a")>>, [Plain EXCEPT !.noRecommends = TRUE]),
   Cmd("install", <<On("a")>>, [Plain EXCEPT !.exclude = {"c"}]),
   Cmd("install", <<Is("b", "=", 1)>>, [Plain EXCEPT !.forceDowngrade = TRUE]),
   Cmd("upgrade", <<>>, [Plain EXCEPT !.combine = TRUE]),
   Cmd("remove", <<{"b"}>>, [Plain EXCEPT !.forceRemoval = TRUE]),
   Cmd("remove", <<{"b"}>>, Plain),
   Cmd("configure", <<>>, Plain)}

\* The fewest that fill a plan with orphans, replacees and dependences.
Short ==
  {Cmd("install", <<Is("a", "=", 1)>>, Plain),
   Cmd("install", <<On("c"), On("a")>>, Plain),
   Cmd("upgrade", <<>>, Plain)}

(***************************************************************************)
(* Worlds.                                                                 *)
(***************************************************************************)
Nothing == [status |-> [p \in Pkg |-> "not-installed"],
            want |-> [p \in Pkg |-> "unknown"], auto |-> {}, hold |-> {}, user |-> {}]
HeldB == [Nothing EXCEPT !.status["b1"] = "installed", !.want["b1"] = "install",
                         !.hold = {"b1"}, !.user = {"b1"}]

\* What may happen in each of the two orders of the hash table.
World(controls, commands, database, faults) ==
  {[control |-> c, order |-> o, db |-> database, commands |-> commands, faults |-> faults] :
     c \in controls, o \in {<<"a", "b", "c">>, <<"c", "b", "a">>}}

MCWorlds ==
  World(Versioned \union Varied \union Conflicting \union Cyclic, Everyday, Nothing, {})
  \union World(Versioned \union Varied \union Cyclic, Choosy, Nothing, {})
  \union World(Versioned \union Conflicting, Everyday, HeldB, {})
  \union {w \in World(Conflicting, Short, Nothing, FaultKinds) : w.order[1] = "a"}
  \union World(Versioned, Short, Nothing, {"prerm"})
  \union {w \in World(Varied, Choosy, Nothing, {"configure"}) : w.order[1] = "c"}
=============================================================================

---------------------------- MODULE MCOpkgLibsolv ----------------------------
(***************************************************************************)
(* Instances of OpkgLibsolv for TLC, of the packages of MCOpkgSolver.      *)
(***************************************************************************)
EXTENDS OpkgLibsolv, MCOpkgSolver

\* Versions, alternatives and recommendations.
Alternative ==
  Universe(Field(<<Dep(Is("b", "=", 1))>>, <<Or(Is("b", ">=", 2), On("c"))>>, <<>>,
                 <<Of("recommend", On("b"))>>), OwnName, NoField, NoField, {})

\* What is needed in turn, and what is needed back.
Chained ==
  Universe(Field(<<Dep(On("b"))>>, <<Dep(On("c")), Of("predepend", On("b"))>>,
                 <<Dep(On("c"))>>, <<>>), OwnName, NoField, NoField, {})
Circular ==
  Universe(Field(<<Dep(On("b"))>>, <<Dep(On("b"))>>, <<Dep(On("a"))>>, <<Dep(On("b"))>>),
           OwnName, NoField, NoField, {})

\* c replaces b, which a essential package may need, or both a and b.
Replacing ==
  Universe(Field(<<Dep(On("v"))>>, <<Dep(On("v"))>>, <<>>, <<>>), Virtual,
           Field(<<>>, <<>>, <<>>, <<On("b")>>), Field(<<>>, <<>>, <<>>, <<On("b")>>),
           {"a1", "a2"})
ReplacingBoth ==
  Universe(NoField, OwnName, Field(<<>>, <<>>, <<>>, <<On("a"), On("b")>>),
           Field(<<>>, <<>>, <<>>, <<On("a"), On("b")>>), {})

Universes == {Alternative, Chained, Circular, Replacing, ReplacingBoth}

Default == Plain @@ [downloadFirst |-> FALSE]

Usual ==
  {Cmd("install", <<On("a")>>, Default),
   Cmd("install", <<Is("b", "=", 1), On("c")>>, [Default EXCEPT !.downloadFirst = TRUE]),
   Cmd("upgrade", <<>>, Default),
   Cmd("remove", <<"b">>, [Default EXCEPT !.autoremove = TRUE])}

WithOptions ==
  {Cmd("install", <<Is("a", "=", 1)>>, [Default EXCEPT !.exclude = {"c"}]),
   Cmd("install", <<Is("b", "=", 1)>>, [Default EXCEPT !.forceDowngrade = TRUE]),
   Cmd("install", <<On("c")>>, [Default EXCEPT !.noRecommends = TRUE]),
   Cmd("upgrade", <<"b">>, Default),
   Cmd("remove", <<"a", "c">>, [Default EXCEPT !.forceRemoval = TRUE]),
   Cmd("distupgrade", <<>>, Default)}

In(universes, commands, database, faults) ==
  {w \in World(universes, commands, database, faults) : w.order[1] = "a"}

SolvWorlds ==
  In(Universes, Usual, Nothing, {"fetch"})
  \union In(Universes, WithOptions, Nothing, {"fetch"})
  \union In(Universes, Usual, HeldB, {"extract", "prerm"})
=============================================================================

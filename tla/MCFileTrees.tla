----------------------------- MODULE MCFileTrees -----------------------------
(***************************************************************************)
(* Instances of FileTrees for TLC: two versions of a, one of b and of c.   *)
(***************************************************************************)
EXTENDS FileTrees, TLC

MCPkg == {"a1", "a2", "b1", "c1"}
MCNames == {"a", "b", "c"}
MCname == "a1" :> "a" @@ "a2" :> "a" @@ "b1" :> "b" @@ "c1" :> "c"
MCversion == "a1" :> 1 @@ "a2" :> 2 @@ "b1" :> 1 @@ "c1" :> 1

MCPath == {<<"lib">>, <<"dir">>, <<"lib", "x">>, <<"lib", "y">>, <<"dir", "x">>, <<"dir", "y">>}

D(path)    == [path |-> path, kind |-> "dir", to |-> <<>>]
F(path)    == [path |-> path, kind |-> "file", to |-> <<>>]
L(path, q) == [path |-> path, kind |-> "link", to |-> q]

Archives(a1, a2, b1, c1) == "a1" :> a1 @@ "a2" :> a2 @@ "b1" :> b1 @@ "c1" :> c1

\* Directories that a package has in common with others, with files or empty,
\* one in another; a file in the place of one.
Directories ==
  Archives(<<D(<<"dir">>), D(<<"dir", "x">>), F(<<"dir", "y">>)>>, <<D(<<"lib">>), F(<<"lib", "x">>)>>,
           <<D(<<"dir">>)>>, <<F(<<"dir">>), D(<<"lib">>)>>)

\* A link to a directory that comes with it (issue91), a directory where the
\* link is (issue13574), and the same link or another one (issue11033).
Links ==
  Archives(<<D(<<"dir">>), L(<<"lib">>, <<"dir">>), F(<<"dir", "x">>)>>,
           <<D(<<"dir">>), D(<<"lib">>), F(<<"lib", "x">>)>>,
           <<D(<<"lib">>), F(<<"lib", "y">>)>>,
           <<D(<<"dir">>), L(<<"lib">>, <<"dir">>)>>)

\* Nothing in common; kinds change with the version.
Separate ==
  Archives(<<D(<<"lib">>), D(<<"lib", "x">>), D(<<"lib", "y">>)>>, <<F(<<"lib">>)>>,
           <<D(<<"dir">>), F(<<"dir", "y">>)>>, <<F(<<"dir", "x">>)>>)

MCWorlds ==
  {[archive |-> a, order |-> o, batch |-> b] :
     a \in {Directories, Links, Separate},
     o \in {<<"a1", "a2", "b1", "c1">>, <<"c1", "b1", "a1", "a2">>}, b \in BOOLEAN}
=============================================================================

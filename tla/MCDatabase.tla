----------------------------- MODULE MCDatabase -----------------------------
(***************************************************************************)
(* Worlds of PkgDatabase: three names and three files in two buckets each. *)
(***************************************************************************)
EXTENDS PkgDatabase

CONSTANTS tool, other, virtual, bin, doc, conf

MCNames == {tool, other, virtual}
MCFile  == {bin, doc, conf}

MCNameHash == (tool :> 1) @@ (other :> 2) @@ (virtual :> 2)
MCFileHash == (bin :> 1) @@ (doc :> 1) @@ (conf :> 1)

Listed(name, version, files) ==
  [name |-> name, version |-> version, arch |-> "all", want |-> "unknown", flags |-> {},
   status |-> "not-installed", auto |-> FALSE, needs |-> {}, provides |-> {}, files |-> files,
   info |-> [v |-> ParseVersion(version), build |-> 1]]

OnDepends(st, type, n) == [st EXCEPT !.needs = @ \cup {[type |-> type, name |-> n]}]
Providing(st, n)       == [st EXCEPT !.provides = @ \cup {n}]

V1 == <<"1">>
V2 == <<"1", "-", "2">>

World(feeds, flags) ==
  [feeds |-> feeds, status |-> <<>>, flags |-> flags, removesHeld |-> FALSE, fails |-> FALSE,
   askers |-> {TRUE}, asked |-> {V1, V2}]

\* Two versions, of which the newer one no longer has a file; marks of the user.
Versioned ==
  World({<<Listed(tool, V1, {bin, doc}), Listed(tool, V2, {doc})>>}, {"ok", "noprune"})

\* A source that is updated: a package is dropped, one gains a dependence and
\* loses a name it provides.
Changing ==
  World({<<Providing(Listed(tool, V1, {bin}), virtual), Listed(other, V1, {doc, conf})>>,
         <<OnDepends(Listed(tool, V1, {bin}), "DEPEND", other)>>}, {})

Failing ==
  [World({<<Listed(tool, V1, {bin, doc}), Listed(tool, V2, {doc})>>}, {}) EXCEPT !.fails = TRUE,
                                                                   !.askers = BOOLEAN]

Held ==
  World({<<Listed(tool, V1, {bin, doc}), Listed(tool, V2, {doc})>>}, {"hold", "ok"})

\* What is held is removed all the same, and its record stays.
HeldRemoved == [World({<<Listed(tool, V1, {bin, doc})>>}, {"hold"}) EXCEPT !.removesHeld = TRUE]

MCInfo == {[v |-> ParseVersion(s), build |-> 1] : s \in {V1, V2}}

Texts ==
  UNION {[1..k -> {"~", "0", "1", "a", ".", "-"}] : k \in 0..3}
    \cup {<<epoch, ":", c>> : epoch \in {"0", "1", "7"}, c \in {"0", "a"}}

\* A list that gives no Filename: there is only a version to be compared.
Ordered(s) == [World({<<[Listed(tool, s, {}) EXCEPT !.info = NoInfo]>>}, {})
                 EXCEPT !.asked = Texts]

MCWorlds == {Versioned, Changing, Failing, Held, HeldRemoved} \cup {Ordered(s) : s \in Texts}
=============================================================================

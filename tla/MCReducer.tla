----------------------------- MODULE MCReducer -----------------------------
(***************************************************************************)
(* Inputs for Reducer, made by RepoLoader from small repositories: two      *)
(* versions of a package, one package in two repositories with different    *)
(* priorities and possibly different contents, names that are prefixes of   *)
(* others, cyclic and rich requirements, an excluded package and a package  *)
(* of a foreign architecture.                                               *)
(***************************************************************************)
EXTENDS Reducer

Loader == INSTANCE RepoLoader
Abs == INSTANCE Reduction WITH
         status <- IF pc \in {"done", "failed", "panicked"} THEN pc ELSE "running",
         result <- IF pc = "done" THEN Involved ELSE {}

AbsSpec == Abs!AbsSpec

foo == <<"foo">>
foo1 == <<"foo", "-", "1">>   \* a package, as compat-lua-5.1 beside lua
bar == <<"bar">>
lib == <<"lib">>
file == <<"/file">>
rich == <<"(", "gcc">>

Pkg(name, ver, prio, prov, req) ==
  [name |-> name, ver |-> ver, arch |-> "x", hasRepository |-> TRUE, priority |-> prio,
   provides |-> prov \cup {name}, files |-> {}, requires |-> req]

\* What a package may require.
Requirements == {<<>>, <<lib>>, <<rich, file, bar>>}

\* The first repository: the extra package is of a foreign architecture.
Primary(r1, r2, r3) ==
  [packages |-> <<Pkg(foo, <<"1", "2">>, 99, {}, r1),
                  Pkg(foo, <<"2">>, 99, {lib}, r2),
                  [Pkg(foo, <<"1", "3">>, 99, {lib}, <<>>) EXCEPT !.arch = "y"],
                  Pkg(bar, <<"1">>, 99, {lib}, r3)>>,
   exclude  |-> <<>>]

\* The second: another copy of bar, and a package that may be excluded.
Updates(prio, prov, r4, r5, rex) ==
  [packages |-> <<Pkg(bar, <<"1">>, prio, prov, r4),
                  [Pkg(foo1, <<"1">>, prio, {}, r5) EXCEPT !.files = {file}]>>,
   exclude  |-> rex]

NotFoo1 == <<[ok |-> TRUE, matches |-> {[name |-> foo1, ver |-> <<"1">>, arch |-> "x"]}]>>

Broken == <<[ok |-> FALSE, matches |-> {}]>>

Caches ==
  {[ok |-> TRUE, repos |-> <<Primary(r1, r2, r3), Updates(prio, {lib}, r4, r5, rex)>>] :
     r1 \in {<<lib>>, <<rich, file, bar>>}, r2 \in Requirements, r3 \in {<<>>, <<file>>},
     prio \in {1, 99}, r4 \in {<<>>, <<file>>}, r5 \in {<<>>, <<foo>>},
     rex \in {<<>>, NotFoo1, Broken}}
  \cup   \* the copies of bar provide different things
  {[ok |-> TRUE, repos |-> <<Primary(<<rich, file, bar>>, r2, <<>>),
                             Updates(99, {file}, r4, <<foo>>, <<>>)>>] :
     r2 \in Requirements, r4 \in {<<>>, <<file>>}}

MissingLists == {<<<<"none">>, foo \o <<"-">>>>}

RequestLists ==
  {<<bar>>, <<foo1>>, <<foo1, bar>>, <<foo \o <<".", "x", "-", "2">>>>} \cup MissingLists

\* The updates come from the cache or from a repository file, which the loader
\* reads first.
Loads ==
  {<<<<>>, c>> : c \in Caches} \cup
  {<<<<[ok |-> TRUE, packages |-> c.repos[2].packages]>>,
     [ok |-> TRUE, repos |-> <<c.repos[1]>>]>> : c \in {d \in Caches : d.repos[2].exclude = <<>>}}

PackageLists ==
  {Loader!Loaded(l[1], l[2], {"x"}) : l \in {k \in Loads : ~Loader!LoadFails(k[1], k[2], {"x"})}}

MCInputs ==
  {[packages |-> p, requests |-> r, ignoreMissing |-> FALSE] : p \in PackageLists, r \in RequestLists}
  \cup
  {[packages |-> p, requests |-> r, ignoreMissing |-> TRUE] : p \in PackageLists, r \in MissingLists}

\* Requests for a package that exists by its full version and architecture.
FullVersionInputs ==
  {[packages |-> p, requests |-> <<bar \o <<"-", "1", ".", "x">>>>, ignoreMissing |-> FALSE] :
     p \in PackageLists}
============================================================================

----------------------------- MODULE MCResolver -----------------------------
(***************************************************************************)
(* Inputs of Resolver: an application, a library in two versions and        *)
(* another architecture, a plugin and an alternative to the library, with   *)
(* many ways to require each other and to conflict.                         *)
(***************************************************************************)
EXTENDS Resolver

V(ver, rel) == [ver |-> ver, rel |-> rel]
Prov(name, version) == [name |-> name, version |-> version]
Req(name, flags, version) == [name |-> name, flags |-> flags, version |-> version]
AnyOf(name) == Req(name, "", V(0, 0))

Rpm(name, version, arch, prio, prov, req, conf) ==
  [name |-> name, version |-> version, arch |-> arch, priority |-> prio, hasRepository |-> TRUE,
   readable |-> TRUE, provides |-> prov \cup {Prov(name, version)}, files |-> {},
   requires |-> req, conflicts |-> conf]

AppRequires == {<<Req("lib", "GE", V(1, 0))>>, <<Req("lib", "EQ", V(1, 0)), AnyOf("plug")>>,
                <<Req("lib", "LT", V(2, 0))>>, <<Req("lib", "GT", V(1, 5)), AnyOf("so")>>}

\* The packages of an input; alt may provide the name of another package.
Lists ==
  {<<Rpm("app", V(1, 1), "x", 99, {}, ra, <<>>),
     Rpm("lib", V(1, 1), "x", IF cp = <<>> THEN 1 ELSE 99, {Prov("so", V(0, 0))}, <<>>, <<>>),
     Rpm("lib", V(2, 1), "x", 99, {}, rl, cl),
     Rpm("lib", V(3, 1), "noarch", 99, {Prov("so", V(0, 0))}, <<>>, <<>>),
     Rpm("alt", V(9, 1), "noarch", 99, {alt, Prov("so", V(1, 0))}, <<>>,
         IF rl = <<>> THEN <<>> ELSE <<Req("lib", "LE", V(2, 0))>>),
     [Rpm("plug", V(1, 1), "noarch", 99, {}, <<>>, cp) EXCEPT !.files = {"/plug"}]>> :
     ra \in AppRequires, rl \in {<<>>, <<AnyOf("/plug"), AnyOf("app")>>},
     cl \in {<<>>, <<AnyOf("so")>>}, alt \in {Prov("lib", V(2, 0)), Prov("plug", V(9, 0))},
     cp \in {<<>>, <<AnyOf("alt"), AnyOf("gone")>>}}

Regex1(names) == <<[ok |-> TRUE,
                    matches |-> {[name |-> <<m[1]>>, ver |-> <<m[2]>>, arch |-> m[3]] : m \in names}]>>
Bad == <<[ok |-> FALSE, matches |-> {}]>>
NoPlug == Regex1({<<"plug", V(1, 1), "noarch">>})
NoLib  == Regex1({<<"lib", V(2, 1), "x">>, <<"alt", V(9, 1), "noarch">>})

Call(packages, requests, baseSystem, ignoreMissing, allow, ignore, nobest) ==
  [packages |-> packages, requests |-> requests, baseSystem |-> baseSystem,
   ignoreMissing |-> ignoreMissing, allow |-> allow, ignore |-> ignore, nobest |-> nobest,
   architectures |-> <<"x", "noarch">>]

SomeList == CHOOSE l \in Lists : Len(l[3].requires) = 2 /\ l[3].conflicts = <<>>

\* The list, when the packages of the set come from a file.
FromFile(l, S) == [p \in DOMAIN l |-> [l[p] EXCEPT !.hasRepository = p \notin S]]

\* The list, with a copy of the library in a better repository, which may provide more.
WithCopy(l, extra) == l \o <<[l[3] EXCEPT !.priority = 1, !.provides = @ \cup extra]>>

MCInputs ==
  {Call(l, <<"app">>, o[1], FALSE, <<>>, o[2], o[3]) : l \in Lists,
     o \in {<<<<>>, <<>>, FALSE>>, <<<<>>, NoLib, TRUE>>, <<<<"plug">>, NoLib, FALSE>>,
            <<<<"plug">>, NoPlug, FALSE>>, <<<<"plug">>, <<>>, TRUE>>,
            <<<<"alt">>, <<>>, FALSE>>, <<<<"alt">>, <<>>, TRUE>>}}
  \cup
  {Call(SomeList, r, <<>>, im, allow, <<>>, TRUE) :
     r \in {<<"gone">>, <<"lib", "gone">>}, im \in BOOLEAN, allow \in {<<>>, NoLib, Bad}}
  \cup
  {Call(WithCopy(l, extra), <<"app">>, <<"alt">>, FALSE, <<>>, <<>>, TRUE) :
     l \in {k \in Lists : k[3].requires # <<>> /\ k[3].conflicts = <<>>},
     extra \in {{}, {Prov("so", V(1, 0))}}}
  \cup
  {Call(FromFile(SomeList, file), r, <<>>, FALSE, <<>>, <<>>, FALSE) :
     r \in {<<"lib">>, <<"lib", "app", "app">>}, file \in {{1}, {3}, {6}}}

\* One of the packages has a checksum of a kind that Integrity does not know; the
\* plugin may come from a file.
  \cup
  {Call([SomeList EXCEPT ![bad].readable = FALSE, ![6].hasRepository = repo], r, <<>>, FALSE,
        <<>>, <<>>, FALSE) : bad \in {1, 3, 6}, repo \in BOOLEAN, r \in {<<"app">>, <<"plug">>}}

\* The packages of one input file.
FileInputs == {Call(FromFile(l, DOMAIN l), <<"app">>, <<>>, FALSE, <<>>, <<>>, FALSE) : l \in Lists}
============================================================================

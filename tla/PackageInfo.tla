---------------------------- MODULE PackageInfo ----------------------------
(***************************************************************************)
(* What RepoReducer.Resolve reads and never changes: its arguments and the  *)
(* packageInfo the loader built (pkg/reducer/reducer.go, loader.go).        *)
(*                                                                          *)
(* A package is named by its index in `packages`, the order in which the    *)
(* loader appended it; two packages with the same Key (one package in two   *)
(* repositories) are two indices.  A string of the program is a sequence of *)
(* tokens, so that the prefix and length tests of packageMatchesString mean *)
(* what they mean in the code.                                              *)
(***************************************************************************)
EXTENDS Integers, Sequences, FiniteSets

String == Seq(STRING)   \* a string of the program, cut into tokens

\* The fields of api.Package that the reducer reads.  Repository is set for a
\* package of the cache only; priority is that of the repository (a smaller
\* number is preferred).
Package == [name: String, ver: String, arch: STRING,
            hasRepository: BOOLEAN, priority: Int,
            provides: SUBSET String, files: SUBSET String,
            requires: Seq(String)]

\* A call: what was loaded, the packages asked for and the base system, in order.
Input == [packages: Seq(Package), requests: Seq(String), ignoreMissing: BOOLEAN]

VARIABLE input   \* the call under way

packages == input.packages
requests == input.requests
Packages == DOMAIN packages

Key(p) == [name |-> packages[p].name, ver |-> packages[p].ver, arch |-> packages[p].arch]
Keys == {Key(p) : p \in Packages}
Name(p) == packages[p].name
Priority(p) == packages[p].priority

packageMatchesString(p, req) ==
  LET pkg  == packages[p]
      full == pkg.name \o <<"-">> \o pkg.ver
  IN  \/ req = pkg.name
      \/ /\ Len(req) \in (Len(pkg.name) + 1)..Len(full)   \* a prefix of full
         /\ req = SubSeq(full, 1, Len(req))
      \/ req = pkg.name \o <<".", pkg.arch>>
      \/ req = pkg.name \o <<".", pkg.arch, "-">> \o pkg.ver

Matching(req) == {p \in Packages : packageMatchesString(p, req)}

\* The first match among those with the shortest name gives the name;
\* every match with that name is a candidate.
FirstShortest(req) ==
  CHOOSE p \in Matching(req) : \A q \in Matching(req) :
     \/ Len(Name(p)) < Len(Name(q))
     \/ Len(Name(p)) = Len(Name(q)) /\ p <= q

Candidates(req) ==
  {p \in Matching(req) : Name(p) = Name(FirstShortest(req))}

\* r.packageInfo.provides[cap]: capabilities and files alike.
Provides(p, cap) == cap \in packages[p].provides \/ cap \in packages[p].files

\* The packages r.requires(p) returns, and q being returned before r.
requires(p) ==
  {q \in Packages : \E n \in DOMAIN packages[p].requires :
                      Provides(q, packages[p].requires[n])}

WantedBefore(p, q, r) ==
  LET At(x, n) == n \in DOMAIN packages[p].requires
                  /\ Provides(x, packages[p].requires[n])
  IN  \E n \in DOMAIN packages[p].requires :
         At(q, n) /\ \A m \in 1..n : At(r, m) => m = n /\ q <= r
============================================================================

---------------------------- MODULE BestPackages ----------------------------
(***************************************************************************)
(* What Load of pkg/sat/loader.go does with the order of versions, for the  *)
(* packages of one name: it sorts the packages, which come out of a map in  *)
(* any order, and picks the best of each architecture in one pass; it sorts *)
(* what is left from the worst to the best, for the soft clauses, while     *)
(* resolveNewest looks for the newest of it. The sorts of the standard      *)
(* library compare one package with the next: the result is any order in    *)
(* which none is followed by one that is less.                              *)
(***************************************************************************)
EXTENDS RpmVersions, FiniteSets, SequencesExt

CONSTANT
  Pools       \* sets of packages

ASSUME PoolsAssumption ==
  \A S \in Pools : S \subseteq Package /\ IsFiniteSet(S) /\ S # {}

VARIABLES
  pool,       \* the packages to load
  queue,      \* those still to be looked at, in order
  seen,       \* those that have been looked at
  best,       \* bestPackages, by architecture
  newest,     \* <<>>, or what resolveNewest has found so far
  ranked,     \* m.packages: the packages that have variables, the worst first
  pc

loading == <<pool, queue, seen, best, newest, ranked, pc>>

Arrangements(S) == {s \in [1..Cardinality(S) -> S] : S \subseteq Range(s)}

LoadInit ==
  /\ pool \in Pools
  /\ queue = <<>> /\ seen = {} /\ best = <<>> /\ newest = <<>> /\ ranked = <<>>
  /\ pc = "sort"

SortKeys ==
  /\ pc = "sort"
  /\ queue' \in {s \in Arrangements(pool) :
                 \A n \in 1..(Len(s) - 1) : ComparePackageKey(s[n], s[n + 1]) <= 0}
  /\ pc' = "best"
  /\ UNCHANGED <<pool, seen, best, newest, ranked>>

Replaces_Older(p, q) == ComparePackage(p, q) < 0   \* mutant: the older one is kept
Replaces(p, q) == ComparePackage(p, q) > 0

PickBest ==
  /\ pc = "best" /\ queue # <<>>
  /\ \E p \in {Head(queue)} :
       /\ seen' = seen \cup {p}
       /\ best' = IF p.arch \in DOMAIN best /\ ~Replaces(p, best[p.arch]) THEN best
                  ELSE [a \in DOMAIN best \cup {p.arch} |-> IF a = p.arch THEN p ELSE best[a]]
  /\ queue' = Tail(queue)
  /\ UNCHANGED <<pool, newest, ranked, pc>>

Rankings(S) ==
  {s \in Arrangements(S) : \A n \in 1..(Len(s) - 1) : ComparePackage(s[n], s[n + 1]) <= 0}

Rank_Apart ==   \* mutant: what is ranked is not what has variables
  /\ pc = "best" /\ queue = <<>>
  /\ ranked' \in Rankings(pool) /\ queue' \in Arrangements(Range(best))
  /\ seen' = {} /\ pc' = "newest"
  /\ UNCHANGED <<pool, best, newest>>

\* What is left are all packages (nobest) or the best ones; they provide the name in
\* the order of their variables, here in any.
Rank ==
  /\ pc = "best" /\ queue = <<>>
  /\ \E kept \in {pool, Range(best)} :
       ranked' \in Rankings(kept) /\ queue' \in Arrangements(kept)
  /\ seen' = {} /\ pc' = "newest"
  /\ UNCHANGED <<pool, best, newest>>

ResolveNewest ==
  /\ pc = "newest" /\ queue # <<>>
  /\ \E p \in {Head(queue)} :
       /\ seen' = seen \cup {p}
       /\ newest' = IF newest # <<>> /\ ~Replaces(p, newest[1]) THEN newest ELSE <<p>>
  /\ queue' = Tail(queue)
  /\ UNCHANGED <<pool, best, ranked, pc>>

Terminated == pc = "newest" /\ queue = <<>> /\ UNCHANGED loading

LoadNext == SortKeys \/ PickBest \/ Rank \/ ResolveNewest \/ Terminated

LoadSpec == LoadInit /\ [][LoadNext]_loading
----------------------------------------------------------------------------
LoadTypeOK ==
  /\ pc \in {"sort", "best", "newest"}
  /\ seen \subseteq pool /\ Range(queue) \subseteq pool
  /\ Range(best) \subseteq pool /\ Range(newest) \subseteq pool
  /\ Range(ranked) = IF pc = "newest" THEN seen \cup Range(queue) ELSE {}

\* A pass that compares each package with the best so far finds one that none of
\* those seen exceeds (loader.go:127-135, 352-364): the order of the versions is
\* transitive, whatever kinds of parts they are made of.
NothingSeenIsBetter ==
  /\ pc = "best" => \A p \in seen :
       p.arch \in DOMAIN best /\ ComparePackage(p, best[p.arch]) <= 0
  /\ pc = "newest" => \A p \in seen : ComparePackage(p, newest[1]) <= 0

\* A sort compares neighbours, the soft clauses take the whole list to be ordered,
\* and its last package to be as new as the one a request resolves to
\* (loader.go:163-167, sat.go:129-140).
RankedThroughout ==
  pc = "newest" =>
    /\ \A m, k \in DOMAIN ranked : m < k =>
         ComparePackage(ranked[m], ranked[k]) <= 0 /\ ComparePackage(ranked[k], ranked[m]) >= 0
    /\ queue = <<>> => ComparePackage(newest[1], ranked[Len(ranked)]) = 0

\* A provided version is less than, equal to or greater than what a requirement
\* names, never two of these, whichever of them leaves its release out
\* (loader.go:374-415); and who has what a later version asks for, has what an
\* earlier one does, if both name a release or neither does.
Bounds(dep, entry) == {f \in {"LT", "EQ", "GT"} : works(f, dep, entry)}
BoundsConsistent ==
  pc = "sort" => \A p, q, r \in pool :
    LET dep == p.version  v == q.version  w == r.version IN
    ~Unversioned(Provided(dep, v)) /\ ~Unversioned(Provided(dep, w)) =>
      /\ Cardinality(Bounds(dep, v)) = 1
      /\ works("GE", dep, v) = (works("GT", dep, v) \/ works("EQ", dep, v))
      /\ works("LE", dep, v) = (works("LT", dep, v) \/ works("EQ", dep, v))
      /\ (v.rel = <<>>) = (w.rel = <<>>) =>
           /\ works("GE", dep, v) /\ Compare(w, v) <= 0 => works("GE", dep, w)
           /\ works("LE", dep, v) /\ Compare(v, w) <= 0 => works("LE", dep, w)

\* What Load picks, ranks and resolves to is the best there is, in whatever order
\* the packages are listed, and the bounds of requirements agree with that order.
BestFound == LoadTypeOK /\ NothingSeenIsBetter /\ RankedThroughout /\ BoundsConsistent

\* Two versions are only equal when they say the same: their parts differ in
\* leading zeros at most. Numbers beyond an int are not told apart (rpm.go:179).
Leading(text, n) ==   \* a zero that says nothing
  /\ text[n] = 48 /\ n < Len(text) /\ isNum(text[n + 1])
  /\ \A m \in 1..n : (\A k \in m..n : isNum(text[k])) => text[m] = 48
Meaning(text) ==
  LET said[n \in 0..Len(text)] ==
        IF n = 0 THEN <<>>
        ELSE IF Leading(text, n) THEN said[n - 1] ELSE Append(said[n - 1], text[n])
  IN  said[Len(text)]
Number(digits) ==
  LET value[n \in 0..Len(digits)] ==
        IF n = 0 THEN 0 ELSE 10 * value[n - 1] + digits[n] - 48
  IN  value[Len(digits)]
Fits(text) == \A m, k \in DOMAIN text :
  (\A n \in m..k : isNum(text[n])) => Number(SubSeq(text, m, k)) <= MaxInt
EqualMeansSame ==
  pc = "sort" => \A p, q \in pool :
    Compare(p.version, q.version) = 0 /\ Fits(p.version.ver) /\ Fits(q.version.ver) =>
      Meaning(p.version.ver) = Meaning(q.version.ver)
=============================================================================

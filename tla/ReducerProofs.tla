--------------------------- MODULE ReducerProofs ---------------------------
(***************************************************************************)
(* Proofs about Reducer: its invariants for every list of packages and      *)
(* requests, and that it implements Reduction.                              *)
(***************************************************************************)
EXTENDS Reducer, TLAPS, FiniteSetTheorems, WellFoundedInduction

Abs == INSTANCE Reduction WITH
         status <- IF pc \in {"done", "failed", "panicked"} THEN pc ELSE "running",
         result <- IF pc = "done" THEN Involved ELSE {}
----------------------------------------------------------------------------
\* A set of naturals that is not empty has a least element.
LEMMA NatMinimum ==
  ASSUME NEW S \in SUBSET Nat, S # {}
  PROVE  \E x \in S : \A y \in S : x <= y
<1> DEFINE Less == {ss \in Nat \X Nat : ss[1] < ss[2]}
<1>1. IsWellFoundedOn(Less, Nat)
  BY NatLessThanWellFounded, Zenon DEF OpToRel
<1>2. PICK x \in S : \A y \in S : <<y, x>> \notin Less
  BY <1>1, WFMin, Zenon
<1>3. \A y \in S : ~(y < x)
  BY <1>2
<1> QED
  BY <1>3

\* A function from 1..n to the integers has a lower bound: otherwise there
\* would be a least m such that its restriction to 1..m has none.
LEMMA LowerBound ==
  ASSUME NEW n \in Nat, NEW f \in [1..n -> Int]
  PROVE  \E b \in Int : \A x \in 1..n : b <= f[x]
<1> DEFINE Unbounded == {m \in 0..n : ~ \E b \in Int : \A x \in 1..m : b <= f[x]}
<1>1. SUFFICES ASSUME Unbounded # {} PROVE FALSE
  <2>1. n \notin Unbounded => \E b \in Int : \A x \in 1..n : b <= f[x]
    OBVIOUS
  <2> HIDE DEF Unbounded
  <2> QED BY <1>1, <2>1
<1>2. PICK m \in Unbounded : \A y \in Unbounded : m <= y
  <2>1. Unbounded \in SUBSET Nat
    OBVIOUS
  <2> HIDE DEF Unbounded
  <2> QED BY <1>1, <2>1, NatMinimum
<1>3. m # 0
  <2>1. \A x \in 1..0 : 0 <= f[x]
    OBVIOUS
  <2> QED BY <2>1
<1>4. m - 1 \in 0..n /\ m - 1 \notin Unbounded
  <2>1. m \in 0..n
    OBVIOUS
  <2>2. m - 1 \in 0..n /\ ~(m <= m - 1)
    BY <2>1, <1>3
  <2> HIDE DEF Unbounded
  <2> QED BY <2>2, <1>2
<1>5. PICK b \in Int : \A x \in 1..(m - 1) : b <= f[x]
  BY <1>4
<1>6. PICK c \in Int : c <= b /\ c <= f[m]
  <2>1. f[m] \in Int
    BY <1>3
  <2>2. CASE b <= f[m]
    BY <2>2, <2>1
  <2>3. CASE ~(b <= f[m])
    BY <2>3, <2>1
  <2> QED BY <2>2, <2>3
<1>7. \A x \in 1..m : c <= f[x]
  BY <1>5, <1>6, <1>3
<1> QED BY <1>7

\* The domain of an injective function into a finite set is finite.
LEMMA InjectiveDomainFinite ==
  ASSUME NEW D, NEW S, IsFiniteSet(S), NEW f \in [D -> S],
         \A x, y \in D : f[x] = f[y] => x = y
  PROVE  IsFiniteSet(D)
<1>1. f \in Injection(D, S)
  BY DEF Injection, IsInjective
<1> QED BY <1>1, FS_Injection

\* The packages of a set that are of the best repository.
LEMMA BestExists ==
  ASSUME input \in Input, NEW S \in SUBSET Packages, S # {}
  PROVE  \E p \in S : \A q \in S : Priority(p) <= Priority(q)
<1>1. packages \in Seq(Package)
  BY DEF Input, packages
<1>2. Packages = 1..Len(packages) /\ Len(packages) \in Nat
  BY <1>1 DEF Packages
<1>3. \A p \in Packages : Priority(p) \in Int
  <2>1. \A p \in Packages : packages[p] \in Package
    BY <1>1, <1>2
  <2> QED BY <2>1 DEF Priority, Package
<1>4. PICK b \in Int : \A p \in Packages : b <= Priority(p)
  <2> DEFINE f == [p \in 1..Len(packages) |-> Priority(p)]
  <2>1. f \in [1..Len(packages) -> Int]
    BY <1>2, <1>3
  <2>2. \E b \in Int : \A x \in 1..Len(packages) : b <= f[x]
    BY <2>1, <1>2, LowerBound
  <2> QED BY <2>2, <1>2
<1> DEFINE T == {Priority(p) - b : p \in S}
<1>5. T \in SUBSET Nat /\ T # {}
  BY <1>3, <1>4
<1>6. PICK x \in T : \A y \in T : x <= y
  BY <1>5, NatMinimum
<1>7. PICK p \in S : x = Priority(p) - b
  OBVIOUS
<1>8. \A q \in S : Priority(p) - b <= Priority(q) - b
  BY <1>6, <1>7
<1> QED BY <1>8, <1>3

LEMMA PackagesAreIndices ==
  ASSUME input \in Input
  PROVE  /\ packages \in Seq(Package)
         /\ Packages = 1..Len(packages) /\ Len(packages) \in Nat
         /\ \A p \in Packages : packages[p] \in Package
         /\ \A p \in Packages : Priority(p) \in Int /\ Len(Name(p)) \in Nat
         /\ requests \in Seq(String)
<1>1. packages \in Seq(Package) /\ requests \in Seq(String)
  BY DEF Input, packages, requests
<1>2. Packages = 1..Len(packages) /\ Len(packages) \in Nat
  BY <1>1 DEF Packages
<1>3. \A p \in Packages : packages[p] \in Package
  BY <1>1, <1>2
<1>4. \A p \in Packages : Priority(p) \in Int /\ Len(Name(p)) \in Nat
  BY <1>3 DEF Priority, Name, Package, String
<1> QED BY <1>1, <1>2, <1>3, <1>4

\* The name of a match: there is a first among those with the shortest name.
LEMMA FirstShortestMatches ==
  ASSUME input \in Input, NEW req, Matching(req) # {}
  PROVE  FirstShortest(req) \in Matching(req)
<1> DEFINE M == Matching(req)
<1>1. M \subseteq Packages /\ M \subseteq Nat /\ \A p \in M : Len(Name(p)) \in Nat
  BY PackagesAreIndices DEF Matching
<1> DEFINE L == {Len(Name(p)) : p \in M}
<1>2. L \in SUBSET Nat /\ L # {}
  BY <1>1
<1> HIDE DEF M
<1>3. PICK l \in L : \A y \in L : l <= y
  <2> HIDE DEF L
  <2> QED BY <1>2, NatMinimum
<1> DEFINE T == {p \in M : Len(Name(p)) = l}
<1>4. T \in SUBSET Nat /\ T # {}
  BY <1>1, <1>3
<1>5. PICK p \in T : \A q \in T : p <= q
  <2> HIDE DEF T
  <2> QED BY <1>4, NatMinimum
<1>6. \A q \in M : \/ Len(Name(p)) < Len(Name(q))
                   \/ Len(Name(p)) = Len(Name(q)) /\ p <= q
  <2> TAKE q \in M
  <2>1. l <= Len(Name(q)) /\ Len(Name(p)) = l
    BY <1>3, <1>5
  <2>2. Len(Name(q)) = l => p <= q
    BY <1>5
  <2> QED BY <2>1, <2>2, <1>1, <1>2
<1> QED BY <1>5, <1>6 DEF FirstShortest, M

\* What AddCandidates binds a key to: the package found before or a candidate
\* with that key, and none of them is of a better repository.
LEMMA PreferredIsBest ==
  ASSUME input \in Input,
         NEW D, NEW disc \in [D -> Packages], \A k \in D : Key(disc[k]) = k,
         NEW cand \in SUBSET Packages,
         NEW k \in D \cup {Key(p) : p \in cand}
  PROVE  /\ Preferred(disc, cand, k) \in Packages
         /\ Key(Preferred(disc, cand, k)) = k
         /\ \/ k \in D /\ Preferred(disc, cand, k) = disc[k]
            \/ Preferred(disc, cand, k) \in cand
         /\ k \in D => Priority(Preferred(disc, cand, k)) <= Priority(disc[k])
         /\ \A p \in cand : Key(p) = k =>
              Priority(Preferred(disc, cand, k)) <= Priority(p)
<1> DEFINE old  == IF k \in DOMAIN disc THEN {disc[k]} ELSE {}
           all  == old \cup {p \in cand : Key(p) = k}
           best == {p \in all : \A q \in all : Priority(p) <= Priority(q)}
           r    == Preferred(disc, cand, k)
<1>1. all \in SUBSET Packages /\ all # {}
  OBVIOUS
<1>2. best # {}
  <2>1. \E p \in all : \A q \in all : Priority(p) <= Priority(q)
    <3> HIDE DEF all
    <3> QED BY <1>1, BestExists
  <2> QED BY <2>1
<1>3. best \in SUBSET Nat
  BY <1>1, PackagesAreIndices
<1>4. \E p \in best : \A q \in best : p <= q
  <2> HIDE DEF best
  <2> QED BY <1>2, <1>3, NatMinimum
<1>5. r = IF old \cap best # {} THEN disc[k]
          ELSE CHOOSE p \in best : \A q \in best : p <= q
  BY DEF Preferred
<1>6. r \in best
  <2>1. CASE old \cap best # {}
    BY <2>1, <1>5
  <2>2. CASE ~(old \cap best # {})
    <3> HIDE DEF old, best
    <3> QED BY <2>2, <1>4, <1>5
  <2> QED BY <2>1, <2>2
<1>7. r \in all /\ \A q \in all : Priority(r) <= Priority(q)
  <2> HIDE DEF r, all
  <2> QED BY <1>6
<1> HIDE DEF r
<1> QED BY <1>7, <1>1 DEF r

\* What Visit binds a new key to: a package with that key that was wanted.
LEMMA FirstWantedIsWanted ==
  ASSUME input \in Input, NEW p \in Packages, NEW k \in {Key(q) : q \in requires(p)}
  PROVE  FirstWanted(p, k) \in requires(p) /\ Key(FirstWanted(p, k)) = k
<1> DEFINE R == packages[p].requires
           C == {q \in requires(p) : Key(q) = k}
           N == {n \in DOMAIN R : \E q \in C : Provides(q, R[n])}
<1>1. R \in Seq(String) /\ DOMAIN R \subseteq Nat
  BY PackagesAreIndices DEF Package
<1>2. N \in SUBSET Nat /\ N # {}
  BY <1>1 DEF requires
<1>3. PICK n \in N : \A m \in N : n <= m
  <2> HIDE DEF N
  <2> QED BY <1>2, NatMinimum
<1> DEFINE Q == {q \in C : Provides(q, R[n])}
<1>4. Q \in SUBSET Nat /\ Q # {}
  BY PackagesAreIndices DEF requires
<1>5. PICK q \in Q : \A r \in Q : q <= r
  <2> HIDE DEF Q
  <2> QED BY <1>4, NatMinimum
<1>6. ASSUME NEW r \in C PROVE WantedBefore(p, q, r)
  <2>1. n \in DOMAIN R /\ Provides(q, R[n])
    BY <1>5
  <2>2. ASSUME NEW m \in 1..n, m \in DOMAIN R, Provides(r, R[m]) PROVE m = n /\ q <= r
    <3>1. m \in N
      BY <2>2, <1>6
    <3>2. m = n
      BY <3>1, <1>3, <1>1, <2>1
    <3> QED BY <3>2, <2>2, <1>5, <1>6
  <2> QED BY <2>1, <2>2 DEF WantedBefore
<1>7. q \in requires(p) /\ Key(q) = k
  BY <1>5
<1> QED BY <1>6, <1>7 DEF FirstWanted
----------------------------------------------------------------------------
(* The inductive invariant.                                                *)

CandidatesBefore(n) == UNION {Candidates(requests[m]) : m \in 1..(n - 1)}

\* While the requests are matched, all that was found is a candidate.
OnlyCandidates == pc \in {"match", "failed", "panicked"} => Involved \subseteq CandidatesBefore(i)

\* Afterwards the pinned names are those of the candidates, and nothing else
\* that was found bears such a name.
PinsHold ==
  pc \notin {"match", "failed", "panicked"} =>
    /\ i = Len(requests) + 1
    /\ pinned = {Name(p) : p \in CandidatesBefore(i)}
    /\ \A p \in Involved : p \in CandidatesBefore(i) \/ Name(p) \notin pinned

\* All that the package under key k can require was found, but for the pinned.
Covered(k) ==
  \A q \in requires(discovered[k]) : Name(q) \in pinned \/ Key(q) \in DOMAIN discovered

VisitedCovered ==
  /\ pc = "visit" => \A k \in current \ todo : Covered(k)
  /\ pc \in {"strip", "done"} => \A k \in DOMAIN discovered : Covered(k)

\* The keys found are in every set of keys that holds those of the requested
\* packages and what the packages found under its members require.
KeysNeeded ==
  \A K \in SUBSET Keys :
    /\ {Key(p) : p \in Requested} \subseteq K
    /\ \A k \in K \cap DOMAIN discovered : \A q \in requires(discovered[k]) :
          Name(q) \in {Name(p) : p \in Requested} \/ Key(q) \in K
    => DOMAIN discovered \subseteq K

Inv == /\ TypeOK /\ OnlyCandidates /\ PinsHold /\ BestRepository
       /\ VisitedCovered /\ NothingUnneeded /\ KeysNeeded

\* Nothing a step does changes what was loaded and asked for.
LEMMA InputFixed ==
  ASSUME input' = input
  PROVE  /\ packages' = packages /\ requests' = requests
         /\ Packages' = Packages /\ Keys' = Keys /\ Requested' = Requested
         /\ \A p : Key(p)' = Key(p) /\ Name(p)' = Name(p) /\ Priority(p)' = Priority(p)
         /\ \A p : requires(p)' = requires(p)
         /\ \A r : Matching(r)' = Matching(r) /\ Candidates(r)' = Candidates(r)
         /\ \A n : CandidatesBefore(n)' = CandidatesBefore(n)
<1>1. packages' = packages /\ requests' = requests
  BY DEF packages, requests
<1>2. Packages' = Packages
  BY <1>1 DEF Packages
<1>3. \A p : Key(p)' = Key(p) /\ Name(p)' = Name(p) /\ Priority(p)' = Priority(p)
  BY <1>1 DEF Key, Name, Priority
<1>4. Keys' = Keys
  BY <1>2, <1>3 DEF Keys
<1>5. \A p : requires(p)' = requires(p)
  BY <1>1, <1>2 DEF requires, Provides
<1>6. \A p, r : packageMatchesString(p, r)' = packageMatchesString(p, r)
  BY <1>1 DEF packageMatchesString
<1>7. \A r : Matching(r)' = Matching(r)
  BY <1>2, <1>6 DEF Matching
<1>8. \A r : Candidates(r)' = Candidates(r)
  BY <1>3, <1>7 DEF Candidates, FirstShortest
<1>9. Requested' = Requested /\ \A n : CandidatesBefore(n)' = CandidatesBefore(n)
  BY <1>1, <1>8 DEF Requested, CandidatesBefore
<1> QED BY <1>1, <1>2, <1>3, <1>4, <1>5, <1>7, <1>8, <1>9

LEMMA SameKeySameName ==
  ASSUME NEW p, NEW q, Key(p) = Key(q)
  PROVE  Name(p) = Name(q)
<1>1. Key(p).name = Key(q).name
  OBVIOUS
<1> QED BY <1>1 DEF Key, Name

\* The map after the candidates of a request were entered.
LEMMA AddCandidatesMap ==
  ASSUME TypeOK, NEW cand \in SUBSET Packages,
         NEW A, A = AddCandidates(discovered, cand)
  PROVE  /\ A \in [DOMAIN discovered \cup {Key(p) : p \in cand} -> Packages]
         /\ \A k \in DOMAIN A : Key(A[k]) = k
         /\ \A k \in DOMAIN A : A[k] \in cand \/ (k \in DOMAIN discovered /\ A[k] = discovered[k])
         /\ \A k \in DOMAIN discovered : Priority(A[k]) <= Priority(discovered[k])
         /\ \A p \in cand : Priority(A[Key(p)]) <= Priority(p)
<1> DEFINE D == DOMAIN discovered
           E == D \cup {Key(p) : p \in cand}
<1>1. A = [k \in E |-> Preferred(discovered, cand, k)]
  BY DEF AddCandidates
<1>2. ASSUME NEW k \in E
      PROVE  /\ Preferred(discovered, cand, k) \in Packages
             /\ Key(Preferred(discovered, cand, k)) = k
             /\ \/ k \in D /\ Preferred(discovered, cand, k) = discovered[k]
                \/ Preferred(discovered, cand, k) \in cand
             /\ k \in D => Priority(Preferred(discovered, cand, k)) <= Priority(discovered[k])
             /\ \A p \in cand : Key(p) = k =>
                  Priority(Preferred(discovered, cand, k)) <= Priority(p)
  BY PreferredIsBest DEF TypeOK
<1> HIDE DEF D, E
<1>3. DOMAIN A = E /\ \A k \in E : A[k] = Preferred(discovered, cand, k)
  BY <1>1
<1>4. D \subseteq E /\ \A p \in cand : Key(p) \in E
  BY DEF E
<1>5. A \in [E -> Packages]
  BY <1>1, <1>2
<1>6. \A k \in E : Key(A[k]) = k /\ (A[k] \in cand \/ (k \in D /\ A[k] = discovered[k]))
  BY <1>2, <1>3
<1>7. \A k \in D : Priority(A[k]) <= Priority(discovered[k])
  BY <1>2, <1>3, <1>4
<1>8. \A p \in cand : Priority(A[Key(p)]) <= Priority(p)
  BY <1>2, <1>3, <1>4
<1> QED BY <1>3, <1>5, <1>6, <1>7, <1>8 DEF D, E

\* The map after a package was visited.
LEMMA VisitMap ==
  ASSUME TypeOK, NEW p \in Packages, NEW V, V = Visit(discovered, p)
  PROVE  /\ V \in [DOMAIN discovered \cup NewKeys(discovered, p) -> Packages]
         /\ \A k \in DOMAIN V : Key(V[k]) = k
         /\ \A k \in DOMAIN discovered : V[k] = discovered[k]
         /\ \A k \in NewKeys(discovered, p) : V[k] \in requires(p) /\ Name(V[k]) \notin pinned
<1> DEFINE D == DOMAIN discovered
           N == NewKeys(discovered, p)
<1>1. V = [k \in D \cup N |-> IF k \in D THEN discovered[k] ELSE FirstWanted(p, k)]
  BY DEF Visit
<1>2. ASSUME NEW k \in N
      PROVE  FirstWanted(p, k) \in requires(p) /\ Key(FirstWanted(p, k)) = k
             /\ Name(FirstWanted(p, k)) \notin pinned /\ k \notin D
  <2>1. PICK q \in requires(p) : Key(q) = k /\ Name(q) \notin pinned /\ k \notin D
    BY DEF NewKeys
  <2>2. FirstWanted(p, k) \in requires(p) /\ Key(FirstWanted(p, k)) = k
    BY <2>1, FirstWantedIsWanted DEF TypeOK
  <2>3. Name(FirstWanted(p, k)) = Name(q)
    BY <2>1, <2>2, SameKeySameName
  <2> QED BY <2>1, <2>2, <2>3
<1>3. discovered \in [D -> Packages] /\ \A k \in D : Key(discovered[k]) = k
  BY DEF TypeOK
<1> HIDE DEF D, N
<1>4. DOMAIN V = D \cup N
  BY <1>1
<1>5. \A k \in D : V[k] = discovered[k]
  BY <1>1
<1>6. \A k \in N : V[k] = FirstWanted(p, k)
  BY <1>1, <1>2
<1>7. V \in [D \cup N -> Packages]
  <2>1. \A k \in N : FirstWanted(p, k) \in Packages
    BY <1>2 DEF requires
  <2> QED BY <1>1, <1>3, <2>1
<1>8. \A k \in D \cup N : Key(V[k]) = k
  BY <1>2, <1>3, <1>5, <1>6
<1>9. \A k \in N : V[k] \in requires(p) /\ Name(V[k]) \notin pinned
  BY <1>2, <1>6
<1> QED BY <1>4, <1>5, <1>7, <1>8, <1>9 DEF D, N

LEMMA CandidatesArePackages ==
  ASSUME NEW r PROVE Candidates(r) \subseteq Packages /\ Matching(r) \subseteq Packages
  BY DEF Candidates, Matching

----------------------------------------------------------------------------
LEMMA InitInv == Init => Inv
<1> SUFFICES ASSUME Init PROVE Inv
  OBVIOUS
<1>1. input \in Input
  BY InputsAssumption DEF Init
<1>2. DOMAIN discovered = {} /\ Involved = {} /\ 1..(i - 1) = {} /\ pc = "match"
  BY DEF Init, Involved
<1>3. TypeOK
  <2>1. Len(requests) \in Nat
    BY <1>1, PackagesAreIndices
  <2> QED BY <1>1, <2>1 DEF Init, TypeOK
<1>4. OnlyCandidates /\ PinsHold /\ BestRepository /\ VisitedCovered
  BY <1>2 DEF OnlyCandidates, PinsHold, BestRepository, VisitedCovered
<1>5. NothingUnneeded /\ KeysNeeded
  BY <1>2 DEF NothingUnneeded, KeysNeeded
<1> QED BY <1>3, <1>4, <1>5 DEF Inv

LEMMA CandidatesOfOneMore ==
  ASSUME NEW n \in Nat \ {0}
  PROVE  CandidatesBefore(n + 1) = CandidatesBefore(n) \cup Candidates(requests[n])
<1>1. 1..((n + 1) - 1) = 1..(n - 1) \cup {n}
  OBVIOUS
<1> QED BY <1>1 DEF CandidatesBefore

\* The sets the soundness invariants quantify over hold the candidates.
LEMMA CandidatesAreRequested ==
  ASSUME input \in Input, NEW n \in 1..(Len(requests) + 1)
  PROVE  CandidatesBefore(n) \subseteq Requested
<1>1. requests \in Seq(String)
  BY PackagesAreIndices
<1>2. 1..(n - 1) \subseteq DOMAIN requests
  BY <1>1
<1> QED BY <1>2 DEF CandidatesBefore, Requested

LEMMA MatchRequestInv == Inv /\ MatchRequest => Inv'
<1> SUFFICES ASSUME Inv, MatchRequest PROVE Inv'
  OBVIOUS
<1> DEFINE req  == requests[i]
           cand == Candidates(req)
           D    == DOMAIN discovered
<1>1. /\ input' = input /\ pc = "match" /\ pc' = pc /\ i' = i + 1
      /\ pinned' = pinned /\ current' = current /\ todo' = todo
      /\ i <= Len(requests) /\ Matching(req) # {}
      /\ discovered' = AddCandidates(discovered, cand)
      /\ matched' = Append(matched, Name(FirstShortest(req)))
  BY DEF MatchRequest
<1>2. TypeOK /\ input \in Input
  BY DEF Inv, TypeOK
<1>3. cand \subseteq Packages
  BY CandidatesArePackages
<1>4. /\ discovered' \in [D \cup {Key(p) : p \in cand} -> Packages]
      /\ \A k \in DOMAIN discovered' : Key(discovered'[k]) = k
      /\ \A k \in DOMAIN discovered' :
           discovered'[k] \in cand \/ (k \in D /\ discovered'[k] = discovered[k])
      /\ \A k \in D : Priority(discovered'[k]) <= Priority(discovered[k])
      /\ \A p \in cand : Priority(discovered'[Key(p)]) <= Priority(p)
  <2> HIDE DEF cand
  <2> QED BY <1>1, <1>2, <1>3, AddCandidatesMap
<1>5. Len(requests) \in Nat /\ i \in Nat \ {0} /\ i' \in Nat \ {0}
  BY <1>1, <1>2, PackagesAreIndices DEF TypeOK
<1>6. CandidatesBefore(i') = CandidatesBefore(i) \cup cand
  BY <1>1, <1>5, CandidatesOfOneMore
<1> HIDE DEF cand, req, D
<1>7. TypeOK'
  <2>1. FirstShortest(req) \in Packages
    BY <1>1, <1>2, FirstShortestMatches, CandidatesArePackages
  <2>2. matched' \in Seq({Name(p) : p \in Packages})
    BY <1>1, <1>2, <2>1 DEF TypeOK
  <2>3. discovered' \in [DOMAIN discovered' -> Packages] /\ D \subseteq DOMAIN discovered'
    BY <1>4
  <2>4. todo' \subseteq current' /\ current' \subseteq DOMAIN discovered'
    BY <1>1, <1>2, <2>3 DEF TypeOK, D
  <2>5. i' \in 1..(Len(requests) + 1)
    BY <1>1, <1>5
  <2> QED BY <1>1, <1>2, <1>4, <2>2, <2>3, <2>4, <2>5, InputFixed DEF TypeOK
<1>8. Involved' \subseteq CandidatesBefore(i')
  <2>1. Involved \subseteq CandidatesBefore(i)
    BY <1>1 DEF Inv, OnlyCandidates
  <2> QED BY <2>1, <1>4, <1>6 DEF Involved, D
<1>9. OnlyCandidates' /\ PinsHold' /\ VisitedCovered'
  BY <1>1, <1>8, InputFixed DEF OnlyCandidates, PinsHold, VisitedCovered
<1>10. BestRepository'
  <2>1. ASSUME NEW n \in 1..(i' - 1), NEW p \in Candidates(requests[n])
        PROVE  Key(p) \in DOMAIN discovered' /\ Priority(discovered'[Key(p)]) <= Priority(p)
    <3>1. CASE n = i
      <4>1. p \in cand
        BY <2>1, <3>1 DEF cand, req
      <4> QED BY <4>1, <1>4
    <3>2. CASE n # i
      <4>1. Key(p) \in D /\ Priority(discovered[Key(p)]) <= Priority(p)
        BY <3>2, <2>1, <1>1, <1>5 DEF Inv, BestRepository, D
      <4>2. Priority(discovered'[Key(p)]) <= Priority(discovered[Key(p)]) /\ Key(p) \in DOMAIN discovered'
        BY <4>1, <1>4
      <4>3. p \in Packages /\ discovered[Key(p)] \in Packages /\ discovered'[Key(p)] \in Packages
        BY <4>1, <4>2, <1>2, <1>4, CandidatesArePackages DEF TypeOK, D
      <4> QED BY <4>1, <4>2, <4>3, <1>2, PackagesAreIndices
    <3> QED BY <3>1, <3>2
  <2> QED BY <2>1, <1>1, InputFixed DEF BestRepository
<1>11. Involved' \subseteq Requested
  <2>1. i' \in 1..(Len(requests) + 1)
    BY <1>1, <1>5
  <2>2. CandidatesBefore(i') \subseteq Requested
    BY <2>1, <1>2, CandidatesAreRequested
  <2> QED BY <1>8, <2>2
<1>12. NothingUnneeded'
  BY <1>1, <1>11, InputFixed DEF NothingUnneeded
<1>13. KeysNeeded'
  <2>1. DOMAIN discovered' \subseteq {Key(p) : p \in Requested}
    BY <1>4, <1>11 DEF Involved
  <2> QED BY <2>1, <1>1, InputFixed DEF KeysNeeded
<1> QED BY <1>7, <1>9, <1>10, <1>12, <1>13 DEF Inv

\* A step that discovers nothing preserves the invariants on what is found.
LEMMA SoundnessFrame ==
  ASSUME input' = input, discovered' = discovered, NothingUnneeded, KeysNeeded
  PROVE  NothingUnneeded' /\ KeysNeeded'
<1>1. Involved' = Involved
  BY DEF Involved
<1>2. Requested' = Requested /\ Packages' = Packages /\ Keys' = Keys
      /\ (\A p : Name(p)' = Name(p) /\ Key(p)' = Key(p)) /\ (\A p : requires(p)' = requires(p))
  BY InputFixed
<1>3. NothingUnneeded'
  BY <1>1, <1>2 DEF NothingUnneeded
<1>4. KeysNeeded'
  BY <1>2 DEF KeysNeeded
<1> QED BY <1>3, <1>4

LEMMA BestFrame ==
  ASSUME input' = input, discovered' = discovered, i' = i, BestRepository
  PROVE  BestRepository'
  BY InputFixed DEF BestRepository

\* The actions that only move from one phase of the match to another.
LEMMA SkipOrFailInv == Inv /\ (SkipRequest \/ FailRequest \/ PanicRequest) => Inv'
<1> SUFFICES ASSUME Inv, SkipRequest \/ FailRequest \/ PanicRequest PROVE Inv'
  OBVIOUS
<1>1. /\ input' = input /\ pc = "match" /\ pc' \in {"match", "failed", "panicked"}
      /\ i' = i \/ (i' = i + 1 /\ i <= Len(requests) /\ Matching(requests[i]) = {})
      /\ UNCHANGED <<pinned, current, todo, discovered, matched>>
  BY DEF SkipRequest, FailRequest, PanicRequest
<1>2. TypeOK /\ input \in Input
  BY DEF Inv, TypeOK
<1>3. Len(requests) \in Nat /\ i \in Nat \ {0} /\ i' \in Nat \ {0}
  BY <1>1, <1>2, PackagesAreIndices DEF TypeOK
<1>4. CandidatesBefore(i') = CandidatesBefore(i)
  <2>1. Matching(requests[i]) = {} => Candidates(requests[i]) = {}
    BY DEF Candidates
  <2> QED BY <2>1, <1>1, <1>3, CandidatesOfOneMore
<1>5. TypeOK'
  <2>1. i' \in 1..(Len(requests) + 1)
    BY <1>1, <1>2, <1>3 DEF TypeOK
  <2> QED BY <2>1, <1>1, <1>2, InputFixed DEF TypeOK
<1>6. Involved' = Involved /\ Involved \subseteq CandidatesBefore(i)
  BY <1>1 DEF Involved, Inv, OnlyCandidates
<1>7. OnlyCandidates' /\ PinsHold' /\ VisitedCovered'
  BY <1>1, <1>4, <1>6, InputFixed DEF OnlyCandidates, PinsHold, VisitedCovered
<1>8. BestRepository'
  <2>1. ASSUME NEW n \in 1..(i' - 1), NEW p \in Candidates(requests[n]) PROVE n \in 1..(i - 1)
    <3>1. Matching(requests[n]) # {}
      BY <2>1 DEF Candidates
    <3>2. CASE i' = i
      BY <3>2, <2>1
    <3>3. CASE i' = i + 1 /\ Matching(requests[i]) = {}
      <4>1. n \in 1..i /\ n # i
        BY <3>1, <3>3, <2>1, <1>3
      <4> QED BY <4>1, <1>3
    <3> QED BY <3>2, <3>3, <1>1
  <2>2. \A n \in 1..(i' - 1) : \A p \in Candidates(requests[n]) :
          Key(p) \in DOMAIN discovered /\ Priority(discovered[Key(p)]) <= Priority(p)
    BY <2>1 DEF Inv, BestRepository
  <2> QED BY <2>2, <1>1, InputFixed DEF BestRepository
<1>9. NothingUnneeded' /\ KeysNeeded'
  BY <1>1, SoundnessFrame DEF Inv
<1> QED BY <1>5, <1>7, <1>8, <1>9 DEF Inv

LEMMA PinInv == Inv /\ Pin => Inv'
<1> SUFFICES ASSUME Inv, Pin PROVE Inv'
  OBVIOUS
<1>1. /\ input' = input /\ pc = "match" /\ pc' = "round" /\ i > Len(requests)
      /\ pinned' = {Name(p) : p \in Involved}
      /\ UNCHANGED <<i, current, todo, discovered, matched>>
  BY DEF Pin
<1>2. TypeOK /\ input \in Input
  BY DEF Inv, TypeOK
<1>3. i = Len(requests) + 1
  <2>1. Len(requests) \in Nat /\ i \in 1..(Len(requests) + 1)
    BY <1>2, PackagesAreIndices DEF TypeOK
  <2> QED BY <2>1, <1>1
<1>4. Involved' = Involved /\ Involved \subseteq CandidatesBefore(i) /\ Involved \subseteq Packages
  BY <1>1, <1>2 DEF Involved, Inv, OnlyCandidates, TypeOK
<1>5. TypeOK'
  BY <1>1, <1>2, <1>4, InputFixed DEF TypeOK
<1>6. pinned' = {Name(p) : p \in CandidatesBefore(i)}
  <2>1. ASSUME NEW p \in CandidatesBefore(i) PROVE \E q \in Involved : Name(q) = Name(p)
    <3>1. Key(p) \in DOMAIN discovered
      BY DEF CandidatesBefore, Inv, BestRepository
    <3>2. discovered[Key(p)] \in Involved /\ Key(discovered[Key(p)]) = Key(p)
      BY <3>1, <1>2 DEF Involved, TypeOK
    <3> QED BY <3>2, SameKeySameName
  <2> QED BY <2>1, <1>1, <1>4
<1>7. OnlyCandidates' /\ PinsHold' /\ VisitedCovered'
  <2>1. OnlyCandidates' /\ VisitedCovered'
    BY <1>1 DEF OnlyCandidates, VisitedCovered
  <2>2. CandidatesBefore(i)' = CandidatesBefore(i)
    BY <1>1, InputFixed
  <2>3. i' = Len(requests)' + 1
    BY <1>1, <1>3, InputFixed
  <2>4. pinned' = {Name(p)' : p \in CandidatesBefore(i)'}
    BY <1>1, <1>6, <2>2, InputFixed
  <2> QED BY <2>1, <2>2, <2>3, <2>4, <1>1, <1>4 DEF PinsHold
<1>8. BestRepository' /\ NothingUnneeded' /\ KeysNeeded'
  BY <1>1, SoundnessFrame, BestFrame DEF Inv
<1> QED BY <1>5, <1>7, <1>8 DEF Inv

\* The actions that move from one phase of the search to another: the
\* discovered packages stay as they are.
LEMMA SearchPhaseInv == Inv /\ (BeginRound \/ EndRound \/ StripProvides) => Inv'
<1> SUFFICES ASSUME Inv, BeginRound \/ EndRound \/ StripProvides PROVE Inv'
  OBVIOUS
<1>1. /\ input' = input /\ pc \in {"round", "visit", "strip"}
      /\ pc' \in {"round", "visit", "strip", "done"}
      /\ UNCHANGED <<i, pinned, discovered, matched>>
  BY DEF BeginRound, EndRound, StripProvides
<1>2. TypeOK /\ input \in Input
  BY DEF Inv, TypeOK
<1>3. todo' \subseteq current' /\ current' \subseteq DOMAIN discovered
  BY <1>2 DEF BeginRound, EndRound, StripProvides, TypeOK
<1>4. TypeOK'
  BY <1>1, <1>2, <1>3, InputFixed DEF TypeOK
<1>5. Involved' = Involved
  BY <1>1 DEF Involved
<1>6. OnlyCandidates' /\ PinsHold'
  BY <1>1, <1>5, InputFixed DEF OnlyCandidates, PinsHold, Inv
<1>7. BestRepository' /\ NothingUnneeded' /\ KeysNeeded'
  BY <1>1, SoundnessFrame, BestFrame DEF Inv
<1>8. \A k : Covered(k)' <=> Covered(k)
  BY <1>1, InputFixed DEF Covered
<1>9. VisitedCovered'
  <2>1. CASE BeginRound
    BY <2>1 DEF BeginRound, VisitedCovered
  <2>2. CASE EndRound /\ Cardinality(current) = Cardinality(DOMAIN discovered)
    <3>1. current = DOMAIN discovered
      <4>1. IsFiniteSet(Packages)
        BY <1>2, PackagesAreIndices, FS_Interval
      <4>2. discovered \in [DOMAIN discovered -> Packages]
            /\ \A k, l \in DOMAIN discovered : discovered[k] = discovered[l] => k = l
        BY <1>2 DEF TypeOK
      <4>3. IsFiniteSet(DOMAIN discovered)
        BY <4>1, <4>2, InjectiveDomainFinite
      <4> QED BY <4>3, <1>2, <2>2, FS_Subset DEF TypeOK
    <3>2. \A k \in DOMAIN discovered : Covered(k)
      BY <3>1, <2>2 DEF EndRound, Inv, VisitedCovered
    <3>3. pc' = "strip"
      BY <2>2 DEF EndRound
    <3> QED BY <3>2, <3>3, <1>1, <1>8 DEF VisitedCovered
  <2>3. CASE EndRound /\ Cardinality(current) # Cardinality(DOMAIN discovered)
    BY <2>3 DEF EndRound, VisitedCovered
  <2>4. CASE StripProvides
    BY <2>4, <1>1, <1>8 DEF StripProvides, Inv, VisitedCovered
  <2> QED BY <2>1, <2>2, <2>3, <2>4
<1> QED BY <1>4, <1>6, <1>7, <1>9 DEF Inv

LEMMA AllCandidates ==
  ASSUME input \in Input
  PROVE  CandidatesBefore(Len(requests) + 1) = Requested
<1>1. Len(requests) \in Nat /\ DOMAIN requests = 1..Len(requests)
  BY PackagesAreIndices
<1>2. (Len(requests) + 1) - 1 = Len(requests)
  BY <1>1
<1> QED BY <1>1, <1>2 DEF CandidatesBefore, Requested

LEMMA VisitPackageInv == ASSUME NEW k \in todo PROVE Inv /\ VisitPackage(k) => Inv'
<1> SUFFICES ASSUME Inv, VisitPackage(k) PROVE Inv'
  OBVIOUS
<1> DEFINE p == discovered[k]
           D == DOMAIN discovered
           N == NewKeys(discovered, p)
<1>1. /\ input' = input /\ pc = "visit" /\ pc' = "visit" /\ todo' = todo \ {k}
      /\ discovered' = Visit(discovered, p)
      /\ UNCHANGED <<i, pinned, current, matched>>
  BY DEF VisitPackage
<1>2. TypeOK /\ input \in Input
  BY DEF Inv, TypeOK
<1>3. k \in current /\ current \subseteq D /\ k \in D /\ p \in Packages /\ p \in Involved
  BY <1>2 DEF TypeOK, Involved
<1>4. /\ discovered' \in [D \cup N -> Packages]
      /\ \A l \in DOMAIN discovered' : Key(discovered'[l]) = l
      /\ \A l \in D : discovered'[l] = discovered[l]
      /\ \A l \in N : discovered'[l] \in requires(p) /\ Name(discovered'[l]) \notin pinned
  <2> HIDE DEF p
  <2> QED BY <1>1, <1>2, <1>3, VisitMap
<1>5. /\ i = Len(requests) + 1
      /\ pinned = {Name(q) : q \in CandidatesBefore(i)}
      /\ \A q \in Involved : q \in CandidatesBefore(i) \/ Name(q) \notin pinned
  BY <1>1 DEF Inv, PinsHold
<1>6. pinned = {Name(q) : q \in Requested}
  BY <1>2, <1>5, AllCandidates
<1>7. N = {Key(q) : q \in {r \in requires(p) : Name(r) \notin pinned}} \ D
  BY DEF NewKeys
<1> HIDE DEF p, D, N
<1>8. DOMAIN discovered' = D \cup N
  BY <1>4
<1>9. \A q \in Involved' : q \in Involved \/ (q \in requires(p) /\ Name(q) \notin pinned)
  BY <1>4, <1>8 DEF Involved, D
<1>10. TypeOK'
  <2>1. todo' \subseteq current' /\ current' \subseteq DOMAIN discovered'
    BY <1>1, <1>2, <1>3, <1>8 DEF TypeOK
  <2>2. discovered' \in [DOMAIN discovered' -> Packages]
    BY <1>4, <1>8
  <2> QED BY <2>1, <2>2, <1>1, <1>2, <1>4, InputFixed DEF TypeOK
<1>11. OnlyCandidates' /\ PinsHold'
  <2>1. CandidatesBefore(i)' = CandidatesBefore(i) /\ Len(requests)' = Len(requests)
    BY <1>1, InputFixed
  <2>2. pinned' = {Name(q)' : q \in CandidatesBefore(i)'}
    BY <1>1, <1>5, <2>1, InputFixed
  <2>3. \A q \in Involved' : q \in CandidatesBefore(i)' \/ Name(q)' \notin pinned'
    BY <1>1, <1>5, <1>9, <2>1, InputFixed
  <2> QED BY <2>1, <2>2, <2>3, <1>1, <1>5 DEF OnlyCandidates, PinsHold
<1>12. BestRepository'
  <2>1. \A n \in 1..(i - 1) : \A q \in Candidates(requests[n]) :
          Key(q) \in DOMAIN discovered' /\ Priority(discovered'[Key(q)]) <= Priority(q)
    BY <1>4, <1>8 DEF Inv, BestRepository, D
  <2> QED BY <2>1, <1>1, InputFixed DEF BestRepository
<1>13. VisitedCovered'
  <2>1. ASSUME NEW l \in current, l \notin todo'
        PROVE  \A q \in requires(discovered'[l]) : Name(q) \in pinned \/ Key(q) \in DOMAIN discovered'
    <3>1. CASE l = k
      <4>1. discovered'[l] = p
        BY <3>1, <1>3, <1>4 DEF p
      <4> QED BY <4>1, <1>7, <1>8
    <3>2. CASE l # k
      <4>1. l \in current \ todo
        BY <3>2, <2>1, <1>1
      <4>2. Covered(l)
        BY <4>1, <1>1 DEF Inv, VisitedCovered
      <4>3. discovered'[l] = discovered[l]
        BY <1>3, <1>4
      <4> QED BY <4>2, <4>3, <1>8 DEF Covered, D
    <3> QED BY <3>1, <3>2
  <2> QED BY <2>1, <1>1, InputFixed DEF VisitedCovered, Covered
<1>14. NothingUnneeded'
  <2>1. ASSUME NEW S \in SUBSET Packages, Requested \subseteq S,
               \A q \in S : {r \in requires(q) : Name(r) \notin {Name(x) : x \in Requested}} \subseteq S
        PROVE  Involved' \subseteq S
    <3>1. Involved \subseteq S
      BY <2>1 DEF Inv, NothingUnneeded
    <3>2. p \in S
      BY <3>1, <1>3
    <3> QED BY <3>1, <3>2, <2>1, <1>6, <1>9
  <2> QED BY <2>1, <1>1, InputFixed DEF NothingUnneeded
<1>15. KeysNeeded'
  <2>1. ASSUME NEW K \in SUBSET Keys, {Key(q) : q \in Requested} \subseteq K,
               \A l \in K \cap DOMAIN discovered' : \A q \in requires(discovered'[l]) :
                 Name(q) \in {Name(x) : x \in Requested} \/ Key(q) \in K
        PROVE  DOMAIN discovered' \subseteq K
    <3>1. \A l \in K \cap D : \A q \in requires(discovered[l]) :
            Name(q) \in {Name(x) : x \in Requested} \/ Key(q) \in K
      BY <2>1, <1>4, <1>8
    <3>2. D \subseteq K
      BY <3>1, <2>1 DEF Inv, KeysNeeded, D
    <3>3. N \subseteq K
      BY <3>1, <3>2, <1>3, <1>6, <1>7 DEF p
    <3> QED BY <3>2, <3>3, <1>8
  <2> QED BY <2>1, <1>1, InputFixed DEF KeysNeeded
<1> QED BY <1>10, <1>11, <1>12, <1>13, <1>14, <1>15 DEF Inv

LEMMA StutterInv == Inv /\ UNCHANGED vars => Inv'
<1> SUFFICES ASSUME Inv, UNCHANGED vars PROVE Inv'
  OBVIOUS
<1>1. input' = input /\ UNCHANGED <<pc, i, discovered, matched, pinned, current, todo>>
  BY DEF vars
<1>2. TypeOK'
  BY <1>1, InputFixed DEF TypeOK, Inv
<1>3. BestRepository' /\ NothingUnneeded' /\ KeysNeeded'
  BY <1>1, SoundnessFrame, BestFrame DEF Inv
<1>4. Involved' = Involved /\ CandidatesBefore(i)' = CandidatesBefore(i)
      /\ Len(requests)' = Len(requests) /\ \A p : Name(p)' = Name(p)
  BY <1>1, InputFixed DEF Involved
<1>5. OnlyCandidates' /\ PinsHold'
  BY <1>1, <1>4 DEF Inv, OnlyCandidates, PinsHold
<1>6. VisitedCovered'
  BY <1>1, InputFixed DEF Inv, VisitedCovered, Covered
<1> QED BY <1>2, <1>3, <1>5, <1>6 DEF Inv

LEMMA NextInv == Inv /\ [Next]_vars => Inv'
<1> SUFFICES ASSUME Inv, [Next]_vars PROVE Inv'
  OBVIOUS
<1>1. CASE MatchRequest
  BY <1>1, MatchRequestInv
<1>2. CASE SkipRequest \/ FailRequest \/ PanicRequest
  BY <1>2, SkipOrFailInv
<1>3. CASE Pin
  BY <1>3, PinInv
<1>4. CASE BeginRound \/ EndRound \/ StripProvides
  BY <1>4, SearchPhaseInv
<1>5. CASE \E k \in todo : VisitPackage(k)
  BY <1>5, VisitPackageInv
<1>6. CASE Terminated \/ UNCHANGED vars
  BY <1>6, StutterInv DEF Terminated
<1> QED BY <1>1, <1>2, <1>3, <1>4, <1>5, <1>6 DEF Next

\* Resolve keeps its inductive invariant.
THEOREM Invariance == Spec => []Inv
<1>1. Init => Inv
  BY InitInv
<1>2. Inv /\ [Next]_vars => Inv'
  BY NextInv
<1> QED BY <1>1, <1>2, PTL DEF Spec
----------------------------------------------------------------------------
\* Every variable keeps its shape; `discovered` maps keys to packages with that
\* key (reducer.go:47-113).
THEOREM TypeCorrect == Spec => []TypeOK
<1>1. Inv => TypeOK
  BY DEF Inv
<1> QED BY <1>1, Invariance, PTL

\* Nothing is kept that has "0 chance to be involved" (doc.go), for any
\* repositories, requests and order of map iteration.
THEOREM Soundness == Spec => []NothingUnneeded
<1>1. Inv => NothingUnneeded
  BY DEF Inv
<1> QED BY <1>1, Invariance, PTL

\* A requested package is represented by a copy of the best repository
\* (reducer.go:67-76).
THEOREM PriorityRespected == Spec => []BestRepository
<1>1. Inv => BestRepository
  BY DEF Inv
<1> QED BY <1>1, Invariance, PTL

\* No dependency brings in another version of a package asked for by name and
\* version (reducer.go:82-99).
THEOREM PinsRespected == Spec => []PinnedHonoured
<1>1. Inv => PinnedHonoured
  <2> SUFFICES ASSUME Inv, NEW p \in Involved,
                      NEW n \in 1..(i - 1), Matching(requests[n]) # {},
                      Name(FirstShortest(requests[n])) = Name(p)
               PROVE  p \in CandidatesBefore(i)
    BY DEF PinnedHonoured, CandidatesBefore
  <2>1. CASE pc \in {"match", "failed", "panicked"}
    BY <2>1 DEF Inv, OnlyCandidates
  <2>2. CASE pc \notin {"match", "failed", "panicked"}
    <3> DEFINE f == FirstShortest(requests[n])
    <3>1. f \in Candidates(requests[n])
      BY FirstShortestMatches DEF Candidates, Inv, TypeOK
    <3>2. f \in CandidatesBefore(i)
      BY <3>1 DEF CandidatesBefore
    <3>3. Name(p) \in {Name(q) : q \in CandidatesBefore(i)}
      BY <3>2
    <3> QED BY <2>2, <3>3 DEF Inv, PinsHold
  <2> QED BY <2>1, <2>2
<1> QED BY <1>1, Invariance, PTL

\* A key is never bound to another package once the names are pinned.
THEOREM BindingsFinal == Spec => NeverRebound
<1>1. Inv /\ [Next]_vars =>
        [pc # "match" => \A k \in DOMAIN discovered :
                            k \in DOMAIN discovered' /\ discovered'[k] = discovered[k]]_vars
  <2> SUFFICES ASSUME Inv, Next, pc # "match", NEW k \in DOMAIN discovered
               PROVE  k \in DOMAIN discovered' /\ discovered'[k] = discovered[k]
    BY DEF vars
  <2>1. CASE \E l \in todo : VisitPackage(l)
    <3>1. PICK l \in todo : VisitPackage(l)
      BY <2>1
    <3>2. discovered[l] \in Packages /\ TypeOK
      BY DEF Inv, TypeOK
    <3>3. discovered' = Visit(discovered, discovered[l])
      BY <3>1 DEF VisitPackage
    <3>4. /\ discovered' \in [DOMAIN discovered \cup NewKeys(discovered, discovered[l]) -> Packages]
          /\ \A m \in DOMAIN discovered : discovered'[m] = discovered[m]
      BY <3>2, <3>3, VisitMap
    <3> QED BY <3>4
  <2>2. CASE ~ \E l \in todo : VisitPackage(l)
    BY <2>2 DEF Next, MatchRequest, SkipRequest, FailRequest, PanicRequest, Pin, BeginRound,
                EndRound, StripProvides, Terminated, vars
  <2> QED BY <2>1, <2>2
<1> QED BY <1>1, Invariance, PTL DEF Spec, NeverRebound

\* When the copies of every package agree, the keys of the result are the least
\* closed set of keys, so no order of map iteration changes them.
THEOREM OrderIrrelevant == Spec => []MapOrderIrrelevant
<1>1. Inv => MapOrderIrrelevant
  <2> SUFFICES ASSUME Inv, pc = "done", CopiesAgree
               PROVE  /\ ClosedKeys(DOMAIN discovered)
                      /\ \A K \in SUBSET Keys : ClosedKeys(K) => DOMAIN discovered \subseteq K
    BY DEF MapOrderIrrelevant
  <2>1. TypeOK /\ i = Len(requests) + 1 /\ pinned = {Name(p) : p \in Requested}
    BY AllCandidates DEF Inv, PinsHold, TypeOK
  <2>2. \A k \in DOMAIN discovered : discovered[k] \in Packages /\ Key(discovered[k]) = k
    BY <2>1 DEF TypeOK
  <2>3. {Key(p) : p \in Requested} \subseteq DOMAIN discovered
    BY <2>1, AllCandidates DEF Inv, BestRepository, CandidatesBefore, TypeOK
  <2>4. ASSUME NEW p \in Packages, Key(p) \in DOMAIN discovered, NEW q \in requires(p)
        PROVE  Name(q) \in pinned \/ Key(q) \in DOMAIN discovered
    <3>1. requires(p) = requires(discovered[Key(p)])
      BY <2>2, <2>4 DEF CopiesAgree
    <3> QED BY <3>1, <2>4 DEF Inv, VisitedCovered, Covered
  <2>5. ClosedKeys(DOMAIN discovered)
    BY <2>1, <2>3, <2>4 DEF ClosedKeys
  <2>6. ASSUME NEW K \in SUBSET Keys, ClosedKeys(K) PROVE DOMAIN discovered \subseteq K
    <3>1. {Key(p) : p \in Requested} \subseteq K
      BY <2>6 DEF ClosedKeys
    <3>2. \A k \in K \cap DOMAIN discovered : \A q \in requires(discovered[k]) :
            Name(q) \in {Name(p) : p \in Requested} \/ Key(q) \in K
      BY <2>2, <2>6 DEF ClosedKeys
    <3> QED BY <3>1, <3>2 DEF Inv, KeysNeeded
  <2> QED BY <2>5, <2>6
<1> QED BY <1>1, Invariance, PTL
\* At the end an involved package provides what somebody requires, and its name.
Stripped ==
  pc = "done" =>
    provides = [p \in Involved |->
                  {c \in packages[p].provides : c \in RequiredNames \/ c = Name(p)}]

LEMMA StrippedInvariant == Spec => []Stripped
<1>1. Init => Stripped
  BY DEF Init, Stripped
<1>2. Stripped /\ [Next]_vars => Stripped'
  <2> SUFFICES ASSUME Stripped, [Next]_vars, pc' = "done"
               PROVE  provides' = [p \in Involved |-> {c \in packages[p].provides :
                                                        c \in RequiredNames \/ c = Name(p)}]'
    BY DEF Stripped
  <2>1. UNCHANGED <<input, discovered>>
    BY DEF Next, vars, MatchRequest, SkipRequest, FailRequest, PanicRequest, Pin, BeginRound,
           VisitPackage, EndRound, StripProvides, Terminated
  <2>2. Involved' = Involved /\ packages' = packages /\ RequiredNames' = RequiredNames
    BY <2>1 DEF Involved, packages, RequiredNames
  <2>3. provides' = [p \in Involved |->
                       {c \in packages[p].provides : c \in RequiredNames \/ c = Name(p)}]
    BY DEF Stripped, Next, vars, MatchRequest, SkipRequest, FailRequest, PanicRequest, Pin,
           BeginRound, VisitPackage, EndRound, StripProvides, Terminated
  <2> QED BY <2>2, <2>3 DEF Name
<1> QED BY <1>1, <1>2, PTL DEF Spec

\* Where the copies of a package agree, what an involved package requires is still
\* provided after the reduction, by what it kept of its provides, if any package
\* without a pinned name provides it (RequirementsSurvive, reducer.go:87-124).
THEOREM RequirementsKept == Spec => []RequirementsSurvive
<1>1. Inv /\ Stripped => RequirementsSurvive
  <2> SUFFICES ASSUME Inv, Stripped, pc = "done", CopiesAgree, NEW p \in Involved,
                      NEW n \in DOMAIN packages[p].requires, NEW q \in Packages,
                      Provides(q, packages[p].requires[n]), Name(q) \notin pinned
               PROVE  \E c \in Involved : \/ packages[p].requires[n] \in provides[c]
                                          \/ packages[p].requires[n] \in packages[c].files
    BY DEF RequirementsSurvive
  <2>1. \A k \in DOMAIN discovered : discovered[k] \in Packages /\ Key(discovered[k]) = k
    BY DEF Inv, TypeOK
  <2>2. p \in Packages /\ Key(p) \in DOMAIN discovered /\ discovered[Key(p)] = p
    BY <2>1 DEF Involved
  <2>3. q \in requires(p)
    BY DEF requires
  <2>4. Key(q) \in DOMAIN discovered
    BY <2>2, <2>3 DEF Inv, VisitedCovered, Covered
  <2> DEFINE c == discovered[Key(q)]
  <2>5. c \in Involved /\ c \in Packages /\ Key(c) = Key(q)
    BY <2>1, <2>4 DEF Involved
  <2>6. Provides(c, packages[p].requires[n])
    BY <2>5 DEF CopiesAgree, Provides
  <2>7. packages[p].requires[n] \in RequiredNames
    BY DEF RequiredNames, ToSet
  <2> HIDE DEF c
  <2> QED BY <2>5, <2>6, <2>7 DEF Stripped, Provides
<1> QED BY <1>1, Invariance, StrippedInvariant, PTL
----------------------------------------------------------------------------
(* Reducer implements Reduction.                                           *)

\* Unless missing packages are to be ignored, every request passed was matched.
Answered ==
  input.ignoreMissing \/ \A n \in 1..(i - 1) : Matching(requests[n]) # {}

LEMMA AnsweredInvariant == Spec => []Answered
<1>1. Init => Answered
  BY DEF Init, Answered
<1>2. Inv /\ Answered /\ [Next]_vars => Answered'
  <2> SUFFICES ASSUME TypeOK, Answered, [Next]_vars PROVE Answered'
    BY DEF Inv
  <2>1. input' = input
    BY DEF Next, vars, MatchRequest, SkipRequest, FailRequest, PanicRequest, Pin, BeginRound,
           VisitPackage, EndRound, StripProvides, Terminated
  <2>2. \/ i' = i
        \/ i' = i + 1 /\ (input.ignoreMissing \/ Matching(requests[i]) # {})
    BY DEF Next, vars, MatchRequest, SkipRequest, FailRequest, PanicRequest, Pin, BeginRound,
           VisitPackage, EndRound, StripProvides, Terminated
  <2>3. i \in Nat
    BY PackagesAreIndices DEF TypeOK
  <2>4. 1..((i + 1) - 1) = 1..(i - 1) \cup {i} \/ i = 0
    BY <2>3
  <2>5. i # 0
    BY PackagesAreIndices DEF TypeOK
  <2>6. input.ignoreMissing \/ \A n \in 1..(i' - 1) : Matching(requests[n]) # {}
    BY <2>2, <2>4, <2>5 DEF Answered
  <2> QED BY <2>1, <2>6, InputFixed DEF Answered
<1> QED BY <1>1, <1>2, Invariance, PTL DEF Spec

\* The abstract specification reads the same input.
LEMMA SameReading ==
  /\ Abs!Input = Input /\ Abs!requests = requests /\ Abs!Packages = Packages
  /\ \A p : Abs!Key(p) = Key(p) /\ Abs!Name(p) = Name(p) /\ Abs!Priority(p) = Priority(p)
  /\ \A p : Abs!requires(p) = requires(p)
  /\ \A r : Abs!Matching(r) = Matching(r)
  /\ Abs!Roots = Requested /\ Abs!RootNames = {Name(p) : p \in Requested}
<1>1. Abs!Input = Input
  BY DEF Abs!Input, Input, Abs!Package, Package, Abs!String, String
<1>2. Abs!packages = packages /\ Abs!requests = requests /\ Abs!Packages = Packages
  BY DEF Abs!packages, packages, Abs!requests, requests, Abs!Packages, Packages
<1>3. \A p : Abs!Key(p) = Key(p) /\ Abs!Name(p) = Name(p) /\ Abs!Priority(p) = Priority(p)
  BY <1>2 DEF Abs!Key, Key, Abs!Name, Name, Abs!Priority, Priority
<1>4. \A p : Abs!requires(p) = requires(p)
  BY <1>2 DEF Abs!requires, requires, Abs!Provides, Provides
<1>5. \A p, r : Abs!packageMatchesString(p, r) <=> packageMatchesString(p, r)
  BY <1>2 DEF Abs!packageMatchesString, packageMatchesString
<1>6. \A r : Abs!Matching(r) = Matching(r)
  BY <1>2, <1>5 DEF Abs!Matching, Matching
<1>7. \A r : Abs!FirstShortest(r) = FirstShortest(r)
  BY <1>3, <1>6 DEF Abs!FirstShortest, FirstShortest
<1>8. \A r : Abs!Candidates(r) = Candidates(r)
  BY <1>3, <1>6, <1>7 DEF Abs!Candidates, Candidates
<1>9. Abs!Roots = Requested
  BY <1>2, <1>8 DEF Abs!Roots, Requested
<1>10. Abs!RootNames = {Name(p) : p \in Requested}
  BY <1>3, <1>9 DEF Abs!RootNames
<1> QED BY <1>1, <1>2, <1>3, <1>4, <1>6, <1>9, <1>10

\* The result is one the abstract specification allows.
LEMMA ResultAllowed ==
  ASSUME Inv, pc \in {"strip", "done"}
  PROVE  /\ Involved \subseteq Packages
         /\ Abs!OnePerKey(Involved) /\ Abs!BestCopies(Involved) /\ Abs!Least(Involved)
<1>1. TypeOK /\ i = Len(requests) + 1 /\ CandidatesBefore(i) = Requested
      /\ pinned = {Name(p) : p \in Requested}
  BY AllCandidates DEF Inv, PinsHold, TypeOK
<1>2. \A k \in DOMAIN discovered : discovered[k] \in Packages /\ Key(discovered[k]) = k
  BY <1>1 DEF TypeOK
<1>3. \A p \in Involved : p \in Packages /\ Key(p) \in DOMAIN discovered /\ p = discovered[Key(p)]
  BY <1>2 DEF Involved
<1>4. \A p \in Requested : Key(p) \in DOMAIN discovered
                          /\ Priority(discovered[Key(p)]) <= Priority(p)
  BY <1>1 DEF Inv, BestRepository, CandidatesBefore
<1>5. Abs!Roots = Requested /\ Abs!RootNames = {Name(p) : p \in Requested}
  BY SameReading
<1>6. \A p \in Requested : discovered[Key(p)] \in Involved \cap Requested
  <2> TAKE p \in Requested
  <2>1. discovered[Key(p)] \in Involved /\ Key(discovered[Key(p)]) = Key(p)
    BY <1>2, <1>4 DEF Involved
  <2>2. Name(discovered[Key(p)]) = Name(p)
    BY <2>1, SameKeySameName
  <2> QED BY <2>1, <2>2, <1>1 DEF Inv, PinsHold
<1>7. Abs!OnePerKey(Involved)
  BY <1>3, SameReading DEF Abs!OnePerKey
<1>8. Abs!BestCopies(Involved)
  BY <1>2, <1>4, <1>5, <1>6, SameReading DEF Abs!BestCopies
<1>9. {Key(p) : p \in Involved} = DOMAIN discovered
  BY <1>2, <1>3 DEF Involved
<1>10. Abs!Closed(Involved)
  <2>1. \A p \in Involved : \A q \in requires(p) :
          Name(q) \in Abs!RootNames \/ Key(q) \in DOMAIN discovered
    BY <1>1, <1>3, <1>5 DEF Inv, VisitedCovered, Covered
  <2> QED BY <2>1, <1>4, <1>5, <1>9, SameReading DEF Abs!Closed
<1>11. ASSUME NEW T \in SUBSET Involved, Abs!Closed(T) PROVE T = Involved
  <2> DEFINE K == {Key(p) : p \in T}
  <2>1. K \in SUBSET Keys
    BY <1>3 DEF Keys
  <2>2. {Key(p) : p \in Requested} \subseteq K
    BY <1>5, <1>11, SameReading DEF Abs!Closed
  <2>3. \A k \in K : k \in DOMAIN discovered /\ discovered[k] \in T
    BY <1>3
  <2>4. \A k \in K \cap DOMAIN discovered : \A q \in requires(discovered[k]) :
          Name(q) \in {Name(p) : p \in Requested} \/ Key(q) \in K
    BY <2>3, <1>5, <1>11, SameReading DEF Abs!Closed
  <2> HIDE DEF K
  <2>5. DOMAIN discovered \subseteq K
    BY <2>1, <2>2, <2>4 DEF Inv, KeysNeeded
  <2> QED BY <2>3, <2>5, <1>3
<1> QED BY <1>3, <1>7, <1>8, <1>10, <1>11 DEF Abs!Least

\* Whatever the repositories, the requests and the order of the iterations,
\* Resolve returns what Reduction promises: a least closed set of packages,
\* one per key, with the best copies of the requested packages.
THEOREM Implementation == Spec => Abs!AbsSpec
<1>1. Init => Abs!AbsInit
  BY InputsAssumption, SameReading DEF Init, Abs!AbsInit
<1>2. Inv /\ Answered /\ [Next]_vars => [Abs!AbsNext]_(Abs!absVars)
  <2> SUFFICES ASSUME Inv, Answered, [Next]_vars PROVE [Abs!AbsNext]_(Abs!absVars)
    OBVIOUS
  <2>1. CASE StripProvides
    <3>1. pc = "strip" /\ pc' = "done" /\ input' = input /\ Involved' = Involved
      BY <2>1 DEF StripProvides, Involved
    <3>2. input.ignoreMissing \/ \A n \in DOMAIN requests : Matching(requests[n]) # {}
      <4>1. i = Len(requests) + 1 /\ DOMAIN requests = 1..(i - 1)
        BY <3>1, PackagesAreIndices DEF Inv, PinsHold, TypeOK
      <4> QED BY <4>1 DEF Answered
    <3>3. Abs!Finish
      BY <3>1, <3>2, ResultAllowed, SameReading DEF Abs!Finish
    <3> QED BY <3>3 DEF Abs!AbsNext
  <2>2. CASE FailRequest
    <3>1. /\ pc = "match" /\ pc' = "failed" /\ input' = input /\ ~input.ignoreMissing
          /\ i \in DOMAIN requests /\ Matching(requests[i]) = {}
      BY <2>2, PackagesAreIndices DEF FailRequest, Inv, TypeOK
    <3>2. Abs!Fail
      BY <3>1, SameReading DEF Abs!Fail
    <3> QED BY <3>2 DEF Abs!AbsNext
  <2>3. CASE PanicRequest
    <3>1. pc = "match" /\ pc' = "panicked" /\ input' = input
          /\ \E p \in Packages : ~packages[p].hasRepository
      <4>1. Candidates(requests[i]) \subseteq Packages
        BY CandidatesArePackages DEF Inv, TypeOK
      <4>2. \A k \in DOMAIN discovered : discovered[k] \in Packages
        BY DEF Inv, TypeOK
      <4> QED BY <2>3, <4>1, <4>2 DEF PanicRequest, ReadsNoRepository
    <3>2. Abs!Panic
      BY <3>1, SameReading DEF Abs!Panic, Abs!packages, packages
    <3> QED BY <3>2 DEF Abs!AbsNext
  <2>4. CASE ~StripProvides /\ ~FailRequest /\ ~PanicRequest
    <3>1. /\ input' = input
          /\ \/ pc' = pc /\ UNCHANGED discovered
             \/ pc \notin {"done", "failed", "panicked"} /\ pc' \notin {"done", "failed", "panicked"}
      BY <2>4 DEF Next, vars, MatchRequest, SkipRequest, Pin, BeginRound,
                  VisitPackage, EndRound, Terminated
    <3> QED BY <3>1 DEF Abs!absVars, Involved
  <2> QED BY <2>1, <2>2, <2>3, <2>4
<1> QED BY <1>1, <1>2, Invariance, AnsweredInvariant, PTL DEF Spec, Abs!AbsSpec
============================================================================

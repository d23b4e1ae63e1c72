--------------------------- MODULE ResolverProofs ---------------------------
(***************************************************************************)
(* What `bazeldnf lockfile` writes, for any packages, requests and regular  *)
(* expressions: the lock file has what its packages require, and what the   *)
(* reducer drops is missed by no solution.                                  *)
(*                                                                          *)
(* The invariant follows the call from phase to phase: what the reducer     *)
(* left, what was picked of it, what was chosen of that, what was written.  *)
(***************************************************************************)
EXTENDS Resolver, TLAPS, FiniteSetTheorems, WellFoundedInduction

\* A set of naturals that is not empty has a least element.
LEMMA NatMinimum ==
  ASSUME NEW S \in SUBSET Nat, S # {}
  PROVE  \E x \in S : \A y \in S : x <= y
<1> DEFINE Less == {ss \in Nat \X Nat : ss[1] < ss[2]}
<1>1. IsWellFoundedOn(Less, Nat)
  BY NatLessThanWellFounded, Zenon DEF OpToRel
<1>2. PICK x \in S : \A y \in S : <<y, x>> \notin Less
  BY <1>1, WFMin, Zenon
<1>3. \A y \in S : ~(y < x)
  BY <1>2
<1> QED
  BY <1>3

Types == input \in Inputs /\ TypeOK

\* The reduction of a call, as a constant: a step that leaves the call alone
\* leaves it alone.
R(i) == INSTANCE Reduction WITH
  input  <- [packages |-> [p \in DOMAIN i.packages |-> Plain(i.packages[p])],
             requests |-> [m \in DOMAIN (i.requests \o i.baseSystem) |->
                             <<(i.requests \o i.baseSystem)[m]>>],
             ignoreMissing |-> i.ignoreMissing],
  status <- "running", result <- {}

Needed(S) == UNION {RequiredNames(Pkg(q)) : q \in S}

\* Nothing is lost of an involved package but what nobody requires, and the
\* requirements of the ignored.
Reduced ==
  /\ pc = "reduce" => involved = {}
  /\ pc = "ignore" => forceIgnored = {}
  /\ \A p \in involved :
       /\ provides[p] = {e \in Pkg(p).provides : e.name \in Needed(involved) \/ e.name = Pkg(p).name}
       /\ p \in forceIgnored => requires[p] = <<>>
       /\ p \notin forceIgnored => requires[p] = Pkg(p).requires
  /\ pc \in {"ignore", "best", "require", "unsolvable"}
     => R(input)!Closed(involved) /\ R(input)!OnePerKey(involved)

Picked ==
  /\ pc \in {"reduce", "ignore", "best"} => model = {}
  /\ pc \in {"require", "unsolvable"} /\ input.nobest => model = involved
  /\ ~input.nobest => \A p \in model, q \in involved : ~(SameBestKey(p, q) /\ Worse(p, q))

Solved ==
  /\ pc \in {"reduce", "ignore", "best", "require", "unsolvable"} => chosen = {}
  /\ SolutionWritable
  /\ chosen # {} => Satisfies(chosen)
  /\ pc = "unsolvable" => ~\E S \in SUBSET model : Satisfies(S)

Written ==
  pc = "done" =>
    config = toConfig(CurrentOf(install), CurrentOf(chosen \cap forceIgnored), input.requests)

Inv == Types /\ Reduced /\ Picked /\ Solved /\ Written
-----------------------------------------------------------------------------
(* The packages, and what is written of them.                               *)

LEMMA PackageOf ==
  ASSUME Types, NEW p \in Packages
  PROVE  Pkg(p) \in Package
<1>1. input.packages \in Seq(Package)
  BY InputsAssumption DEF Types
<1> QED
  BY <1>1 DEF Packages, Pkg

LEMMA AskedOf ==
  ASSUME input \in Inputs
  PROVE  asked \in Seq(STRING) /\ Len(asked) \in Nat /\ DOMAIN asked = 1..Len(asked)
<1>1. asked \in Seq(STRING)
  BY InputsAssumption DEF asked
<1> QED
  BY <1>1

LEMMA PackagesFinite == Types => IsFiniteSet(Packages)
<1> SUFFICES ASSUME Types PROVE IsFiniteSet(Packages)
  OBVIOUS
<1>1. input.packages \in Seq(Package)
  BY InputsAssumption DEF Types
<1>2. Packages = 1..Len(input.packages) /\ Len(input.packages) \in Nat
  BY <1>1 DEF Packages
<1>3. IsFiniteSet(1..Len(input.packages))
  BY <1>2, FS_Interval
<1> QED
  BY <1>2, <1>3

\* What the lock file is made from: the package, less what was taken from it.
LEMMA CurrentFields ==
  ASSUME Types, NEW p \in involved
  PROVE  /\ Current(p).name = Pkg(p).name /\ Current(p).files = Pkg(p).files
         /\ Current(p).provides = provides[p] /\ Current(p).requires = requires[p]
         /\ Current(p).readable = Pkg(p).readable
<1>1. Pkg(p) \in Package
  BY PackageOf DEF Types, TypeOK
<1> QED
  BY <1>1 DEF Current, Package

\* A resource of an involved package is one the repository says it provides.
LEMMA OffersOf ==
  ASSUME Types, Reduced, NEW q \in involved, NEW entry,
         NEW r \in Resources(q), r.name = entry.name, Accepts(entry, r)
  PROVE  Offers(q, entry) /\ entry.name \in ProvidedNames(Current(q))
<1>1. ProvidedNames(Current(q)) = {e.name : e \in provides[q]} \cup Pkg(q).files
  BY CurrentFields DEF ProvidedNames
<1>2. CASE r \in provides[q]
  <2>1. r \in Pkg(q).provides
    BY <1>2 DEF Reduced
  <2> QED
    BY <1>1, <1>2, <2>1 DEF Offers
<1>3. CASE r \notin provides[q]
  <2>1. PICK f \in Pkg(q).files : r = [name |-> f, version |-> [ver |-> 0, rel |-> 0]]
    BY <1>3 DEF Resources
  <2>2. entry.name \in Pkg(q).files
    BY <2>1
  <2> QED
    BY <1>1, <2>2 DEF Offers
<1> QED
  BY <1>2, <1>3

\* The requirements of what is installed hold among what is chosen, for the solver
\* and for the lock file alike.
LEMMA RequirementHolds ==
  ASSUME Types, Reduced, NEW S \in SUBSET model, Satisfies(S),
         NEW p \in S, NEW m \in DOMAIN requires[p]
  PROVE  \E q \in S : /\ Offers(q, requires[p][m])
                      /\ requires[p][m].name \in ProvidedNames(Current(q))
<1>1. PICK q \in explodeSingleRequires(requires[p][m]) \cap S : TRUE
  BY DEF Satisfies, RequiresHold
<1>2. PICK r \in Resources(q) : r.name = requires[p][m].name /\ Accepts(requires[p][m], r)
  BY <1>1 DEF explodeSingleRequires
<1>3. q \in involved
  BY <1>1 DEF Types, TypeOK
<1> QED
  BY <1>1, <1>2, <1>3, OffersOf

\* A solution can be written down but for the checksums (config_helper.go:53, 122).
LEMMA NothingMissing ==
  ASSUME Inv, pc = "lock",
         toConfigFails(CurrentOf(install), CurrentOf(chosen \cap forceIgnored))
  PROVE  \E p \in install : IntegrityFails(Pkg(p))
<1> SUFFICES ASSUME NEW p \in install, NEW name \in RequiredNames(Current(p))
             PROVE  \E q \in chosen : name \in ProvidedNames(Current(q))
  <2>1. PICK p \in install : \/ IntegrityFails(Current(p))
                            \/ DependenciesFail(Current(p), CurrentOf(chosen \cap forceIgnored),
                                                CurrentOf(install))
    BY DEF toConfigFails, CurrentOf
  <2>2. p \in involved
    BY DEF install, Inv, Types, TypeOK
  <2>3. IntegrityFails(Current(p)) => IntegrityFails(Pkg(p))
    BY <2>2, CurrentFields DEF IntegrityFails, Inv
  <2>4. ~DependenciesFail(Current(p), CurrentOf(chosen \cap forceIgnored), CurrentOf(install))
    BY DEF DependenciesFail, collectProviders, CurrentOf, install
  <2> QED BY <2>1, <2>3, <2>4
<1>1. p \in chosen /\ chosen \subseteq model /\ model \subseteq involved
  BY DEF install, Inv, Types, TypeOK
<1>2. PICK m \in DOMAIN requires[p] : name = requires[p][m].name
  BY <1>1, CurrentFields DEF RequiredNames, Inv
<1>3. Satisfies(chosen)
  BY <1>1 DEF Inv, Solved
<1> QED
  BY <1>1, <1>2, <1>3, RequirementHolds DEF Inv
-----------------------------------------------------------------------------
(* The invariant.                                                           *)

LEMMA SameReduction ==
  /\ Red!Roots = R(input)!Roots
  /\ \A p : Red!Key(p) = R(input)!Key(p)
  /\ \A S : Red!Closed(S) <=> R(input)!Closed(S)
  /\ \A S : Red!OnePerKey(S) <=> R(input)!OnePerKey(S)
<1>1. Red!Roots = R(input)!Roots
  BY DEF Red!Roots, Red!Key, Red!Name, Red!Candidates, Red!requests, Red!FirstShortest, Red!Matching,
         Red!packageMatchesString, Red!packages, Red!Packages, asked, Packages, Pkg,
         R!Roots, R!Key, R!Name, R!Candidates, R!requests, R!FirstShortest, R!Matching,
         R!packageMatchesString, R!packages, R!Packages
<1>2. \A p : Red!Key(p) = R(input)!Key(p)
  BY DEF Red!Key, Red!packages, Packages, Pkg, R!Key, R!packages
<1>3. ASSUME NEW S PROVE Red!Closed(S) <=> R(input)!Closed(S)
  BY <1>1 DEF Red!Closed, Red!RootNames, Red!Key, Red!Name, Red!requires, Red!Provides, Red!packages,
              Red!Packages, Packages, Pkg,
              R!Closed, R!RootNames, R!Key, R!Name, R!requires, R!Provides, R!packages, R!Packages
<1>4. ASSUME NEW S PROVE Red!OnePerKey(S) <=> R(input)!OnePerKey(S)
  BY <1>2 DEF Red!OnePerKey, R!OnePerKey
<1> QED
  BY <1>1, <1>2, <1>3, <1>4

LEMMA InvInit == Init => Inv
<1> SUFFICES ASSUME Init PROVE Inv
  OBVIOUS
<1>1. Types
  <2>1. input \in Inputs
    BY DEF Init
  <2>2. 1 \in 1..(Len(asked) + 1)
    BY <2>1, AskedOf
  <2> QED
    BY <2>1, <2>2 DEF Init, Types, TypeOK
<1>2. Reduced /\ Picked /\ Solved /\ Written
  BY DEF Init, Reduced, Picked, Solved, SolutionWritable, Written
<1> QED
  BY <1>1, <1>2 DEF Inv

LEMMA CallUnchanged == [Next]_vars => UNCHANGED <<input, asked, Packages>>
BY DEF Next, Reduce, ReduceFails, Ignore, IgnoreFails, PickBest, Require, Solve, WriteLock, Panic,
       Terminated, vars, asked, Packages

LEMMA TypesInductive == Inv /\ [Next]_vars => Types'
<1> SUFFICES ASSUME Inv, [Next]_vars PROVE Types'
  OBVIOUS
<1> USE DEF Inv, Types, TypeOK
<1>0. UNCHANGED <<input, asked, Packages>>
  BY CallUnchanged
<1>1. CASE Reduce
  <2>1. PICK S \in SUBSET Packages :
          /\ involved' = S /\ DOMAIN provides' = S /\ DOMAIN requires' = S
    BY <1>1 DEF Reduce
  <2>2. model = {} /\ involved = {}
    BY <1>1 DEF Reduce, Picked, Reduced
  <2>3. forceIgnored = {} /\ required = {} /\ chosen = {}
    BY <2>2
  <2> QED
    BY <1>0, <1>1, <2>1, <2>2, <2>3 DEF Reduce
<1>2. CASE ReduceFails \/ IgnoreFails
  BY <1>0, <1>2 DEF ReduceFails, IgnoreFails
<1>3. CASE Ignore
  BY <1>0, <1>3 DEF Ignore
<1>4. CASE PickBest
  <2>1. required = {} /\ chosen = {}
    BY <1>4 DEF PickBest, Picked
  <2>2. model' \subseteq involved
    BY <1>4 DEF PickBest
  <2> QED
    BY <1>0, <1>4, <2>1, <2>2 DEF PickBest
<1>5. CASE Require
  <2>1. required' \subseteq model
    BY <1>5 DEF Require, Providers
  <2>2. n + 1 \in 1..(Len(asked) + 1)
    BY <1>5, AskedOf DEF Require
  <2> QED
    BY <1>0, <1>5, <2>1, <2>2 DEF Require
<1>6. CASE Solve
  <2>1. chosen' \subseteq model
    BY <1>6 DEF Solve
  <2>2. pc' \in {"unsolvable", "lock"}
    BY <1>6 DEF Solve
  <2> QED
    BY <1>0, <1>6, <2>1, <2>2 DEF Solve
<1>7. CASE WriteLock
  <2>1. pc' \in {"failed", "done"}
    BY <1>7 DEF WriteLock
  <2> QED
    BY <1>0, <1>7, <2>1 DEF WriteLock
<1>8. CASE Panic
  BY <1>0, <1>8 DEF Panic
<1>9. CASE UNCHANGED vars
  BY <1>0, <1>9 DEF vars
<1> QED
  BY <1>1, <1>2, <1>3, <1>4, <1>5, <1>6, <1>7, <1>8, <1>9 DEF Next, Terminated

\* A step after the reduction leaves it alone.
LEMMA Unreduced ==
  ASSUME Reduced, UNCHANGED <<input, involved, provides, requires, forceIgnored>>, pc # "reduce",
         pc' \in {"ignore", "best", "require", "unsolvable"}
         => pc \in {"ignore", "best", "require", "unsolvable"},
         pc' \notin {"reduce", "ignore"}
  PROVE  Reduced'
BY DEF Reduced, Needed, Pkg

LEMMA ReducedInductive == Inv /\ [Next]_vars => Reduced'
<1> SUFFICES ASSUME Inv, [Next]_vars PROVE Reduced'
  OBVIOUS
<1> USE DEF Inv
<1>1. CASE Reduce
  <2>1. forceIgnored = {} /\ UNCHANGED <<input, forceIgnored>> /\ pc' # "reduce"
    BY <1>1 DEF Reduce, Reduced, Types, TypeOK
  <2>2. PICK S \in SUBSET Packages :
          /\ Red!Closed(S) /\ Red!OnePerKey(S) /\ involved' = S
          /\ provides' = [p \in S |-> {e \in Pkg(p).provides :
                                         e.name \in Needed(S) \/ e.name = Pkg(p).name}]
          /\ requires' = [p \in S |-> Pkg(p).requires]
    BY <1>1 DEF Reduce, Needed, Red!Least
  <2>3. R(input)!Closed(S) /\ R(input)!OnePerKey(S)
    BY <2>2, SameReduction
  <2>4. Needed(S)' = Needed(S) /\ \A p : Pkg(p)' = Pkg(p)
    BY <2>1 DEF Needed, Pkg
  <2> QED
    BY <2>1, <2>2, <2>3, <2>4 DEF Reduced
<1>2. CASE ReduceFails
  BY <1>2 DEF ReduceFails, Reduced
<1>3. CASE Ignore
  <2>1. forceIgnored = {} /\ UNCHANGED <<input, involved, provides>> /\ pc = "ignore" /\ pc' = "best"
    BY <1>3 DEF Ignore, Reduced
  <2>2. requires' = [p \in involved |-> IF p \in forceIgnored' THEN <<>> ELSE requires[p]]
    BY <1>3 DEF Ignore
  <2> QED
    BY <2>1, <2>2 DEF Reduced, Needed, Pkg
<1>4. CASE IgnoreFails \/ PickBest \/ Require
  BY <1>4, Unreduced DEF IgnoreFails, PickBest, Require
<1>5. CASE Solve
  BY <1>5, Unreduced DEF Solve
<1>6. CASE WriteLock
  BY <1>6, Unreduced DEF WriteLock
<1>7. CASE Panic
  BY <1>7 DEF Panic, Reduced, Needed, Pkg
<1>8. CASE UNCHANGED vars
  BY <1>8 DEF vars, Reduced, Needed, Pkg
<1> QED
  BY <1>1, <1>2, <1>3, <1>4, <1>5, <1>6, <1>7, <1>8 DEF Next, Terminated

LEMMA PickedInductive == Inv /\ [Next]_vars => Picked'
<1> SUFFICES ASSUME Inv, [Next]_vars PROVE Picked'
  OBVIOUS
<1> USE DEF Inv, Picked
<1>1. CASE Reduce \/ ReduceFails \/ Ignore \/ IgnoreFails
  BY <1>1 DEF Reduce, ReduceFails, Ignore, IgnoreFails
<1>2. CASE PickBest
  <2>1. UNCHANGED <<input, involved>> /\ pc' = "require" /\ (input.nobest => model' = involved)
    BY <1>2 DEF PickBest
  <2>2. ~input.nobest => \A p \in model', q \in involved : ~(SameBestKey(p, q) /\ Worse(p, q))
    BY <1>2 DEF PickBest
  <2> QED
    BY <2>1, <2>2 DEF SameBestKey, Worse, Arch, Older, Pkg
<1>3. CASE Require \/ WriteLock \/ Panic \/ UNCHANGED vars
  BY <1>3 DEF Require, WriteLock, Panic, vars, SameBestKey, Worse, Arch, Older, Pkg
<1>4. CASE Solve
  BY <1>4 DEF Solve, SameBestKey, Worse, Arch, Older, Pkg
<1> QED
  BY <1>1, <1>2, <1>3, <1>4 DEF Next, Terminated

LEMMA SolvedInductive == Inv /\ [Next]_vars => Solved'
<1> SUFFICES ASSUME Inv, [Next]_vars PROVE Solved'
  OBVIOUS
<1> USE DEF Inv, Solved, SolutionWritable
<1>1. CASE Reduce \/ ReduceFails \/ Ignore \/ IgnoreFails \/ PickBest \/ Require
  BY <1>1 DEF Reduce, ReduceFails, Ignore, IgnoreFails, PickBest, Require
<1>2. CASE Solve
  <2>1. pc' \in {"unsolvable", "lock"} /\ UNCHANGED <<input, provides, requires, model, required>>
    BY <1>2 DEF Solve
  <2>2. chosen' # {} => chosen' \in SUBSET model /\ Satisfies(chosen')
    BY <1>2 DEF Solve
  <2>3. pc' = "unsolvable" => chosen' = {} /\ ~\E S \in SUBSET model : Satisfies(S)
    BY <1>2 DEF Solve
  <2>4. \A S : Satisfies(S)' <=> Satisfies(S)
    BY <2>1
       DEF Satisfies, RequiresHold, ConflictsHold, SameNameHolds, explodeSingleRequires, Resources, Pkg
  <2> QED
    BY <2>1, <2>2, <2>3, <2>4
<1>3. CASE WriteLock
  <2>1. /\ pc = "lock" /\ pc' \in {"failed", "done"}
        /\ UNCHANGED <<input, provides, requires, forceIgnored, model, required, chosen>>
    BY <1>3 DEF WriteLock
  <2>2. pc' = "failed" => toConfigFails(CurrentOf(install), CurrentOf(chosen \cap forceIgnored))
    BY <1>3 DEF WriteLock
  <2>3. pc' = "failed" => (\E p \in install : IntegrityFails(Pkg(p)))'
    BY <2>1, <2>2, NothingMissing DEF install, Pkg, IntegrityFails
  <2>4. chosen' # {} => Satisfies(chosen)'
    BY <2>1
       DEF Satisfies, RequiresHold, ConflictsHold, SameNameHolds, explodeSingleRequires, Resources, Pkg
  <2> QED
    BY <2>1, <2>3, <2>4
<1>4. CASE Panic
  <2>1. pc' = "panicked" /\ UNCHANGED <<input, provides, requires, model, required, chosen>>
    BY <1>4 DEF Panic
  <2> QED
    BY <2>1
       DEF Satisfies, RequiresHold, ConflictsHold, SameNameHolds, explodeSingleRequires, Resources, Pkg
<1>5. CASE UNCHANGED vars
  <2>1. UNCHANGED <<input, pc, provides, requires, forceIgnored, model, required, chosen>>
    BY <1>5 DEF vars
  <2>2. \A S : Satisfies(S)' <=> Satisfies(S)
    BY <2>1
       DEF Satisfies, RequiresHold, ConflictsHold, SameNameHolds, explodeSingleRequires, Resources, Pkg
  <2>3. (\E p \in install : IntegrityFails(Pkg(p)))' <=> \E p \in install : IntegrityFails(Pkg(p))
    BY <2>1 DEF install, Pkg, IntegrityFails
  <2> QED
    BY <2>1, <2>2, <2>3
<1> QED
  BY <1>1, <1>2, <1>3, <1>4, <1>5 DEF Next, Terminated

LEMMA WrittenInductive == Inv /\ [Next]_vars => Written'
<1> SUFFICES ASSUME Inv, [Next]_vars PROVE Written'
  OBVIOUS
<1> USE DEF Written
<1>1. CASE Reduce \/ ReduceFails \/ Ignore \/ IgnoreFails \/ PickBest \/ Require \/ Panic
  BY <1>1 DEF Reduce, ReduceFails, Ignore, IgnoreFails, PickBest, Require, Panic
<1>2. CASE Solve
  BY <1>2 DEF Solve
<1>3. CASE WriteLock
  <2>1. UNCHANGED <<input, provides, requires, forceIgnored, chosen>>
    BY <1>3 DEF WriteLock
  <2>2. pc' = "done" =>
          config' = toConfig(CurrentOf(install), CurrentOf(chosen \cap forceIgnored), input.requests)
    BY <1>3 DEF WriteLock
  <2> QED
    BY <2>1, <2>2 DEF CurrentOf, Current, install, Pkg
<1>4. CASE UNCHANGED vars
  BY <1>4 DEF Inv, vars, CurrentOf, Current, install, Pkg
<1> QED
  BY <1>1, <1>2, <1>3, <1>4 DEF Next, Terminated

LEMMA InvAlways == Spec => []Inv
<1>1. Inv /\ [Next]_vars => Inv'
  BY TypesInductive, ReducedInductive, PickedInductive, SolvedInductive, WrittenInductive DEF Inv
<1> QED
  BY InvInit, <1>1, PTL DEF Spec
-----------------------------------------------------------------------------
(* What is installed, and what is written.                                  *)

\* A package that is installed has what it requires among what was chosen.
LEMMA InstalledRequires ==
  ASSUME Inv, NEW p \in install, NEW m \in DOMAIN Pkg(p).requires
  PROVE  \E q \in chosen : /\ Offers(q, Pkg(p).requires[m])
                           /\ Pkg(p).requires[m].name \in ProvidedNames(Current(q))
<1>1. p \in chosen /\ p \notin forceIgnored /\ chosen \in SUBSET model /\ p \in involved
  BY DEF install, Inv, Types, TypeOK
<1>2. requires[p] = Pkg(p).requires
  BY <1>1 DEF Inv, Reduced
<1>3. Satisfies(chosen)
  BY <1>1 DEF Inv, Solved
<1> QED
  BY <1>1, <1>2, <1>3, RequirementHolds DEF Inv

LEMMA ChosenOnce ==
  ASSUME Inv PROVE OnePerName(chosen)
<1>1. chosen # {} => Satisfies(chosen)
  BY DEF Inv, Solved
<1> QED
  BY <1>1 DEF Satisfies, SameNameHolds, OnePerName

\* Of what is chosen, the lock file's records are as different as the packages.
LEMMA CurrentDiffers ==
  ASSUME Inv, NEW p \in chosen, NEW q \in chosen, Current(p).name = Current(q).name
  PROVE  p = q
<1>1. p \in involved /\ q \in involved
  BY DEF Inv, Types, TypeOK
<1>2. Pkg(p).name = Pkg(q).name
  BY <1>1, CurrentFields DEF Inv
<1> QED
  BY <1>2, ChosenOnce DEF OnePerName

\* Who provides what a package requires is one of its dependencies.
LEMMA Collected ==
  ASSUME NEW p, NEW ignored, NEW installed, NEW q \in installed \ ignored, q # p,
         NEW m \in RequiredNames(p) \cap ProvidedNames(q)
  PROVE  q \in collectDependencies(p, ignored, installed)
<1> DEFINE all == UNION {collectProviders(ignored, installed, name) \ ignored :
                         name \in RequiredNames(p)}
<1>1. collectDependencies(p, ignored, installed) = all \ {p}
  BY DEF collectDependencies
<1>2. q \in all
  BY DEF collectProviders
<1> HIDE DEF all
<1> QED
  BY <1>1, <1>2

\* The record of a package in the lock file.
Dependencies(p, ignored, installed) == {makeId(q) : q \in collectDependencies(p, ignored, installed)}
Record(p, ignored, installed) ==
  [id |-> makeId(p), dependencies |-> Dependencies(p, ignored, installed)]
Records(S, ignored, installed) == {Record(p, ignored, installed) : p \in S}
Ids(S) == {makeId(p) : p \in S}
Ignored == CurrentOf(chosen \cap forceIgnored)

LEMMA ConfigOf ==
  ASSUME NEW installed, NEW ignored, NEW targets
  PROVE  /\ toConfig(installed, ignored, targets).rpms = Records(installed, ignored, installed)
         /\ toConfig(installed, ignored, targets).forceIgnored = Ids(ignored)
BY DEF toConfig, Record, Dependencies, Records, Ids

LEMMA Recorded ==
  ASSUME Inv, pc = "done"
  PROVE  /\ \A r : r \in config.rpms <=>
                   \E p \in install : r = Record(Current(p), Ignored, CurrentOf(install))
         /\ \A p \in install : Record(Current(p), Ignored, CurrentOf(install)).id = Pkg(p).name
         /\ \A i : i \in config.forceIgnored <=> \E p \in chosen \cap forceIgnored : i = Pkg(p).name
<1>1. config = toConfig(CurrentOf(install), Ignored, input.requests)
  BY DEF Inv, Written, Ignored
<1>2. \A p \in chosen : makeId(Current(p)) = Pkg(p).name
  BY CurrentFields DEF makeId, Inv, Types, TypeOK
<1>3. install \subseteq chosen
  BY DEF install
<1>4. config.rpms = Records(CurrentOf(install), Ignored, CurrentOf(install))
  BY <1>1, ConfigOf
<1>5. config.forceIgnored = Ids(CurrentOf(chosen \cap forceIgnored))
  BY <1>1, ConfigOf DEF Ignored
<1>6. \A p \in install : Record(Current(p), Ignored, CurrentOf(install)).id = makeId(Current(p))
  BY DEF Record
<1>7. ASSUME NEW S, NEW I, NEW J, NEW r
      PROVE  r \in Records(CurrentOf(S), I, J) <=> \E p \in S : r = Record(Current(p), I, J)
  BY DEF CurrentOf, Records
<1>8. ASSUME NEW S, NEW i PROVE i \in Ids(CurrentOf(S)) <=> \E p \in S : i = makeId(Current(p))
  BY DEF CurrentOf, Ids
<1>9. ASSUME NEW i
      PROVE  i \in config.forceIgnored <=> \E p \in chosen \cap forceIgnored : i = Pkg(p).name
  BY <1>2, <1>5, <1>8
<1> QED
  BY <1>2, <1>3, <1>4, <1>6, <1>7, <1>9

\* Every package that is installed and not ignored has its requirements in the
\* solution, and no package is there twice (InstallComplete, loader.go:172-190).
THEOREM InstallsComplete == Spec => []InstallComplete
<1>1. Inv => InstallComplete
  <2> SUFFICES ASSUME Inv PROVE /\ \A p \in install : Satisfied(p, chosen)
                                /\ OnePerName(chosen)
    BY DEF InstallComplete
  <2>1. ASSUME NEW p \in install PROVE Satisfied(p, chosen)
    BY InstalledRequires DEF Satisfied
  <2> QED
    BY <2>1, ChosenOnce
<1> QED
  BY <1>1, InvAlways, PTL

\* By default no package is installed of which the same repositories have a newer
\* version for the same architecture (NewestByDefault, README.md:230).
THEOREM NewestInstalled == Spec => []NewestByDefault
<1>1. Inv => NewestByDefault
  <2> SUFFICES ASSUME Inv, ~input.nobest, NEW p \in install, NEW q \in involved,
                      SameBestKey(p, q), Pkg(p).priority = Pkg(q).priority
               PROVE  ~Older(Pkg(p).version, Pkg(q).version)
    BY DEF NewestByDefault
  <2>1. p \in model
    BY DEF install, Inv, Types, TypeOK
  <2>2. ~Worse(p, q)
    BY <2>1 DEF Inv, Picked
  <2>3. Arch(p) = Arch(q)
    BY DEF SameBestKey, Arch
  <2> QED
    BY <2>2, <2>3 DEF Worse
<1> QED
  BY <1>1, InvAlways, PTL

\* With the dependencies the lock file lists, and the ignored packages, a package
\* has all it requires (DependenciesSuffice, config_helper.go:114-149).
THEOREM DependenciesAreEnough == Spec => []DependenciesSuffice
<1>1. Inv => DependenciesSuffice
  <2> SUFFICES ASSUME Inv, pc = "done", NEW p \in install
               PROVE  \E rpm \in config.rpms :
                        /\ rpm.id = Pkg(p).name
                        /\ Satisfied(p, {q \in chosen : q \in forceIgnored \cup {p}
                                                        \/ Pkg(q).name \in rpm.dependencies})
    BY DEF DependenciesSuffice
  <2> DEFINE others == Dependencies(Current(p), Ignored, CurrentOf(install))
             rpm    == Record(Current(p), Ignored, CurrentOf(install))
  <2>1. p \in chosen /\ p \notin forceIgnored /\ chosen \subseteq involved
    BY DEF install, Inv, Types, TypeOK
  <2>2. rpm \in config.rpms /\ rpm.id = Pkg(p).name
    BY Recorded
  <2>3. rpm.dependencies = others
    BY DEF Record
  <2>4. ASSUME NEW m \in DOMAIN Pkg(p).requires
        PROVE  \E q \in chosen : /\ Offers(q, Pkg(p).requires[m])
                                 /\ q \in forceIgnored \cup {p} \/ Pkg(q).name \in others
    <3>1. PICK q \in chosen : /\ Offers(q, Pkg(p).requires[m])
                              /\ Pkg(p).requires[m].name \in ProvidedNames(Current(q))
      BY InstalledRequires
    <3>2. ASSUME q \notin forceIgnored, q # p PROVE Pkg(q).name \in others
      <4>1. Current(q) \in CurrentOf(install)
        BY <3>2 DEF CurrentOf, install
      <4>2. Current(q) \notin Ignored
        BY <3>2, CurrentDiffers DEF CurrentOf, Ignored
      <4>3. Current(q) # Current(p)
        BY <3>2, <2>1, CurrentDiffers
      <4>4. Pkg(p).requires[m].name \in RequiredNames(Current(p))
        <5>1. Current(p).requires = Pkg(p).requires
          BY <2>1, CurrentFields DEF Inv, Reduced
        <5> QED
          BY <5>1 DEF RequiredNames
      <4>5. Current(q) \in collectDependencies(Current(p), Ignored, CurrentOf(install))
        BY <3>1, <4>1, <4>2, <4>3, <4>4, Collected
      <4>6. makeId(Current(q)) = Pkg(q).name
        BY <2>1, CurrentFields DEF makeId, Inv
      <4> QED
        BY <4>5, <4>6 DEF Dependencies
    <3> QED
      BY <3>1, <3>2
  <2>5. Satisfied(p, {q \in chosen : q \in forceIgnored \cup {p} \/ Pkg(q).name \in rpm.dependencies})
    BY <2>3, <2>4 DEF Satisfied
  <2> QED
    BY <2>2, <2>3, <2>5
<1> QED
  BY <1>1, InvAlways, PTL

\* The lock file can be written for every solution whose checksums can be read, and speaks
\* of its packages by ids that are theirs alone (LockFileSound, config_helper.go:33-149).
THEOREM LockFileAlwaysSound == Spec => []LockFileSound
<1>1. Inv => SolutionWritable
  BY DEF Inv, Solved, SolutionWritable
<1>2. Inv => LockFileClosed
  <2> SUFFICES ASSUME Inv, pc = "done" PROVE LockFileClosed
    BY DEF LockFileClosed
  <2> DEFINE ids  == {rpm.id : rpm \in config.rpms}
             name == [p \in install |-> Pkg(p).name]
  <2>1. \A i : i \in ids <=> \E p \in install : i = Pkg(p).name
    BY Recorded
  <2>2. install \subseteq chosen /\ chosen \subseteq involved /\ involved \subseteq Packages
    BY DEF install, Inv, Types, TypeOK
  <2>3. Cardinality(ids) = Cardinality(install)
    <3>1. IsFiniteSet(install)
      BY <2>2, PackagesFinite, FS_Subset DEF Inv
    <3> HIDE DEF ids
    <3>2. name \in Bijection(install, ids)
      <4>1. name \in [install -> ids]
        BY <2>1
      <4>2. \A p, q \in install : name[p] = name[q] => p = q
        BY <2>2, ChosenOnce DEF OnePerName
      <4>3. \A i \in ids : \E p \in install : name[p] = i
        BY <2>1
      <4> QED
        BY <4>1, <4>2, <4>3 DEF Bijection, Injection, Surjection, IsInjective
    <3>3. ExistsBijection(install, ids)
      BY <3>2 DEF ExistsBijection
    <3> QED
      BY <3>1, <3>3, FS_Bijection
  <2>4. ids \cap config.forceIgnored = {}
    <3> SUFFICES ASSUME NEW i \in ids, i \in config.forceIgnored PROVE FALSE
      OBVIOUS
    <3>1. PICK p \in install : i = Pkg(p).name
      BY <2>1
    <3>2. PICK q \in chosen \cap forceIgnored : i = Pkg(q).name
      BY Recorded
    <3> QED
      BY <3>1, <3>2, <2>2, ChosenOnce DEF OnePerName, install
  <2>5. ASSUME NEW rpm \in config.rpms, NEW d \in rpm.dependencies
        PROVE  d \in ids /\ d # rpm.id
    <3>1. PICK p \in install : rpm = Record(Current(p), Ignored, CurrentOf(install))
      BY Recorded
    <3>2. rpm.id = Pkg(p).name
      BY <3>1, Recorded
    <3>3. PICK c \in collectDependencies(Current(p), Ignored, CurrentOf(install)) : d = makeId(c)
      BY <3>1 DEF Record, Dependencies
    <3>4. c \in CurrentOf(install) /\ c # Current(p)
      BY <3>3 DEF collectDependencies, collectProviders
    <3>5. PICK q \in install : c = Current(q)
      BY <3>4 DEF CurrentOf
    <3>6. d = Pkg(q).name /\ q # p
      BY <2>2, <3>3, <3>4, <3>5, CurrentFields DEF makeId, Inv
    <3> QED
      BY <2>1, <2>2, <3>2, <3>6, ChosenOnce DEF OnePerName
  <2> HIDE DEF ids
  <2>6. \A rpm \in config.rpms : rpm.dependencies \subseteq ids \ {rpm.id}
    BY <2>5
  <2> QED
    BY <2>3, <2>4, <2>6 DEF LockFileClosed, ids
<1>3. Inv => TypeOK
  BY DEF Inv, Types
<1> QED
  BY <1>1, <1>2, <1>3, InvAlways, PTL DEF LockFileSound
-----------------------------------------------------------------------------
(* What the reducer drops.                                                  *)

LEMMA PlainFields ==
  ASSUME NEW pkg
  PROVE  /\ Plain(pkg).name = <<pkg.name>>
         /\ \A e \in pkg.provides : <<e.name>> \in Plain(pkg).provides
         /\ \A f \in pkg.files : <<f>> \in Plain(pkg).files
         /\ DOMAIN Plain(pkg).requires = DOMAIN pkg.requires
         /\ \A m \in DOMAIN pkg.requires : Plain(pkg).requires[m] = <<pkg.requires[m].name>>
BY DEF Plain

\* The reducer reads of a package what the repository says.
LEMMA ReducerReads ==
  ASSUME NEW p \in Packages
  PROVE  /\ Red!Name(p) = <<Pkg(p).name>>
         /\ \A q \in Packages : Red!Key(p) = Red!Key(q) => Pkg(p).name = Pkg(q).name
         /\ \A q \in Packages, m \in DOMAIN Pkg(p).requires :
              Offers(q, Pkg(p).requires[m]) => q \in Red!requires(p)
<1>1. \A q \in Packages : Red!packages[q] = Plain(Pkg(q))
  BY DEF Red!packages
<1>2. Red!Packages = Packages
  BY DEF Red!Packages, Red!packages
<1>3. \A q \in Packages : Red!Name(q) = <<Pkg(q).name>>
  BY <1>1, PlainFields DEF Red!Name
<1>4. ASSUME NEW q \in Packages, Red!Key(p) = Red!Key(q) PROVE Pkg(p).name = Pkg(q).name
  <2>1. Red!packages[p].name = Red!packages[q].name
    BY <1>4 DEF Red!Key
  <2> QED
    BY <1>1, <2>1, PlainFields
<1>5. ASSUME NEW q \in Packages, NEW m \in DOMAIN Pkg(p).requires,
             Offers(q, Pkg(p).requires[m])
      PROVE  q \in Red!requires(p)
  <2>1. /\ m \in DOMAIN Red!packages[p].requires
        /\ Red!packages[p].requires[m] = <<Pkg(p).requires[m].name>>
    BY <1>1, PlainFields
  <2>2. Red!Provides(q, <<Pkg(p).requires[m].name>>)
    BY <1>1, <1>5, PlainFields DEF Red!Provides, Offers
  <2> QED
    BY <1>2, <2>1, <2>2 DEF Red!requires
<1> QED
  BY <1>3, <1>4, <1>5

\* Of each package that could be installed with a member, a copy is involved.
LEMMA CopyInvolved ==
  ASSUME Inv, pc = "unsolvable", CopiesAlike, NEW S \in SUBSET Packages, Installable(S),
         NEW s \in S, NEW q \in S, NEW p \in involved, Red!Key(p) = Red!Key(s),
         NEW m \in DOMAIN Pkg(p).requires, Offers(q, Pkg(p).requires[m])
  PROVE  \E c \in involved : Red!Key(c) = Red!Key(q)
<1>1. Red!Closed(involved) /\ p \in Packages
  BY SameReduction DEF Inv, Reduced, Types, TypeOK
<1>2. q \in Red!requires(p)
  BY <1>1, ReducerReads
<1>3. CASE Red!Name(q) \in Red!RootNames
  <2>1. q \in Red!Roots
    BY <1>3, ReducerReads DEF Installable
  <2> QED
    BY <1>1, <2>1 DEF Red!Closed
<1>4. CASE Red!Name(q) \notin Red!RootNames
  BY <1>1, <1>2, <1>4 DEF Red!Closed
<1> QED
  BY <1>3, <1>4

\* What an involved package offers to another is still there.
LEMMA StillOffered ==
  ASSUME Inv, NEW p \in involved, NEW m \in DOMAIN Pkg(p).requires,
         NEW q \in involved, Offers(q, Pkg(p).requires[m])
  PROVE  \E r \in Resources(q) : r.name = Pkg(p).requires[m].name /\ Accepts(Pkg(p).requires[m], r)
<1> DEFINE entry == Pkg(p).requires[m]
<1>1. CASE entry.name \in Pkg(q).files
  <2> DEFINE r == [name |-> entry.name, version |-> [ver |-> 0, rel |-> 0]]
  <2>1. r \in Resources(q) /\ r.name = entry.name
    BY <1>1 DEF Resources
  <2>2. Cut(r.version, entry.version) = [ver |-> 0, rel |-> 0]
    BY DEF Cut
  <2> QED
    BY <2>1, <2>2 DEF Accepts
<1>2. CASE entry.name \notin Pkg(q).files
  <2>1. PICK r \in Pkg(q).provides : r.name = entry.name /\ Accepts(entry, r)
    BY <1>2 DEF Offers
  <2>2. entry.name \in Needed(involved)
    BY DEF Needed, RequiredNames
  <2>3. r \in provides[q]
    BY <2>1, <2>2 DEF Inv, Reduced
  <2> QED
    BY <2>1, <2>3 DEF Resources
<1> QED
  BY <1>1, <1>2

\* Copies of what could be installed satisfy the formula.
LEMMA CopiesSatisfy ==
  ASSUME Inv, pc = "unsolvable", input.nobest, CopiesAlike,
         NEW S \in SUBSET Packages, Installable(S)
  PROVE  Satisfies({p \in involved : \E s \in S : Red!Key(p) = Red!Key(s)})
<1> DEFINE T == {p \in involved : \E s \in S : Red!Key(p) = Red!Key(s)}
<1>1. /\ model = involved /\ involved \subseteq Packages /\ required \subseteq model
      /\ forceIgnored \subseteq involved
  BY DEF Inv, Types, TypeOK, Picked
<1>2. \A p, q \in involved : Red!Key(p) = Red!Key(q) => p = q
  BY SameReduction DEF Inv, Reduced, Red!OnePerKey
<1>3. required \subseteq T
  BY <1>1 DEF Installable
<1>4. ASSUME NEW p \in T PROVE RequiresHold(p, T)
  <2> SUFFICES ASSUME NEW m \in DOMAIN requires[p]
               PROVE  \E q \in T : q \in explodeSingleRequires(requires[p][m])
    BY DEF RequiresHold
  <2>1. p \notin forceIgnored /\ requires[p] = Pkg(p).requires
    BY DEF Inv, Reduced
  <2>2. PICK s \in S : Red!Key(p) = Red!Key(s)
    OBVIOUS
  <2>3. s \notin forceIgnored
    BY <1>1, <1>2, <2>1, <2>2
  <2>4. Pkg(s).requires = Pkg(p).requires
    BY <1>1, <2>2 DEF CopiesAlike
  <2>5. PICK q \in S : Offers(q, Pkg(p).requires[m])
    BY <2>1, <2>3, <2>4 DEF Installable, Satisfied
  <2>6. PICK c \in involved : Red!Key(c) = Red!Key(q)
    BY <2>1, <2>2, <2>5, CopyInvolved
  <2>7. Offers(c, Pkg(p).requires[m])
    BY <1>1, <2>5, <2>6 DEF CopiesAlike, Offers
  <2>8. c \in explodeSingleRequires(requires[p][m])
    BY <1>1, <2>1, <2>7, StillOffered DEF explodeSingleRequires
  <2> QED
    BY <2>6, <2>8
<1>5. ASSUME NEW p \in T PROVE ConflictsHold(p, T)
  <2> SUFFICES ASSUME NEW m \in DOMAIN Pkg(p).conflicts, NEW q \in T,
                      q \in explodeSingleRequires(Pkg(p).conflicts[m]), q # p
               PROVE  FALSE
    BY DEF ConflictsHold
  <2>1. PICK s \in S : Red!Key(p) = Red!Key(s)
    OBVIOUS
  <2>2. PICK t \in S : Red!Key(q) = Red!Key(t)
    OBVIOUS
  <2>3. Offers(q, Pkg(p).conflicts[m])
    BY OffersOf DEF explodeSingleRequires, Inv
  <2>4. Pkg(s).conflicts = Pkg(p).conflicts /\ Offers(t, Pkg(p).conflicts[m])
    BY <1>1, <2>1, <2>2, <2>3 DEF CopiesAlike, Offers
  <2>5. s # t
    BY <1>2, <2>1, <2>2
  <2> QED
    BY <2>4, <2>5 DEF Installable, InConflict
<1>6. ASSUME NEW p \in T PROVE SameNameHolds(p, T)
  <2> SUFFICES ASSUME NEW q \in T, Pkg(q).name = Pkg(p).name PROVE q = p
    BY DEF SameNameHolds
  <2>1. PICK s \in S : Red!Key(p) = Red!Key(s)
    OBVIOUS
  <2>2. PICK t \in S : Red!Key(q) = Red!Key(t)
    OBVIOUS
  <2>3. Pkg(s).name = Pkg(t).name
    BY <1>1, <2>1, <2>2, ReducerReads
  <2>4. s = t
    BY <2>3 DEF Installable, OnePerName
  <2> QED
    BY <1>2, <2>1, <2>2, <2>4
<1> QED
  BY <1>3, <1>4, <1>5, <1>6 DEF Satisfies

\* When no version is ruled out, and copies of a package say the same, a set of
\* loaded packages that could be installed is missed by no reduction
\* (ReductionLosesNothing, doc.go).
THEOREM ReducerLosesNothing == Spec => []ReductionLosesNothing
<1>1. Inv => ReductionLosesNothing
  <2> SUFFICES ASSUME Inv, pc = "unsolvable", input.nobest, CopiesAlike,
                      NEW S \in SUBSET Packages, Installable(S)
               PROVE  FALSE
    BY DEF ReductionLosesNothing
  <2> DEFINE T == {p \in involved : \E s \in S : Red!Key(p) = Red!Key(s)}
  <2>1. Satisfies(T)
    BY CopiesSatisfy
  <2>2. T \in SUBSET model
    BY DEF Inv, Picked
  <2> HIDE DEF T
  <2> QED
    BY <2>1, <2>2 DEF Inv, Solved
<1> QED
  BY <1>1, InvAlways, PTL
-----------------------------------------------------------------------------
(* What a set of packages costs, while no package has twenty worse ones of  *)
(* its name: from the next one on prices are negative.                      *)

Few == \A p \in model : Cardinality({q \in Namesakes(p) : Worse(q, p)}) < 20
IsBest(p) == \A q \in Namesakes(p) : ~Worse(p, q)

\* A sum over the sets of up to k of the packages, in the order of CHOOSE.
Small(S, k) == {u \in SUBSET S : Cardinality(u) <= k}
IsSum(f, S, k) ==
  /\ f = [u \in Small(S, k) |-> f[u]]
  /\ \A u \in Small(S, k) : f[u] = IF u = {} THEN 0
                                   ELSE LET x == CHOOSE x \in u : TRUE
                                        IN PriceOf(x) + f[u \ {x}]

LEMMA OneLess ==
  ASSUME NEW S, IsFiniteSet(S), NEW u \in SUBSET S, u # {}
  PROVE  LET x == CHOOSE x \in u : TRUE IN
           /\ x \in u /\ u \ {x} \in SUBSET S
           /\ Cardinality(u) \in Nat \ {0} /\ Cardinality(u \ {x}) = Cardinality(u) - 1
<1> DEFINE x == CHOOSE x \in u : TRUE
<1>1. x \in u
  OBVIOUS
<1> HIDE DEF x
<1>2. IsFiniteSet(u)
  BY FS_Subset
<1>3. Cardinality(u) \in Nat /\ Cardinality(u) # 0
  BY <1>2, FS_CardinalityType, FS_EmptySet
<1>4. Cardinality(u \ {x}) = Cardinality(u) - 1
  BY <1>1, <1>2, FS_RemoveElement
<1> QED
  BY <1>1, <1>3, <1>4 DEF x

LEMMA SumExists ==
  ASSUME NEW S, IsFiniteSet(S), NEW size \in Nat
  PROVE  \E f : IsSum(f, S, size)
<1> DEFINE Bad == {k \in Nat : ~\E f : IsSum(f, S, k)}
<1>1. SUFFICES ASSUME Bad # {} PROVE FALSE
  OBVIOUS
<1>2. PICK k \in Bad : \A i \in Bad : k <= i
  <2>1. Bad \in SUBSET Nat
    OBVIOUS
  <2> HIDE DEF Bad
  <2> QED BY <1>1, <2>1, NatMinimum
<1>3. k \in Nat /\ ~\E f : IsSum(f, S, k)
  OBVIOUS
<1>4. \A u \in SUBSET S : Cardinality(u) \in Nat /\ (Cardinality(u) = 0 <=> u = {})
  BY FS_Subset, FS_CardinalityType, FS_EmptySet
<1>5. CASE k = 0
  <2> DEFINE f == [u \in Small(S, 0) |-> 0]
  <2>1. \A u \in Small(S, 0) : u = {}
    BY <1>4 DEF Small
  <2>2. IsSum(f, S, 0)
    BY <2>1 DEF IsSum
  <2> QED BY <1>3, <1>5, <2>2
<1>6. CASE k # 0
  <2>1. k - 1 \in Nat /\ ~(k <= k - 1)
    BY <1>3, <1>6
  <2>2. k - 1 \notin Bad
    <3> HIDE DEF Bad
    <3> QED BY <1>2, <2>1
  <2>3. PICK f : IsSum(f, S, k - 1)
    BY <2>1, <2>2
  <2> DEFINE Value(u) == IF u = {} THEN 0
                         ELSE LET x == CHOOSE x \in u : TRUE IN PriceOf(x) + f[u \ {x}]
             g == [u \in Small(S, k) |-> Value(u)]
  <2>4. ASSUME NEW u \in Small(S, k - 1) PROVE u \in Small(S, k) /\ g[u] = f[u]
    <3>1. u \in Small(S, k)
      BY <1>3, <1>4 DEF Small
    <3>2. f[u] = Value(u)
      BY <2>3 DEF IsSum
    <3> HIDE DEF Value
    <3> QED BY <3>1, <3>2
  <2>5. ASSUME NEW u \in Small(S, k)
        PROVE  g[u] = IF u = {} THEN 0
                      ELSE LET x == CHOOSE x \in u : TRUE IN PriceOf(x) + g[u \ {x}]
    <3>1. CASE u = {}
      BY <3>1
    <3>2. CASE u # {}
      <4> DEFINE x == CHOOSE x \in u : TRUE
      <4>1. /\ u \ {x} \in SUBSET S /\ Cardinality(u) <= k
            /\ Cardinality(u) \in Nat \ {0} /\ Cardinality(u \ {x}) = Cardinality(u) - 1
        BY <3>2, OneLess DEF Small
      <4>2. u \ {x} \in Small(S, k - 1)
        <5> HIDE DEF x
        <5> QED BY <1>3, <4>1 DEF Small
      <4>3. g[u \ {x}] = f[u \ {x}]
        <5> HIDE DEF x, g
        <5> QED BY <2>4, <4>2
      <4>4. g[u] = PriceOf(x) + f[u \ {x}]
        BY <3>2
      <4>5. g[u] = PriceOf(x) + g[u \ {x}]
        <5> HIDE DEF x, g
        <5> QED BY <4>3, <4>4
      <4> HIDE DEF g
      <4> QED BY <3>2, <4>5
    <3> QED BY <3>1, <3>2
  <2>6. g = [u \in Small(S, k) |-> g[u]]
    <3> HIDE DEF Value
    <3> QED OBVIOUS
  <2> HIDE DEF g
  <2>7. IsSum(g, S, k)
    BY <2>5, <2>6 DEF IsSum
  <2> QED BY <1>3, <2>7
<1> QED
  BY <1>5, <1>6

LEMMA CostOf ==
  ASSUME NEW S, IsFiniteSet(S)
  PROVE  \E f : /\ IsSum(f, S, Cardinality(S)) /\ Small(S, Cardinality(S)) = SUBSET S
                /\ Cost(S) = f[S]
<1>1. Cardinality(S) \in Nat /\ \A u \in SUBSET S : Cardinality(u) <= Cardinality(S)
  BY FS_CardinalityType, FS_Subset
<1>2. Small(S, Cardinality(S)) = SUBSET S
  BY <1>1 DEF Small
<1>3. PICK f : IsSum(f, S, Cardinality(S))
  BY <1>1, SumExists
<1>4. f = [u \in SUBSET S |-> IF u = {} THEN 0
                              ELSE LET x == CHOOSE x \in u : TRUE IN PriceOf(x) + f[u \ {x}]]
  BY <1>2, <1>3 DEF IsSum
<1> DEFINE iter[u \in SUBSET S] == IF u = {} THEN 0
                                   ELSE LET x == CHOOSE x \in u : TRUE IN PriceOf(x) + iter[u \ {x}]
<1>5. iter = [u \in SUBSET S |-> IF u = {} THEN 0
                                 ELSE LET x == CHOOSE x \in u : TRUE IN PriceOf(x) + iter[u \ {x}]]
  BY <1>4 DEF iter
<1>6. Cost(S) = iter[S]
  BY DEF Cost, MapThenSumSet, MapThenFoldSet
<1> HIDE DEF iter
<1>7. iter = [u \in SUBSET S |-> iter[u]]
  BY <1>5
<1>8. IsSum(iter, S, Cardinality(S))
  BY <1>2, <1>5, <1>7 DEF IsSum
<1> QED
  BY <1>2, <1>6, <1>8

\* While prices are not negative, a set costs nothing if and only if none of it does.
LEMMA CostsNothing ==
  ASSUME NEW S, IsFiniteSet(S), \A p \in S : PriceOf(p) \in Nat
  PROVE  Cost(S) \in Nat /\ (Cost(S) = 0 <=> \A p \in S : PriceOf(p) = 0)
<1>1. PICK f : /\ IsSum(f, S, Cardinality(S)) /\ Small(S, Cardinality(S)) = SUBSET S
               /\ Cost(S) = f[S]
  BY CostOf
<1> DEFINE Right(u) == f[u] \in Nat /\ (f[u] = 0 <=> \A p \in u : PriceOf(p) = 0)
           Bad == {k \in Nat : \E u \in SUBSET S : Cardinality(u) = k /\ ~Right(u)}
<1>2. SUFFICES ASSUME Bad # {} PROVE FALSE
  <2>1. Cardinality(S) \in Nat
    BY FS_CardinalityType
  <2>2. Bad = {} => Right(S)
    <3> HIDE DEF Right
    <3> QED BY <2>1
  <2> HIDE DEF Bad
  <2> QED BY <1>1, <2>2
<1>3. PICK k \in Bad : \A i \in Bad : k <= i
  <2>1. Bad \in SUBSET Nat
    OBVIOUS
  <2> HIDE DEF Bad
  <2> QED BY <1>2, <2>1, NatMinimum
<1>4. PICK u \in SUBSET S : Cardinality(u) = k /\ ~Right(u)
  <2> HIDE DEF Right
  <2> QED OBVIOUS
<1>5. u # {}
  <2>1. ASSUME u = {} PROVE Right(u)
    <3>1. f[u] = 0
      BY <1>1, <2>1 DEF IsSum
    <3> QED BY <2>1, <3>1
  <2> HIDE DEF Right
  <2> QED BY <1>4, <2>1
<1> DEFINE x == CHOOSE x \in u : TRUE
           v == u \ {x}
<1>6. /\ x \in u /\ v \in SUBSET S /\ Cardinality(u) \in Nat \ {0} /\ Cardinality(v) = Cardinality(u) - 1
  BY <1>5, OneLess
<1>7. f[u] = PriceOf(x) + f[v]
  BY <1>1, <1>5 DEF IsSum
<1> HIDE DEF x
<1>8. Right(v)
  <2> HIDE DEF Right, v
  <2>1. Cardinality(v) \in Nat /\ ~(k <= Cardinality(v))
    BY <1>4, <1>6
  <2>2. Cardinality(v) \notin Bad
    <3> HIDE DEF Bad
    <3> QED BY <1>3, <2>1
  <2> QED BY <1>6, <2>1, <2>2
<1>9. PriceOf(x) \in Nat /\ \A p \in u : p = x \/ p \in v
  BY <1>6
<1>10. f[u] \in Nat /\ (f[u] = 0 <=> PriceOf(x) = 0 /\ f[v] = 0)
  <2> HIDE DEF v
  <2> QED BY <1>7, <1>8, <1>9
<1>11. Right(u)
  BY <1>6, <1>8, <1>9, <1>10
<1> HIDE DEF Right
<1> QED
  BY <1>4, <1>11

LEMMA PricesOf ==
  ASSUME Types, Few, NEW p \in model
  PROVE  PriceOf(p) \in Nat /\ (PriceOf(p) = 0 <=> IsBest(p))
<1> DEFINE worse == {q \in Namesakes(p) : Worse(q, p)}
<1>1. worse \in SUBSET Packages
  BY DEF Namesakes, Types, TypeOK
<1>2. Cardinality(worse) \in Nat /\ Cardinality(worse) < 20
  BY <1>1, PackagesFinite, FS_Subset, FS_CardinalityType DEF Few
<1>3. PriceOf(p) = IF IsBest(p) THEN 0 ELSE IF Cardinality(worse) < 20 THEN 1901 - 100 * Cardinality(worse) ELSE -99
  BY DEF PriceOf, IsBest
<1> HIDE DEF worse
<1> QED
  BY <1>2, <1>3

\* What is cheapest is free if anything is.
LEMMA CheapestIsBest ==
  ASSUME Types, Few, NEW S \in SUBSET model, NEW T \in SUBSET model, Cost(T) <= Cost(S),
         \A p \in S : IsBest(p)
  PROVE  \A p \in T : IsBest(p)
<1>1. IsFiniteSet(S) /\ IsFiniteSet(T)
  <2>1. S \in SUBSET Packages /\ T \in SUBSET Packages
    BY DEF Types, TypeOK
  <2> QED BY <2>1, PackagesFinite, FS_Subset
<1>2. Cost(S) = 0
  <2>1. \A p \in S : PriceOf(p) \in Nat /\ PriceOf(p) = 0
    BY PricesOf
  <2> QED BY <1>1, <2>1, CostsNothing
<1>3. \A p \in T : PriceOf(p) \in Nat
  BY PricesOf
<1>4. Cost(T) \in Nat /\ (Cost(T) = 0 <=> \A p \in T : PriceOf(p) = 0)
  BY <1>1, <1>3, CostsNothing
<1>5. \A p \in T : PriceOf(p) = 0
  BY <1>2, <1>4
<1> QED
  BY <1>5, PricesOf

\* What the solver chose is best if that is possible.
Cheapest ==
  Few => \A S \in SUBSET {p \in model : IsBest(p)} :
           Satisfies(S) => \A p \in chosen : IsBest(p)

LEMMA CheapestSteps == Inv /\ Cheapest /\ [Next]_vars => Cheapest'
<1> SUFFICES ASSUME Inv, Cheapest, [Next]_vars PROVE Cheapest'
  OBVIOUS
<1>1. CASE pc \in {"reduce", "ignore", "best"} /\ (Reduce \/ ReduceFails \/ Ignore \/ IgnoreFails \/ PickBest \/ Panic)
  <2>1. chosen' = {}
    BY <1>1 DEF Reduce, ReduceFails, Ignore, IgnoreFails, PickBest, Panic, Inv, Solved
  <2> QED BY <2>1 DEF Cheapest
<1>2. CASE Require
  <2>1. chosen' = {}
    BY <1>2 DEF Require, Inv, Solved
  <2> QED BY <2>1 DEF Cheapest
<1>3. CASE Solve
  <2>1. UNCHANGED <<input, provides, requires, model, required>>
    BY <1>3 DEF Solve
  <2>2. \A S : Satisfies(S)' <=> Satisfies(S)
    BY <2>1
       DEF Satisfies, RequiresHold, ConflictsHold, SameNameHolds, explodeSingleRequires, Resources, Pkg
  <2>3. (Few' <=> Few) /\ \A p : IsBest(p)' <=> IsBest(p)
    BY <2>1 DEF Few, IsBest, Namesakes, Worse, Arch, Older, Pkg
  <2>4. CASE chosen' = {}
    BY <2>4 DEF Cheapest
  <2>5. CASE chosen' # {}
    <3>1. PICK solutions \in {{S \in SUBSET model : Satisfies(S)}} :
            \E price \in {[S \in solutions |-> Cost(S)]} :
                 \E S \in solutions : /\ \A T \in solutions : price[S] <= price[T]
                                      /\ chosen' = S
      BY <1>3, <2>5 DEF Solve, Inv, Solved
    <3>2. /\ chosen' \in SUBSET model
          /\ \A T \in SUBSET model : Satisfies(T) => Cost(chosen') <= Cost(T)
      BY <3>1
    <3>3. ASSUME Few, NEW S \in SUBSET model, \A p \in S : IsBest(p), Satisfies(S)
          PROVE  \A p \in chosen' : IsBest(p)
      BY <3>2, <3>3, CheapestIsBest DEF Inv
    <3>4. \A S \in SUBSET {p \in model : IsBest(p)} : S \in SUBSET model /\ \A p \in S : IsBest(p)
      OBVIOUS
    <3>5. Few => \A S \in SUBSET {p \in model : IsBest(p)} : Satisfies(S) => \A p \in chosen' : IsBest(p)
      BY <3>3, <3>4
    <3> QED BY <2>1, <2>2, <2>3, <3>5 DEF Cheapest
  <2> QED BY <2>4, <2>5
<1>4. CASE UNCHANGED <<input, provides, requires, model, required, chosen>>
  <2>1. \A S : Satisfies(S)' <=> Satisfies(S)
    BY <1>4
       DEF Satisfies, RequiresHold, ConflictsHold, SameNameHolds, explodeSingleRequires, Resources, Pkg
  <2>2. (Few' <=> Few) /\ \A p : IsBest(p)' <=> IsBest(p)
    BY <1>4 DEF Few, IsBest, Namesakes, Worse, Arch, Older, Pkg
  <2> QED BY <1>4, <2>1, <2>2 DEF Cheapest
<1>5. CASE Reduce \/ ReduceFails \/ Ignore \/ IgnoreFails \/ PickBest
  BY <1>1, <1>5 DEF Reduce, ReduceFails, Ignore, IgnoreFails, PickBest
<1>6. CASE WriteLock \/ Panic \/ UNCHANGED vars
  BY <1>4, <1>6 DEF WriteLock, Panic, vars
<1> QED
  BY <1>2, <1>3, <1>5, <1>6 DEF Next, Terminated

\* While no package has twenty worse ones of its name: if a set of the best packages of
\* their names satisfies the formula, such a set is installed (README.md:233, sat.go:127).
THEOREM BestInstalled == Spec => [](Few => NoNeedlessDowngrade)
<1>1. Init => Cheapest
  BY DEF Init, Cheapest
<1>2. Inv /\ Cheapest => (Few => NoNeedlessDowngrade)
  BY DEF Cheapest, NoNeedlessDowngrade, IsBest
<1> QED
  BY <1>1, <1>2, CheapestSteps, InvAlways, PTL DEF Spec
=============================================================================

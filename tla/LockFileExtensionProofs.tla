----------------------- MODULE LockFileExtensionProofs -----------------------
(***************************************************************************)
(* What the module extension defines, for any lock files whose tags keep    *)
(* out of each other's way (Separate): the search for dependencies finds    *)
(* what an RPM needs, and each package is built from that.                  *)
(*                                                                          *)
(* The search is a function defined by recursion on the number of passes;   *)
(* what holds of all its passes is shown for the first that would break it, *)
(* which NatMinimum provides.                                               *)
(***************************************************************************)
EXTENDS LockFileExtension, TLAPS, FiniteSetTheorems, WellFoundedInduction

\* A set of naturals that is not empty has a least element.
LEMMA NatMinimum ==
  ASSUME NEW S \in SUBSET Nat, S # {}
  PROVE  \E x \in S : \A y \in S : x <= y
<1> DEFINE Less == {ss \in Nat \X Nat : ss[1] < ss[2]}
<1>1. IsWellFoundedOn(Less, Nat)
  BY NatLessThanWellFounded, Zenon DEF OpToRel
<1>2. PICK x \in S : \A y \in S : <<y, x>> \notin Less
  BY <1>1, WFMin, Zenon
<1>3. \A y \in S : ~(y < x)
  BY <1>2
<1> QED
  BY <1>3

\* The tags whose lock file has been read as far as its blobs.
Read == {n \in DOMAIN configs : /\ configs[n].lock.exists
                                /\ n < at \/ (n = at /\ pc \in {"targets", "next"})}

Types ==
  /\ configs \in Workspaces /\ at \in DOMAIN configs /\ k \in Nat \ {0}
  /\ pc \in {"blobs", "targets", "next", "failed"}
  /\ aliases = [n \in DOMAIN configs |-> aliases[n]]
  /\ pc = "targets" => Lock.exists

\* The first RPM of a name is its blob, whichever lock file it is in.
BlobsKnown ==
  /\ \A name \in DOMAIN blobs : \E n \in 1..at : \E id \in ids(configs[n].lock) :
       /\ configs[n].lock.exists
       /\ name = BlobName(configs[n], id) /\ blobs[name] = rpm_lookup(configs[n].lock)[id].url
  /\ \A n \in Read : \A id \in ids(configs[n].lock) : BlobName(configs[n], id) \in DOMAIN blobs

\* What a repository depends on, according to the tag that registers it.
Given(c, id) ==
  IF id \notin Requested(c) THEN BlobLabels(c, {c.prefix \o Normal(id)})
  ELSE IF id \in ids(c.lock) THEN BlobLabels(c, transitive_deps(rpm_lookup(c.lock), id))
  ELSE Invalid

ReposKnown ==
  \A name \in DOMAIN repos : \E n \in 1..at : \E id \in Registers(configs[n]) :
    /\ configs[n].lock.exists
    /\ name = RpmName(configs[n], id) /\ repos[name] = Given(configs[n], id)

RegisteredKnown ==
  /\ registered \subseteq DOMAIN repos
  /\ \A name \in registered : \E n \in 1..at : \E id \in DOMAIN aliases[n] :
       configs[n].module = Config.module /\ name = RpmName(configs[n], id)

\* An alias leads to the one repository of its package. Those of the tag under way are
\* there as far as it has come.
AliasesKnown ==
  /\ \A n \in DOMAIN configs : n > at \/ (n = at /\ pc = "blobs") => DOMAIN aliases[n] = {}
  /\ \A n \in DOMAIN configs : configs[n].lock.exists => \A id \in DOMAIN aliases[n] :
       /\ aliases[n][id] \in Seq({RpmName(configs[n], id)})
       /\ aliases[n][id] # <<>> => RpmName(configs[n], id) \in DOMAIN repos
  /\ \A n \in Read :
       /\ \A j \in DOMAIN configs[n].rpms : n < at \/ pc = "next" \/ j < k =>
            configs[n].rpms[j] \in DOMAIN aliases[n] /\ aliases[n][configs[n].rpms[j]] # <<>>
       /\ configs[n].rpms = <<>> =>
            \A j \in DOMAIN configs[n].lock.rpms : n < at \/ pc = "next" \/ j < k =>
              configs[n].lock.rpms[j].id \in DOMAIN aliases[n]
       /\ n < at \/ pc = "next" => Range(configs[n].lock.targets) \subseteq DOMAIN aliases[n]

Inv == Types /\ BlobsKnown /\ ReposKnown /\ RegisteredKnown /\ AliasesKnown
-----------------------------------------------------------------------------
(* The search for dependencies (_build_transitive_deps).                    *)

Start(target) == [visited |-> {}, toProcess |-> {target}]
IsSearch(f, lookup, target, m) ==
  f = [n \in 0..m |-> IF n = 0 THEN Start(target) ELSE Batch(lookup, f[n - 1])]

\* For any number of passes there is a function that records them.
LEMMA SearchExists ==
  ASSUME NEW lookup, NEW target, NEW m \in Nat
  PROVE  \E f : IsSearch(f, lookup, target, m)
<1> DEFINE Bad == {j \in Nat : ~\E f : IsSearch(f, lookup, target, j)}
<1>1. SUFFICES ASSUME Bad # {} PROVE FALSE
  OBVIOUS
<1>2. PICK j \in Bad : \A i \in Bad : j <= i
  <2>1. Bad \in SUBSET Nat
    OBVIOUS
  <2> HIDE DEF Bad
  <2> QED BY <1>1, <2>1, NatMinimum
<1>3. j # 0
  <2> DEFINE f == [n \in 0..0 |-> Start(target)]
  <2>1. IsSearch(f, lookup, target, 0)
    BY DEF IsSearch
  <2> QED BY <2>1
<1>4. j - 1 \in Nat /\ j - 1 \notin Bad
  <2>1. j \in Nat
    OBVIOUS
  <2> HIDE DEF Bad
  <2> QED BY <1>2, <1>3, <2>1
<1>5. PICK f : IsSearch(f, lookup, target, j - 1)
  BY <1>4
<1> DEFINE g == [n \in 0..j |-> IF n = j THEN Batch(lookup, f[j - 1]) ELSE f[n]]
<1>6. \A n \in 0..j : g[n] = IF n = 0 THEN Start(target) ELSE Batch(lookup, g[n - 1])
  <2> TAKE n \in 0..j
  <2>1. CASE n = j
    BY <2>1, <1>3, <1>4
  <2>2. CASE n # j
    <3>1. n \in 0..(j - 1)
      BY <2>2
    <3>2. f[n] = IF n = 0 THEN Start(target) ELSE Batch(lookup, f[n - 1])
      BY <3>1, <1>5 DEF IsSearch
    <3> QED BY <3>1, <3>2, <2>2
  <2> QED BY <2>1, <2>2
<1>7. IsSearch(g, lookup, target, j)
  BY <1>6 DEF IsSearch
<1> QED BY <1>7

LEMMA SearchSteps ==
  ASSUME NEW lookup, NEW target
  PROVE  /\ Passes(lookup, target)[0] = Start(target)
         /\ \A n \in 1..MaxPasses :
              Passes(lookup, target)[n] = Batch(lookup, Passes(lookup, target)[n - 1])
<1>1. PICK f : IsSearch(f, lookup, target, MaxPasses)
  BY SearchExists, PassesAssumption
<1>2. f = [n \in 0..MaxPasses |-> IF n = 0 THEN [visited |-> {}, toProcess |-> {target}]
                                 ELSE Batch(lookup, f[n - 1])]
  BY <1>1 DEF IsSearch, Start
<1> DEFINE pass[n \in 0..MaxPasses] ==
             IF n = 0 THEN [visited |-> {}, toProcess |-> {target}] ELSE Batch(lookup, pass[n - 1])
<1>3. pass = [n \in 0..MaxPasses |-> IF n = 0 THEN [visited |-> {}, toProcess |-> {target}]
                                     ELSE Batch(lookup, pass[n - 1])]
  BY <1>2 DEF pass
<1>4. Passes(lookup, target) = pass
  BY DEF Passes
<1> HIDE DEF pass
<1>5. 0 \in 0..MaxPasses /\ 1..MaxPasses \subseteq 0..MaxPasses /\ \A n \in 1..MaxPasses : n # 0
  BY PassesAssumption
<1> QED
  BY <1>3, <1>4, <1>5 DEF Start

\* What is not so of all passes is not so of a first one.
LEMMA FirstPass ==
  ASSUME NEW Bad \in SUBSET (0..MaxPasses), Bad # {}, 0 \notin Bad
  PROVE  \E n \in Bad : n \in 1..MaxPasses /\ n - 1 \in (0..MaxPasses) \ Bad
<1>1. PICK n \in Bad : \A m \in Bad : n <= m
  BY NatMinimum, PassesAssumption
<1>2. n \in 1..MaxPasses /\ n - 1 \in 0..MaxPasses /\ ~(n <= n - 1)
  BY PassesAssumption
<1> QED
  BY <1>1, <1>2

\* The ids an RPM leads to, and what a set that has all of these for its members is.
Leads(lock, x) == Range(rpm_lookup(lock)[x].dependencies)
Closed(lock, S) == \A x \in S : Leads(lock, x) \cap ids(lock) \subseteq S

LEMMA BatchSteps ==
  ASSUME NEW lock, NEW r
  PROVE  LET found == (r.toProcess \cap ids(lock)) \ r.visited
             next  == Batch(rpm_lookup(lock), r)
         IN  /\ next.visited = r.visited \cup found
             /\ \A y : y \in next.toProcess <=>
                   y \notin r.visited /\ \E x \in found : y \in Leads(lock, x)
BY DEF Batch, rpm_lookup, Leads

\* A search leaves no set that is closed under dependencies.
LEMMA SearchSound ==
  ASSUME NEW lock, NEW target, NEW S \in SUBSET ids(lock), target \in S, Closed(lock, S),
         NEW n \in 0..MaxPasses
  PROVE  /\ Passes(rpm_lookup(lock), target)[n].visited \subseteq S
         /\ Passes(rpm_lookup(lock), target)[n].toProcess \cap ids(lock) \subseteq S
<1> DEFINE p == Passes(rpm_lookup(lock), target)
           Inside(m) == p[m].visited \subseteq S /\ p[m].toProcess \cap ids(lock) \subseteq S
           Bad == {m \in 0..MaxPasses : ~Inside(m)}
<1>0. p[0] = Start(target) /\ \A m \in 1..MaxPasses : p[m] = Batch(rpm_lookup(lock), p[m - 1])
  BY SearchSteps
<1> HIDE DEF p
<1>1. SUFFICES ASSUME Bad # {} PROVE FALSE
  BY DEF p
<1>2. Inside(0)
  BY <1>0 DEF Start
<1>3. PICK m \in 1..MaxPasses : m \in Bad /\ m - 1 \in (0..MaxPasses) \ Bad
  <2>1. Bad \in SUBSET (0..MaxPasses) /\ 0 \notin Bad
    BY <1>2
  <2> HIDE DEF Bad
  <2> QED BY <1>1, <2>1, FirstPass
<1>4. Inside(m - 1)
  BY <1>3
<1>5. p[m] = Batch(rpm_lookup(lock), p[m - 1])
  BY <1>0, <1>3
<1> DEFINE r == p[m - 1]
<1>6. p[m].visited \subseteq S
  BY <1>4, <1>5, BatchSteps
<1>7. ASSUME NEW y \in p[m].toProcess \cap ids(lock) PROVE y \in S
  <2>1. PICK x \in (r.toProcess \cap ids(lock)) \ r.visited : y \in Leads(lock, x)
    BY <1>5, <1>7, BatchSteps
  <2> QED BY <1>4, <2>1 DEF Closed
<1> QED
  BY <1>3, <1>6, <1>7

\* What has been visited leads to what has been or is to be; and either nothing is left,
\* or each pass has visited one more.
LEMMA SearchProgress ==
  ASSUME NEW lock, IsFiniteSet(ids(lock)), NEW target, NEW n \in 0..MaxPasses
  PROVE  LET r == Passes(rpm_lookup(lock), target)[n] IN
           /\ r.visited \subseteq ids(lock)
           /\ target \in ids(lock) => target \in r.visited \cup r.toProcess
           /\ \A x \in r.visited : Leads(lock, x) \cap ids(lock) \subseteq r.visited \cup r.toProcess
           /\ r.toProcess \cap ids(lock) \subseteq r.visited \/ Cardinality(r.visited) >= n
<1> DEFINE p == Passes(rpm_lookup(lock), target)
           Advanced(m) ==
             /\ p[m].visited \subseteq ids(lock)
             /\ target \in ids(lock) => target \in p[m].visited \cup p[m].toProcess
             /\ \A x \in p[m].visited : Leads(lock, x) \cap ids(lock) \subseteq p[m].visited \cup p[m].toProcess
             /\ \/ p[m].toProcess \cap ids(lock) \subseteq p[m].visited
                \/ Cardinality(p[m].visited) >= m
           Bad == {m \in 0..MaxPasses : ~Advanced(m)}
<1>0. p[0] = Start(target) /\ \A m \in 1..MaxPasses : p[m] = Batch(rpm_lookup(lock), p[m - 1])
  BY SearchSteps
<1> HIDE DEF p
<1>1. SUFFICES ASSUME Bad # {} PROVE FALSE
  BY DEF p
<1>2. Advanced(0)
  BY <1>0, FS_EmptySet DEF Start
<1>3. PICK m \in 1..MaxPasses : m \in Bad /\ m - 1 \in (0..MaxPasses) \ Bad
  <2>1. Bad \in SUBSET (0..MaxPasses) /\ 0 \notin Bad
    BY <1>2
  <2> HIDE DEF Bad
  <2> QED BY <1>1, <2>1, FirstPass
<1>4. Advanced(m - 1)
  BY <1>3
<1>5. p[m] = Batch(rpm_lookup(lock), p[m - 1])
  BY <1>0, <1>3
<1> DEFINE r == p[m - 1]
           found == (r.toProcess \cap ids(lock)) \ r.visited
<1>6. p[m].visited = r.visited \cup found
  BY <1>5, BatchSteps
<1>7. \A y : y \in p[m].toProcess <=> y \notin r.visited /\ \E x \in found : y \in Leads(lock, x)
  BY <1>5, BatchSteps
<1>8. target \in ids(lock) => target \in p[m].visited \cup p[m].toProcess
  BY <1>4, <1>6
<1>9. \A x \in p[m].visited : Leads(lock, x) \cap ids(lock) \subseteq p[m].visited \cup p[m].toProcess
  <2> TAKE x \in p[m].visited
  <2>1. CASE x \in r.visited
    BY <1>4, <1>6, <2>1
  <2>2. CASE x \in found
    BY <1>6, <1>7, <2>2
  <2> QED BY <1>6, <2>1, <2>2
<1>10. \/ p[m].toProcess \cap ids(lock) \subseteq p[m].visited
       \/ Cardinality(p[m].visited) >= m
  <2>1. CASE found = {}
    BY <1>7, <2>1
  <2>2. CASE found # {}
    <3>1. PICK x \in found : TRUE
      BY <2>2
    <3>2. IsFiniteSet(p[m].visited) /\ IsFiniteSet(r.visited)
      BY <1>4, <1>6, FS_Subset
    <3>3. Cardinality(r.visited) >= m - 1 /\ Cardinality(r.visited) \in Nat
      BY <1>4, <2>2, <3>2, FS_CardinalityType
    <3>4. /\ IsFiniteSet(r.visited \cup {x})
          /\ Cardinality(r.visited \cup {x}) = Cardinality(r.visited) + 1
      BY <3>1, <3>2, FS_AddElement
    <3>5. Cardinality(r.visited \cup {x}) <= Cardinality(p[m].visited)
      BY <1>6, <3>1, <3>2, FS_Subset
    <3>6. Cardinality(p[m].visited) \in Nat
      BY <3>2, FS_CardinalityType
    <3> QED BY <3>3, <3>4, <3>5, <3>6
  <2> QED BY <2>1, <2>2
<1> QED
  BY <1>3, <1>4, <1>6, <1>8, <1>9, <1>10

LEMMA IdsFinite ==
  ASSUME NEW lock, lock.rpms \in Rpms
  PROVE  IsFiniteSet(ids(lock)) /\ Cardinality(ids(lock)) <= Len(lock.rpms)
<1> DEFINE idOf == [j \in 1..Len(lock.rpms) |-> lock.rpms[j].id]
<1>1. Len(lock.rpms) \in Nat /\ DOMAIN lock.rpms = 1..Len(lock.rpms)
  BY DEF Rpms
<1>2. ids(lock) = {idOf[j] : j \in 1..Len(lock.rpms)}
  BY <1>1 DEF ids, Range
<1>3. idOf \in Surjection(1..Len(lock.rpms), ids(lock))
  BY <1>2 DEF Surjection
<1>4. IsFiniteSet(1..Len(lock.rpms)) /\ Cardinality(1..Len(lock.rpms)) = Len(lock.rpms)
  BY <1>1, FS_Interval
<1> HIDE DEF idOf
<1> QED
  BY <1>3, <1>4, FS_Surjection

\* The search for dependencies finds what an RPM needs: nothing more, in any number of
\* passes, and nothing less in as many as the lock file has RPMs
\* (extensions.bzl:190-229).
THEOREM SearchFindsNeeded ==
  ASSUME NEW lock, lock.rpms \in Rpms, NEW target \in ids(lock)
  PROVE  /\ transitive_deps(rpm_lookup(lock), target) \subseteq Needed(lock, target)
         /\ Len(lock.rpms) <= MaxPasses =>
              transitive_deps(rpm_lookup(lock), target) = Needed(lock, target)
<1> DEFINE r == Passes(rpm_lookup(lock), target)[MaxPasses]
<1>1. MaxPasses \in 0..MaxPasses /\ MaxPasses \in Nat
  BY PassesAssumption
<1>2. IsFiniteSet(ids(lock)) /\ Cardinality(ids(lock)) <= Len(lock.rpms)
  BY IdsFinite
<1>3. /\ r.visited \subseteq ids(lock) /\ target \in r.visited \cup r.toProcess
      /\ \A x \in r.visited : Leads(lock, x) \cap ids(lock) \subseteq r.visited \cup r.toProcess
      /\ r.toProcess \cap ids(lock) \subseteq r.visited \/ Cardinality(r.visited) >= MaxPasses
  BY <1>1, <1>2, SearchProgress
<1>4. ASSUME NEW S \in SUBSET ids(lock), target \in S, Closed(lock, S)
      PROVE  r.visited \subseteq S
  BY <1>1, <1>4, SearchSound
<1>5. transitive_deps(rpm_lookup(lock), target) = r.visited
  BY DEF transitive_deps
<1> HIDE DEF r
<1>6. r.visited \subseteq Needed(lock, target)
  BY <1>3, <1>4 DEF Needed, Closed, Leads
<1>7. ASSUME Len(lock.rpms) <= MaxPasses PROVE Needed(lock, target) \subseteq r.visited
  <2>1. r.toProcess \cap ids(lock) \subseteq r.visited
    <3>1. SUFFICES ASSUME Cardinality(r.visited) >= MaxPasses PROVE r.visited = ids(lock)
      BY <1>3
    <3>2. /\ Cardinality(r.visited) \in Nat /\ Cardinality(ids(lock)) \in Nat
          /\ Cardinality(r.visited) <= Cardinality(ids(lock))
      BY <1>2, <1>3, FS_Subset, FS_CardinalityType
    <3>3. Len(lock.rpms) \in Nat
      BY DEF Rpms
    <3>4. Cardinality(r.visited) = Cardinality(ids(lock))
      BY <1>1, <1>2, <1>7, <3>1, <3>2, <3>3
    <3> QED BY <1>2, <1>3, <3>4, FS_Subset
  <2>2. target \in r.visited /\ Closed(lock, r.visited)
    BY <1>3, <2>1 DEF Closed
  <2> QED BY <1>3, <2>2 DEF Needed, Closed, Leads
<1> QED
  BY <1>5, <1>6, <1>7
-----------------------------------------------------------------------------
(* The invariant.                                                           *)

LEMMA Typed ==
  ASSUME Types
  PROVE  /\ configs \in Seq(ConfigTag) /\ Len(configs) \in Nat /\ DOMAIN configs = 1..Len(configs)
         /\ at \in 1..Len(configs) /\ at \in Nat
         /\ \A n \in DOMAIN configs :
              /\ configs[n] \in ConfigTag
              /\ configs[n].rpms \in Seq(Id) /\ configs[n].lock.rpms \in Rpms
              /\ Len(configs[n].rpms) \in Nat /\ DOMAIN configs[n].rpms = 1..Len(configs[n].rpms)
              /\ Len(configs[n].lock.rpms) \in Nat
              /\ DOMAIN configs[n].lock.rpms = 1..Len(configs[n].lock.rpms)
<1>1. configs \in Seq(ConfigTag)
  BY WorkspacesAssumption DEF Types
<1>2. ASSUME NEW n \in DOMAIN configs
      PROVE  /\ configs[n] \in ConfigTag
             /\ configs[n].rpms \in Seq(Id) /\ configs[n].lock.rpms \in Rpms
  <2>1. configs[n] \in ConfigTag
    BY <1>1
  <2> QED BY <2>1 DEF ConfigTag
<1>3. ASSUME NEW n \in DOMAIN configs
      PROVE  /\ Len(configs[n].rpms) \in Nat /\ DOMAIN configs[n].rpms = 1..Len(configs[n].rpms)
             /\ Len(configs[n].lock.rpms) \in Nat
             /\ DOMAIN configs[n].lock.rpms = 1..Len(configs[n].lock.rpms)
  BY <1>2 DEF Rpms
<1> QED
  BY <1>1, <1>2, <1>3 DEF Types

LEMMA LookedUp ==
  ASSUME NEW lock, NEW id \in ids(lock)
  PROVE  rpm_lookup(lock)[id] \in Range(lock.rpms) /\ rpm_lookup(lock)[id].id = id
BY DEF rpm_lookup, ids

\* What the two ways of registering a package have in common.
Registering(id, dependencies) ==
  /\ pc = "targets" /\ id \in Registers(Config)
  /\ RpmName(Config, id) \notin DOMAIN repos => dependencies = Given(Config, id)
  /\ Register(RpmName(Config, id), dependencies)
  /\ aliases' = [aliases EXCEPT ![at] = Listed(@, id, RpmName(Config, id))]
  /\ k' = k + 1
  /\ UNCHANGED <<configs, at, blobs>>

LEMMA AliasListed ==
  ASSUME Inv, NEW id, NEW dependencies, Registering(id, dependencies)
  PROVE  /\ aliases' = [n \in DOMAIN configs |-> aliases'[n]]
         /\ \A n \in DOMAIN configs : n # at => aliases'[n] = aliases[n]
         /\ DOMAIN aliases'[at] = DOMAIN aliases[at] \cup {id}
         /\ \A x \in DOMAIN aliases[at] : x # id => aliases'[at][x] = aliases[at][x]
         /\ aliases'[at][id] \in Seq({RpmName(Config, id)}) /\ aliases'[at][id] # <<>>
<1>1. aliases = [n \in DOMAIN configs |-> aliases[n]] /\ at \in DOMAIN configs /\ Lock.exists
  BY DEF Inv, Types, Registering
<1>2. aliases' = [n \in DOMAIN configs |->
                    IF n = at THEN Listed(aliases[at], id, RpmName(Config, id)) ELSE aliases[n]]
  BY <1>1 DEF Registering
<1> DEFINE name == RpmName(Config, id)
           old  == IF id \in DOMAIN aliases[at] THEN aliases[at][id] ELSE <<>>
<1>3. old \in Seq({name})
  BY <1>1 DEF Inv, AliasesKnown, Config, Lock
<1> HIDE DEF name
<1>4. old \o <<name>> \in Seq({name}) /\ old \o <<name>> # <<>>
  BY <1>3
<1>5. aliases'[at] = [x \in DOMAIN aliases[at] \cup {id} |->
                        IF x = id THEN old \o <<name>> ELSE aliases[at][x]]
  BY <1>1, <1>2 DEF Listed, Named, name
<1> HIDE DEF old
<1> QED
  BY <1>1, <1>2, <1>4, <1>5 DEF name

LEMMA ReposRegistered ==
  ASSUME Inv, NEW id, NEW dependencies, Registering(id, dependencies)
  PROVE  /\ ReposKnown' /\ RegisteredKnown'
         /\ RpmName(Config, id) \in DOMAIN repos' /\ DOMAIN repos \subseteq DOMAIN repos'
         /\ pc' \in {"targets", "failed"}
<1> DEFINE name == RpmName(Config, id)
<1>1. /\ at \in 1..at /\ at \in DOMAIN configs /\ configs[at].lock.exists
      /\ UNCHANGED <<configs, at>> /\ pc = "targets"
  BY Typed DEF Inv, Types, Registering, Lock, Config
<1>2. /\ DOMAIN repos' = DOMAIN repos \cup {name} /\ pc' \in {"targets", "failed"}
      /\ \A x \in DOMAIN repos : repos'[x] = repos[x]
      /\ name \notin DOMAIN repos => repos'[name] = dependencies
      /\ registered' = registered \/ registered' = registered \cup {name}
  <2>1. registered \subseteq DOMAIN repos
    BY DEF Inv, RegisteredKnown
  <2> HIDE DEF name
  <2>2. Register(name, dependencies) /\ pc = "targets"
    BY DEF Registering, name
  <2> QED BY <2>1, <2>2 DEF Register, Named
<1>3. ReposKnown'
  <2> SUFFICES ASSUME NEW x \in DOMAIN repos'
               PROVE  \E n \in 1..at : \E y \in Registers(configs[n]) :
                        /\ configs[n].lock.exists
                        /\ x = RpmName(configs[n], y) /\ repos'[x] = Given(configs[n], y)
    BY <1>1 DEF ReposKnown
  <2>1. CASE x \in DOMAIN repos
    BY <1>2, <2>1 DEF Inv, ReposKnown
  <2>2. CASE x \notin DOMAIN repos
    <3>1. x = name /\ repos'[x] = dependencies /\ dependencies = Given(Config, id)
      BY <1>2, <2>2 DEF Registering
    <3> QED BY <1>1, <3>1 DEF Registering, Config
  <2> QED BY <2>1, <2>2
<1>4. RegisteredKnown'
  <2>1. registered' \subseteq DOMAIN repos'
    BY <1>2 DEF Inv, RegisteredKnown
  <2> SUFFICES ASSUME NEW x \in registered'
               PROVE  \E n \in 1..at : \E y \in DOMAIN aliases'[n] :
                        configs[n].module = Config.module /\ x = RpmName(configs[n], y)
    BY <1>1, <2>1 DEF RegisteredKnown, Config
  <2>2. \A n \in 1..at : DOMAIN aliases[n] \subseteq DOMAIN aliases'[n]
    <3>1. 1..at \subseteq DOMAIN configs
      BY Typed DEF Inv
    <3> QED BY <3>1, AliasListed
  <2>3. CASE x \in registered
    BY <2>2, <2>3 DEF Inv, RegisteredKnown
  <2>4. CASE x = name
    BY <1>1, <2>4, AliasListed DEF Config
  <2> QED BY <1>2, <2>3, <2>4
<1> QED
  BY <1>2, <1>3, <1>4

\* What has been read is of the tags before, and of the one under way.
LEMMA ReadOf ==
  ASSUME Types
  PROVE  /\ Read \subseteq 1..at /\ Read \subseteq DOMAIN configs
         /\ \A n \in Read : configs[n].lock.exists
         /\ pc = "targets" => at \in Read
BY Typed DEF Read, Types, Lock, Config

\* An alias that is new, or longer, is that of what has been registered.
LEMMA AliasesRegistered ==
  ASSUME Inv, NEW id, NEW dependencies, Registering(id, dependencies),
         \A j \in DOMAIN Config.rpms : j = k => id = Config.rpms[j],
         Config.rpms = <<>> => \A j \in DOMAIN Lock.rpms : j = k => id = Lock.rpms[j].id
  PROVE  Types' /\ AliasesKnown'
<1>1. /\ UNCHANGED <<configs, at>> /\ pc = "targets" /\ k' = k + 1 /\ k \in Nat \ {0}
      /\ pc' \in {"targets", "failed"} /\ at \in DOMAIN configs /\ configs[at].lock.exists
  BY ReposRegistered DEF Registering, Inv, Types, Lock, Config
<1>2. Types'
  <2>1. k + 1 \in Nat \ {0} /\ configs \in Workspaces
    BY <1>1 DEF Inv, Types
  <2>2. (aliases = [n \in DOMAIN configs |-> aliases[n]])'
    BY <1>1, AliasListed
  <2> QED BY <1>1, <2>1, <2>2 DEF Types, Lock, Config
<1>3. Read' \subseteq Read /\ (at \in Read' => pc' = "targets")
  <2>1. at \in Nat /\ ~(at < at)
    BY Typed DEF Inv
  <2> QED BY <1>1, <2>1 DEF Read
<1>4. \A n \in DOMAIN configs : n > at => DOMAIN aliases'[n] = {}
  <2>1. \A n \in DOMAIN configs : n > at => n # at
    BY Typed DEF Inv
  <2> QED BY <2>1, <1>1, AliasListed DEF Inv, AliasesKnown
<1>5. ASSUME NEW n \in DOMAIN configs, configs[n].lock.exists, NEW x \in DOMAIN aliases'[n]
      PROVE  /\ aliases'[n][x] \in Seq({RpmName(configs[n], x)})
             /\ aliases'[n][x] # <<>> => RpmName(configs[n], x) \in DOMAIN repos'
  <2>1. CASE n # at \/ x # id
    <3>1. x \in DOMAIN aliases[n] /\ aliases'[n][x] = aliases[n][x]
      <4>1. CASE n # at
        <5>1. aliases'[n] = aliases[n]
          BY <4>1, AliasListed
        <5> QED BY <1>5, <5>1
      <4>2. CASE n = at
        <5>1. x \in DOMAIN aliases'[at] /\ x # id
          BY <1>5, <2>1, <4>2
        <5>2. /\ DOMAIN aliases'[at] = DOMAIN aliases[at] \cup {id}
              /\ \A y \in DOMAIN aliases[at] : y # id => aliases'[at][y] = aliases[at][y]
          BY AliasListed
        <5> QED BY <4>2, <5>1, <5>2
      <4> QED BY <4>1, <4>2
    <3>2. DOMAIN repos \subseteq DOMAIN repos'
      BY ReposRegistered
    <3> QED BY <3>1, <3>2, <1>5 DEF Inv, AliasesKnown
  <2>2. CASE n = at /\ x = id
    BY <2>2, AliasListed, ReposRegistered DEF Config
  <2> QED BY <2>1, <2>2
<1>6. ASSUME NEW n \in Read'
      PROVE  /\ \A j \in DOMAIN configs[n].rpms : n < at \/ pc' = "next" \/ j < k' =>
                  configs[n].rpms[j] \in DOMAIN aliases'[n] /\ aliases'[n][configs[n].rpms[j]] # <<>>
             /\ configs[n].rpms = <<>> =>
                  \A j \in DOMAIN configs[n].lock.rpms : n < at \/ pc' = "next" \/ j < k' =>
                    configs[n].lock.rpms[j].id \in DOMAIN aliases'[n]
             /\ n < at \/ pc' = "next" => Range(configs[n].lock.targets) \subseteq DOMAIN aliases'[n]
  <2>1. n \in Read /\ n \in DOMAIN configs
    BY <1>3, <1>6, ReadOf DEF Inv
  <2>2. CASE n # at
    <3>1. aliases'[n] = aliases[n]
      BY <2>1, <2>2, AliasListed
    <3>2. n < at
      BY <2>1, <2>2 DEF Read
    <3> QED BY <2>1, <3>1, <3>2 DEF Inv, AliasesKnown
  <2>3. CASE n = at
    <3>1. ~(n < at) /\ pc' # "next"
      BY <1>3, <1>6, <2>3, Typed DEF Inv
    <3>2. ASSUME NEW j \in DOMAIN Config.rpms, j < k'
          PROVE  Config.rpms[j] \in DOMAIN aliases'[at] /\ aliases'[at][Config.rpms[j]] # <<>>
      <4>1. j \in Nat
        BY <1>1, Typed DEF Inv, Config
      <4>2. CASE Config.rpms[j] = id
        BY <4>2, AliasListed
      <4>3. CASE Config.rpms[j] # id
        <5>1. j < k
          BY <1>1, <3>2, <4>1, <4>3
        <5>2. Config.rpms[j] \in DOMAIN aliases[at] /\ aliases[at][Config.rpms[j]] # <<>>
          BY <2>1, <2>3, <5>1 DEF Inv, AliasesKnown, Config
        <5> QED BY <4>3, <5>2, AliasListed
      <4> QED BY <4>2, <4>3
    <3>3. ASSUME Config.rpms = <<>>, NEW j \in DOMAIN Lock.rpms, j < k'
          PROVE  Lock.rpms[j].id \in DOMAIN aliases'[at]
      <4>1. j \in Nat
        BY <1>1, Typed DEF Inv, Lock, Config
      <4>2. CASE j < k
        <5>1. Lock.rpms[j].id \in DOMAIN aliases[at]
          BY <2>1, <2>3, <3>3, <4>2 DEF Inv, AliasesKnown, Config, Lock
        <5> QED BY <5>1, AliasListed
      <4>3. CASE ~(j < k)
        <5>1. j = k
          BY <1>1, <3>3, <4>1, <4>3
        <5> QED BY <3>3, <5>1, AliasListed
      <4> QED BY <4>2, <4>3
    <3> QED BY <2>3, <3>1, <3>2, <3>3 DEF Config, Lock
  <2> QED BY <2>2, <2>3
<1>7. \A n \in DOMAIN configs : ~(n = at /\ pc' = "blobs")
  BY <1>1
<1> QED
  BY <1>1, <1>2, <1>4, <1>5, <1>6, <1>7 DEF AliasesKnown

LEMMA BlobsUnchanged ==
  ASSUME BlobsKnown, UNCHANGED <<configs, at, blobs>>, Read' \subseteq Read
  PROVE  BlobsKnown'
BY DEF BlobsKnown

LEMMA RegisteringInv ==
  ASSUME Inv, NEW id, NEW dependencies, Registering(id, dependencies),
         \A j \in DOMAIN Config.rpms : j = k => id = Config.rpms[j],
         Config.rpms = <<>> => \A j \in DOMAIN Lock.rpms : j = k => id = Lock.rpms[j].id
  PROVE  Inv'
<1>1. /\ UNCHANGED <<configs, at, blobs>> /\ pc = "targets" /\ pc' \in {"targets", "failed"}
  BY ReposRegistered DEF Registering
<1>2. Read' \subseteq Read
  BY <1>1 DEF Read
<1>3. BlobsKnown'
  BY <1>1, <1>2, BlobsUnchanged DEF Inv
<1> QED
  BY <1>3, ReposRegistered, AliasesRegistered DEF Inv

LEMMA AddTargetInv == Inv /\ AddTarget => Inv'
<1> SUFFICES ASSUME Inv, AddTarget PROVE Inv'
  OBVIOUS
<1> DEFINE id == Config.rpms[k]
           dependencies == IF id \in DOMAIN rpm_lookup(Lock)
                           THEN BlobLabels(Config, transitive_deps(rpm_lookup(Lock), id)) ELSE Invalid
<1>1. k \in DOMAIN Config.rpms /\ Config.rpms # <<>>
  <2>1. k \in Nat \ {0} /\ k <= Len(Config.rpms) /\ at \in DOMAIN configs
    BY DEF Inv, Types, AddTarget
  <2>2. Config.rpms \in Seq(Id) /\ DOMAIN Config.rpms = 1..Len(Config.rpms)
        /\ Len(Config.rpms) \in Nat
    BY <2>1, Typed DEF Inv, Config
  <2> QED BY <2>1, <2>2
<1>2. id \in Requested(Config)
  BY <1>1 DEF Requested, Range
<1>3. dependencies = Given(Config, id)
  <2>1. DOMAIN rpm_lookup(Lock) = ids(Config.lock)
    BY DEF rpm_lookup, Lock
  <2> QED BY <1>2, <2>1 DEF Given, Lock
<1>4. /\ Register(RpmName(Config, id), dependencies)
      /\ aliases' = [aliases EXCEPT ![at] = Listed(@, id, RpmName(Config, id))]
      /\ k' = k + 1 /\ UNCHANGED <<configs, at, blobs>> /\ pc = "targets"
  BY DEF AddTarget
<1> HIDE DEF dependencies
<1>5. Registering(id, dependencies)
  BY <1>2, <1>3, <1>4 DEF Registering, Registers
<1> QED
  BY <1>1, <1>5, RegisteringInv

\* The RPM the second part of the loops is at.
LEMMA FurtherOf ==
  ASSUME Inv, pc = "targets", k > Len(Config.rpms), k - Len(Config.rpms) <= Len(Further)
  PROVE  LET j == k - Len(Config.rpms) IN
           /\ Further[j] \in Range(Lock.rpms)
           /\ j <= Len(All) => Config.rpms = <<>> /\ j = k /\ Further[j] = Lock.rpms[k]
           /\ j > Len(All) /\ Config.rpms = <<>> => k \notin DOMAIN Lock.rpms
           /\ k \notin DOMAIN Config.rpms
<1> DEFINE j == k - Len(Config.rpms)
<1>1. /\ Lock.rpms \in Rpms /\ Lock.rpms \in Seq(Range(Lock.rpms))
      /\ Len(Lock.rpms) \in Nat /\ DOMAIN Lock.rpms = 1..Len(Lock.rpms)
      /\ Len(Config.rpms) \in Nat /\ DOMAIN Config.rpms = 1..Len(Config.rpms)
      /\ k \in Nat \ {0} /\ Config.rpms \in Seq(Id)
  <2>1. at \in DOMAIN configs /\ k \in Nat \ {0}
    BY DEF Inv, Types
  <2>2. /\ Lock.rpms \in Rpms /\ Config.rpms \in Seq(Id)
        /\ Len(Lock.rpms) \in Nat /\ DOMAIN Lock.rpms = 1..Len(Lock.rpms)
        /\ Len(Config.rpms) \in Nat /\ DOMAIN Config.rpms = 1..Len(Config.rpms)
    BY <2>1, Typed DEF Inv, Config, Lock
  <2>3. Lock.rpms \in Seq(Range(Lock.rpms))
    <3>1. Lock.rpms = [i \in 1..Len(Lock.rpms) |-> Lock.rpms[i]]
      BY <2>2 DEF Rpms
    <3>2. \A i \in 1..Len(Lock.rpms) : Lock.rpms[i] \in Range(Lock.rpms)
      BY <2>2 DEF Range
    <3>3. Lock.rpms \in [1..Len(Lock.rpms) -> Range(Lock.rpms)]
      BY <3>1, <3>2
    <3> QED BY <2>2, <3>3
  <2> QED BY <2>1, <2>2, <2>3
<1>2. j \in Nat \ {0}
  BY <1>1
<1>3. CASE Config.rpms = <<>>
  <2>1. All = Lock.rpms /\ Len(Config.rpms) = 0 /\ j = k
    BY <1>1, <1>3 DEF All
  <2>2. Further = Lock.rpms \o Lock.rpms
    BY <2>1 DEF Further
  <2>3. Further[j] \in Range(Lock.rpms) /\ (j <= Len(All) => Further[j] = Lock.rpms[k])
    BY <1>1, <1>2, <2>1, <2>2
  <2> QED BY <1>1, <1>3, <2>1, <2>3
<1>4. CASE Config.rpms # <<>>
  <2>1. All = <<>> /\ Further = <<>> \o Lock.rpms
    BY <1>4 DEF All, Further
  <2>2. Len(All) = 0 /\ Len(Further) = Len(Lock.rpms)
    BY <1>1, <2>1
  <2>3. Further[j] = Lock.rpms[j] /\ j \in DOMAIN Lock.rpms
    <3>1. j \in 1..Len(Lock.rpms)
      <4>1. j <= Len(Lock.rpms) /\ Len(Lock.rpms) \in Nat
        BY <1>1, <2>2
      <4> HIDE DEF j
      <4> QED BY <1>2, <4>1
    <3>2. (<<>> \o Lock.rpms) = Lock.rpms
      BY <1>1
    <3> QED BY <1>1, <2>1, <3>1, <3>2
  <2>4. Further[j] \in Range(Lock.rpms)
    BY <2>3 DEF Range
  <2> QED BY <1>1, <1>2, <1>4, <2>2, <2>4
<1> QED
  BY <1>3, <1>4

LEMMA AddFurtherInv == Inv /\ AddFurther => Inv'
<1> SUFFICES ASSUME Inv, AddFurther PROVE Inv'
  OBVIOUS
<1> DEFINE j == k - Len(Config.rpms)
           rpm == Further[j]
<1>1. /\ pc = "targets" /\ k > Len(Config.rpms) /\ k - Len(Config.rpms) <= Len(Further)
      /\ k' = k + 1 /\ UNCHANGED <<configs, at, blobs>>
      /\ \/ j > Len(All) /\ rpm.named /\ UNCHANGED <<pc, registered, repos, aliases>>
         \/ /\ j <= Len(All) \/ ~rpm.named
            /\ Register(RpmName(Config, rpm.id), OwnBlob(Config, rpm))
            /\ aliases' = [aliases EXCEPT ![at] = Listed(@, rpm.id, RpmName(Config, rpm.id))]
  BY DEF AddFurther
<1>2. /\ rpm \in Range(Lock.rpms)
      /\ j <= Len(All) => Config.rpms = <<>> /\ j = k /\ rpm = Lock.rpms[k]
      /\ j > Len(All) /\ Config.rpms = <<>> => k \notin DOMAIN Lock.rpms
      /\ k \notin DOMAIN Config.rpms
  BY <1>1, FurtherOf
<1>3. at \in DOMAIN configs /\ at \in Read /\ k \in Nat \ {0}
  BY <1>1, ReadOf DEF Inv, Types
<1>4. /\ DOMAIN Config.rpms = 1..Len(Config.rpms) /\ Len(Config.rpms) \in Nat
      /\ DOMAIN Lock.rpms = 1..Len(Lock.rpms) /\ Len(Lock.rpms) \in Nat
  BY <1>3, Typed DEF Inv, Config, Lock
<1> HIDE DEF j
<1>5. CASE j > Len(All) /\ rpm.named /\ UNCHANGED <<pc, registered, repos, aliases>>
  <2>1. Read' = Read /\ Types' /\ UNCHANGED <<Config, Lock>>
    BY <1>1, <1>3, <1>5 DEF Read, Inv, Types, Lock, Config
  <2>2. \A i \in DOMAIN Config.rpms : i < k' => i < k
    BY <1>1, <1>2, <1>3, <1>4
  <2>3. Config.rpms = <<>> => \A i \in DOMAIN Lock.rpms : i < k' => i < k
    BY <1>1, <1>2, <1>3, <1>4, <1>5
  <2>4. AliasesKnown'
    <3>1. \A n \in Read : ~(n < at) => n = at
      BY DEF Read
    <3> QED BY <1>1, <1>5, <2>1, <2>2, <2>3, <3>1 DEF Inv, AliasesKnown, Config, Lock
  <2>5. BlobsKnown'
    BY <1>1, <2>1, BlobsUnchanged DEF Inv
  <2>6. ReposKnown'
    BY <1>1, <1>5 DEF Inv, ReposKnown
  <2>7. RegisteredKnown'
    BY <1>1, <1>5 DEF Inv, RegisteredKnown, Config
  <2> QED BY <2>1, <2>4, <2>5, <2>6, <2>7 DEF Inv
<1>6. CASE /\ j <= Len(All) \/ ~rpm.named
           /\ Register(RpmName(Config, rpm.id), OwnBlob(Config, rpm))
           /\ aliases' = [aliases EXCEPT ![at] = Listed(@, rpm.id, RpmName(Config, rpm.id))]
  <2>1. rpm.id \in Registers(Config)
    BY <1>2, <1>6 DEF Registers, Lock
  <2>2. ASSUME RpmName(Config, rpm.id) \notin DOMAIN repos
        PROVE  OwnBlob(Config, rpm) = Given(Config, rpm.id)
    <3>1. rpm.id \notin Requested(Config)
      <4> SUFFICES ASSUME NEW i \in DOMAIN Config.rpms, rpm.id = Config.rpms[i] PROVE FALSE
        BY DEF Requested, Range
      <4>1. i < k
        BY <1>1, <1>3, <1>4
      <4>2. rpm.id \in DOMAIN aliases[at] /\ aliases[at][rpm.id] # <<>>
        BY <1>3, <4>1 DEF Inv, AliasesKnown, Config
      <4>3. configs[at].lock.exists
        BY <1>3, ReadOf DEF Inv
      <4> QED BY <1>3, <2>2, <4>2, <4>3 DEF Inv, AliasesKnown, Config
    <3> QED BY <3>1 DEF Given, OwnBlob
  <2> HIDE DEF rpm
  <2>3. Registering(rpm.id, OwnBlob(Config, rpm))
    BY <1>1, <1>6, <2>1, <2>2 DEF Registering
  <2>4. Config.rpms = <<>> => \A i \in DOMAIN Lock.rpms : i = k => rpm.id = Lock.rpms[i].id
    <3>1. j \in Int /\ Len(All) \in Nat
      <4>1. Lock.rpms \in Rpms
        BY <1>3, Typed DEF Inv, Lock, Config
      <4> QED BY <1>3, <1>4 DEF j, All
    <3>2. CASE j <= Len(All)
      BY <1>2, <3>2
    <3>3. CASE j > Len(All)
      BY <1>2, <3>3
    <3> QED BY <3>1, <3>2, <3>3
  <2>5. \A i \in DOMAIN Config.rpms : i = k => rpm.id = Config.rpms[i]
    BY <1>2
  <2> QED BY <2>3, <2>4, <2>5, RegisteringInv
<1> QED
  BY <1>1, <1>5, <1>6

\* What of the invariant is about no more than the configurations, the tag under way,
\* and what has been defined.
LEMMA DefinedUnchanged ==
  ASSUME Inv, UNCHANGED <<configs, at, blobs, registered, repos>>, Read' \subseteq Read,
         \A n \in 1..at : DOMAIN aliases[n] \subseteq DOMAIN aliases'[n]
  PROVE  BlobsKnown' /\ ReposKnown' /\ RegisteredKnown'
<1>1. BlobsKnown'
  BY BlobsUnchanged DEF Inv
<1>2. ReposKnown'
  BY DEF Inv, ReposKnown
<1>3. RegisteredKnown'
  BY DEF Inv, RegisteredKnown, Config
<1> QED
  BY <1>1, <1>2, <1>3

LEMMA AddBlobsInv == Inv /\ AddBlobs => Inv'
<1> SUFFICES ASSUME Inv, AddBlobs PROVE Inv'
  OBVIOUS
<1> DEFINE names == {BlobName(Config, rpm.id) : rpm \in Range(Lock.rpms)}
<1>1. /\ pc = "blobs" /\ pc' = "targets" /\ Lock.exists /\ k' = 1
      /\ UNCHANGED <<configs, at, registered, repos, aliases>>
  BY DEF AddBlobs
<1>2. /\ DOMAIN blobs' = DOMAIN blobs \cup names
      /\ \A name \in DOMAIN blobs : blobs'[name] = blobs[name]
      /\ \A name \in names \ DOMAIN blobs :
           blobs'[name] = (CHOOSE rpm \in Range(Lock.rpms) : BlobName(Config, rpm.id) = name).url
  BY DEF AddBlobs
<1>3. at \in DOMAIN configs /\ at \in 1..at /\ at \in Nat /\ configs[at].lock.exists
  BY <1>1, Typed DEF Inv, Types, Lock, Config
<1>4. Read' = Read \cup {at}
  BY <1>1, <1>3 DEF Read
<1>5. Types' /\ UNCHANGED <<Config, Lock>>
  BY <1>1 DEF Inv, Types, Lock, Config
<1>6. BlobsKnown'
  <2>1. ASSUME NEW name \in DOMAIN blobs'
        PROVE  \E n \in 1..at : \E id \in ids(configs[n].lock) :
                 /\ configs[n].lock.exists /\ name = BlobName(configs[n], id)
                 /\ blobs'[name] = rpm_lookup(configs[n].lock)[id].url
    <3>1. CASE name \in DOMAIN blobs
      BY <1>2, <3>1 DEF Inv, BlobsKnown
    <3>2. CASE name \in names \ DOMAIN blobs
      <4> DEFINE rpm == CHOOSE rpm \in Range(Lock.rpms) : BlobName(Config, rpm.id) = name
      <4>1. rpm \in Range(Lock.rpms) /\ BlobName(Config, rpm.id) = name
        BY <3>2
      <4>2. blobs'[name] = rpm.url
        BY <1>2, <3>2
      <4> HIDE DEF rpm
      <4>3. rpm.id \in ids(Lock)
        BY <4>1 DEF ids
      <4>4. rpm_lookup(Lock)[rpm.id] \in Range(Lock.rpms) /\ rpm_lookup(Lock)[rpm.id].id = rpm.id
        BY <4>3, LookedUp
      <4>5. rpm_lookup(Lock)[rpm.id] = rpm
        BY <1>3, <4>1, <4>4, WorkspacesAssumption DEF Inv, Types, Lock, Config
      <4> QED BY <1>3, <4>1, <4>2, <4>3, <4>5 DEF Config, Lock
    <3> QED BY <1>2, <2>1, <3>1, <3>2
  <2>2. ASSUME NEW n \in Read', NEW id \in ids(configs[n].lock)
        PROVE  BlobName(configs[n], id) \in DOMAIN blobs'
    <3>1. CASE n \in Read
      BY <1>2, <2>2, <3>1 DEF Inv, BlobsKnown
    <3>2. CASE n = at
      BY <1>2, <2>2, <3>2 DEF ids, Lock, Config
    <3> QED BY <1>4, <2>2, <3>1, <3>2
  <2> QED BY <1>1, <2>1, <2>2 DEF BlobsKnown
<1>7. ReposKnown' /\ RegisteredKnown'
  BY <1>1, <1>5 DEF Inv, ReposKnown, RegisteredKnown
<1>8. AliasesKnown'
  <2>1. ASSUME NEW n \in Read'
        PROVE  /\ \A j \in DOMAIN configs[n].rpms : n < at \/ pc' = "next" \/ j < k' =>
                    configs[n].rpms[j] \in DOMAIN aliases[n] /\ aliases[n][configs[n].rpms[j]] # <<>>
               /\ configs[n].rpms = <<>> =>
                    \A j \in DOMAIN configs[n].lock.rpms : n < at \/ pc' = "next" \/ j < k' =>
                      configs[n].lock.rpms[j].id \in DOMAIN aliases[n]
               /\ n < at \/ pc' = "next" => Range(configs[n].lock.targets) \subseteq DOMAIN aliases[n]
    <3>1. CASE n \in Read
      <4>1. n < at
        BY <1>1, <3>1 DEF Read
      <4> QED BY <3>1, <4>1 DEF Inv, AliasesKnown
    <3>2. CASE n = at
      <4>1. ~(n < at) /\ pc' # "next"
        BY <1>1, <1>3, <3>2
      <4>2. \A j \in DOMAIN configs[n].rpms \cup DOMAIN configs[n].lock.rpms : ~(j < k')
        BY <1>1, <1>3, <3>2, Typed DEF Inv
      <4> QED BY <4>1, <4>2
    <3> QED BY <1>4, <2>1, <3>1, <3>2
  <2> QED BY <1>1, <2>1 DEF Inv, AliasesKnown
<1> QED
  BY <1>5, <1>6, <1>7, <1>8 DEF Inv

LEMMA BlobFailsInv == Inv /\ BlobFails => Inv'
<1> SUFFICES ASSUME Inv, BlobFails PROVE Inv'
  OBVIOUS
<1>1. /\ pc = "blobs" /\ pc' = "failed"
      /\ UNCHANGED <<configs, at, k, blobs, registered, repos, aliases>>
  BY DEF BlobFails
<1>2. Read' \subseteq Read /\ (\A n \in Read' : n < at) /\ Types'
  BY <1>1 DEF Read, Inv, Types, Lock, Config
<1>3. AliasesKnown'
  BY <1>1, <1>2 DEF Inv, AliasesKnown
<1> QED
  BY <1>1, <1>2, <1>3, DefinedUnchanged DEF Inv

LEMMA NoLockFileInv == Inv /\ NoLockFile => Inv'
<1> SUFFICES ASSUME Inv, NoLockFile PROVE Inv'
  OBVIOUS
<1>1. /\ pc = "blobs" /\ pc' = "next" /\ ~Lock.exists
      /\ UNCHANGED <<configs, at, k, blobs, registered, repos>>
  BY DEF NoLockFile
<1>2. at \in DOMAIN configs /\ at \in Nat /\ ~configs[at].lock.exists
  BY <1>1, Typed DEF Inv, Types, Lock, Config
<1>3. /\ aliases' = [n \in DOMAIN configs |-> aliases'[n]]
      /\ \A n \in DOMAIN configs : n # at => aliases'[n] = aliases[n]
  BY <1>2 DEF NoLockFile, Inv, Types
<1>4. Read' \subseteq Read /\ (\A n \in Read' : n < at /\ n # at /\ n \in DOMAIN configs)
  BY <1>1, <1>2 DEF Read
<1>5. Types'
  BY <1>1, <1>3 DEF Inv, Types
<1>6. \A n \in 1..at : DOMAIN aliases[n] \subseteq DOMAIN aliases'[n]
  <2>1. DOMAIN aliases[at] = {}
    BY <1>1, <1>2 DEF Inv, AliasesKnown
  <2>2. 1..at \subseteq DOMAIN configs
    BY Typed DEF Inv
  <2> QED BY <1>3, <2>1, <2>2
<1>7. AliasesKnown'
  <2>1. \A n \in DOMAIN configs : n > at \/ configs[n].lock.exists => n # at
    BY <1>2
  <2>2. \A n \in DOMAIN configs : n > at \/ (n = at /\ pc' = "blobs") => DOMAIN aliases'[n] = {}
    BY <1>1, <1>3, <2>1 DEF Inv, AliasesKnown
  <2>3. \A n \in DOMAIN configs : configs[n].lock.exists => \A id \in DOMAIN aliases'[n] :
          /\ aliases'[n][id] \in Seq({RpmName(configs[n], id)})
          /\ aliases'[n][id] # <<>> => RpmName(configs[n], id) \in DOMAIN repos
    BY <1>3, <2>1 DEF Inv, AliasesKnown
  <2>4. \A n \in Read' : n \in Read /\ n < at /\ aliases'[n] = aliases[n]
    BY <1>3, <1>4
  <2> QED BY <1>1, <2>2, <2>3, <2>4 DEF Inv, AliasesKnown
<1> QED
  BY <1>1, <1>4, <1>5, <1>6, <1>7, DefinedUnchanged DEF Inv

LEMMA NullTargetsInv == Inv /\ NullTargets => Inv'
<1> SUFFICES ASSUME Inv, NullTargets PROVE Inv'
  OBVIOUS
<1>1. /\ pc = "targets" /\ pc' = "next" /\ k > Len(Config.rpms) + Len(Further)
      /\ UNCHANGED <<configs, at, k, blobs, registered, repos>>
  BY DEF NullTargets
<1>2. at \in DOMAIN configs /\ at \in Nat /\ configs[at].lock.exists /\ k \in Nat
  BY <1>1, Typed DEF Inv, Types, Lock, Config
<1>3. /\ aliases' = [n \in DOMAIN configs |-> aliases'[n]]
      /\ \A n \in DOMAIN configs : n # at => aliases'[n] = aliases[n]
      /\ DOMAIN aliases'[at] = DOMAIN aliases[at] \cup Range(Lock.targets)
      /\ \A id \in DOMAIN aliases[at] : aliases'[at][id] = aliases[at][id]
      /\ \A id \in DOMAIN aliases'[at] : id \notin DOMAIN aliases[at] => aliases'[at][id] = <<>>
  <2>1. /\ aliases = [n \in DOMAIN configs |-> aliases[n]]
        /\ aliases' = [aliases EXCEPT ![at] =
             [id \in DOMAIN aliases[at] \cup Range(Lock.targets) |->
                IF id \in DOMAIN aliases[at] THEN aliases[at][id] ELSE <<>>]]
    BY DEF NullTargets, Inv, Types
  <2>2. aliases'[at] = [id \in DOMAIN aliases[at] \cup Range(Lock.targets) |->
                          IF id \in DOMAIN aliases[at] THEN aliases[at][id] ELSE <<>>]
    BY <1>2, <2>1
  <2>3. aliases' = [n \in DOMAIN configs |-> IF n = at THEN aliases'[at] ELSE aliases[n]]
    BY <1>2, <2>1
  <2> QED BY <1>2, <2>2, <2>3
<1>4. Read' = Read
  BY <1>1 DEF Read
<1>5. Types'
  BY <1>1, <1>3 DEF Inv, Types
<1>6. \A n \in 1..at : DOMAIN aliases[n] \subseteq DOMAIN aliases'[n]
  <2>1. 1..at \subseteq DOMAIN configs
    BY Typed DEF Inv
  <2> QED BY <1>3, <2>1
<1>7. ASSUME NEW n \in DOMAIN configs, configs[n].lock.exists, NEW x \in DOMAIN aliases'[n]
      PROVE  /\ aliases'[n][x] \in Seq({RpmName(configs[n], x)})
             /\ aliases'[n][x] # <<>> => RpmName(configs[n], x) \in DOMAIN repos
  <2>1. aliases'[n][x] = <<>> \/ (x \in DOMAIN aliases[n] /\ aliases'[n][x] = aliases[n][x])
    BY <1>3, <1>7
  <2>2. CASE aliases'[n][x] = <<>>
    BY <2>2
  <2>3. CASE x \in DOMAIN aliases[n] /\ aliases'[n][x] = aliases[n][x]
    BY <1>7, <2>3 DEF Inv, AliasesKnown
  <2> QED BY <2>1, <2>2, <2>3
<1>8. ASSUME NEW n \in Read
      PROVE  /\ \A j \in DOMAIN configs[n].rpms :
                  configs[n].rpms[j] \in DOMAIN aliases'[n] /\ aliases'[n][configs[n].rpms[j]] # <<>>
             /\ configs[n].rpms = <<>> =>
                  \A j \in DOMAIN configs[n].lock.rpms : configs[n].lock.rpms[j].id \in DOMAIN aliases'[n]
             /\ Range(configs[n].lock.targets) \subseteq DOMAIN aliases'[n]
  <2>1. n \in 1..at /\ n \in DOMAIN configs
    BY <1>8, ReadOf DEF Inv
  <2>2. CASE n # at
    <3>1. n < at /\ aliases'[n] = aliases[n]
      BY <1>3, <1>8, <2>1, <2>2 DEF Read
    <3> QED BY <1>8, <3>1 DEF Inv, AliasesKnown
  <2>3. CASE n = at
    <3>1. \A j \in DOMAIN Config.rpms : j < k
      <4>1. Len(Config.rpms) \in Nat /\ DOMAIN Config.rpms = 1..Len(Config.rpms) /\ Len(Further) \in Nat
        <5>1. Config.rpms \in Seq(Id) /\ Lock.rpms \in Rpms
          BY <1>2, Typed DEF Inv, Config, Lock
        <5>2. All \in Rpms
          BY <5>1 DEF All, Rpms
        <5>3. Further \in Rpms
          BY <5>1, <5>2 DEF Further, Rpms
        <5> QED BY <5>1, <5>3 DEF Rpms
      <4> QED BY <1>1, <1>2, <4>1
    <3>2. Config.rpms = <<>> => \A j \in DOMAIN Lock.rpms : j < k
      <4> SUFFICES ASSUME Config.rpms = <<>> PROVE \A j \in DOMAIN Lock.rpms : j < k
        OBVIOUS
      <4>1. /\ Lock.rpms \in Rpms /\ Len(Lock.rpms) \in Nat /\ DOMAIN Lock.rpms = 1..Len(Lock.rpms)
        BY <1>2, Typed DEF Inv, Config, Lock
      <4>2. Further = Lock.rpms \o Lock.rpms
        BY DEF Further, All
      <4>3. Len(Further) = Len(Lock.rpms) + Len(Lock.rpms)
        BY <4>1, <4>2 DEF Rpms
      <4>4. Len(Config.rpms) = 0
        OBVIOUS
      <4> QED BY <1>1, <1>2, <4>1, <4>3, <4>4
    <3>3. /\ \A j \in DOMAIN Config.rpms :
               Config.rpms[j] \in DOMAIN aliases[at] /\ aliases[at][Config.rpms[j]] # <<>>
          /\ Config.rpms = <<>> => \A j \in DOMAIN Lock.rpms : Lock.rpms[j].id \in DOMAIN aliases[at]
      BY <1>8, <2>3, <3>1, <3>2 DEF Inv, AliasesKnown, Config, Lock
    <3> QED BY <1>3, <2>3, <3>3 DEF Config, Lock
  <2> QED BY <2>2, <2>3
<1>9. \A n \in DOMAIN configs : n > at \/ (n = at /\ pc' = "blobs") => DOMAIN aliases'[n] = {}
  <2>1. \A n \in DOMAIN configs : n > at => n # at
    BY <1>2
  <2> QED BY <1>1, <1>3, <2>1 DEF Inv, AliasesKnown
<1>10. AliasesKnown'
  BY <1>1, <1>4, <1>7, <1>8, <1>9 DEF AliasesKnown
<1> QED
  BY <1>1, <1>4, <1>5, <1>6, <1>10, DefinedUnchanged DEF Inv

LEMMA NextConfigInv == Inv /\ NextConfig => Inv'
<1> SUFFICES ASSUME Inv, NextConfig PROVE Inv'
  OBVIOUS
<1>1. /\ pc = "next" /\ pc' = "blobs" /\ at < Len(configs) /\ at' = at + 1
      /\ registered' = IF configs[at + 1].module = Config.module THEN registered ELSE {}
      /\ UNCHANGED <<configs, k, blobs, repos, aliases>>
  BY DEF NextConfig
<1>2. /\ at \in Nat /\ at + 1 \in DOMAIN configs /\ 1..at \subseteq 1..(at + 1)
      /\ \A n \in DOMAIN configs : /\ n < at + 1 <=> n < at \/ n = at
                                   /\ n > at + 1 \/ n = at + 1 => n > at
  BY <1>1, Typed DEF Inv
<1>3. Read' = Read /\ (\A n \in Read : n \in DOMAIN configs)
  BY <1>1, <1>2 DEF Read
<1>4. Types'
  BY <1>1, <1>2 DEF Inv, Types
<1>5. BlobsKnown' /\ ReposKnown'
  BY <1>1, <1>2, <1>3 DEF Inv, BlobsKnown, ReposKnown
<1>6. RegisteredKnown'
  BY <1>1, <1>2 DEF Inv, RegisteredKnown, Config
<1>7. AliasesKnown'
  BY <1>1, <1>2, <1>3 DEF Inv, AliasesKnown
<1> QED
  BY <1>4, <1>5, <1>6, <1>7 DEF Inv

\* The invariant holds at first, and every step keeps it.
LEMMA InitInv == Init => Inv
<1> SUFFICES ASSUME Init PROVE Inv
  OBVIOUS
<1>1. configs \in Workspaces /\ at = 1 /\ pc = "blobs" /\ k = 1 /\ blobs = <<>>
      /\ registered = {} /\ repos = <<>> /\ aliases = [n \in DOMAIN configs |-> <<>>]
  BY DEF Init
<1>2. configs \in Seq(ConfigTag) /\ configs # <<>>
  BY <1>1, WorkspacesAssumption
<1>3. Len(configs) \in Nat \ {0} /\ DOMAIN configs = 1..Len(configs)
  BY <1>2
<1>4. Read = {}
  BY <1>1, <1>3 DEF Read
<1>5. Types
  BY <1>1, <1>3 DEF Types
<1> QED
  BY <1>1, <1>4, <1>5 DEF Inv, BlobsKnown, ReposKnown, RegisteredKnown, AliasesKnown

LEMMA NextInv == Inv /\ [Next]_vars => Inv'
<1> SUFFICES ASSUME Inv, [Next]_vars PROVE Inv'
  OBVIOUS
<1>1. CASE UNCHANGED vars
  <2>1. /\ UNCHANGED <<configs, at, pc, k, blobs, registered, repos, aliases>>
        /\ Read' = Read
    BY <1>1 DEF vars, Read
  <2>2. Types'
    BY <2>1 DEF Inv, Types, Lock, Config
  <2>3. AliasesKnown'
    BY <2>1 DEF Inv, AliasesKnown
  <2> QED BY <2>1, <2>2, <2>3, DefinedUnchanged DEF Inv
<1>2. CASE Terminated /\ UNCHANGED vars
  BY <1>1, <1>2
<1> QED
  BY <1>1, <1>2, AddBlobsInv, BlobFailsInv, NoLockFileInv, AddTargetInv, AddFurtherInv, NullTargetsInv,
     NextConfigInv DEF Next

LEMMA InvAlways == Spec => []Inv
BY InitInv, NextInv, PTL DEF Spec
-----------------------------------------------------------------------------
(* What follows of it for tags that keep out of each other's way.           *)

LEMMA HandledRead ==
  ASSUME Inv, NEW n \in Handled, configs[n].lock.exists
  PROVE  n \in Read /\ n \in DOMAIN configs /\ (n < at \/ pc = "next")
BY DEF Handled, Read

\* In a workspace a repository is what its tag gives it, whichever tag registers it.
LEMMA RepoGiven ==
  ASSUME Inv, Separate(configs), NEW n \in DOMAIN configs, configs[n].lock.exists,
         NEW id \in Registers(configs[n]), RpmName(configs[n], id) \in DOMAIN repos
  PROVE  repos[RpmName(configs[n], id)] = Given(configs[n], id)
<1>1. PICK m \in 1..at : \E y \in Registers(configs[m]) :
        /\ configs[m].lock.exists
        /\ RpmName(configs[n], id) = RpmName(configs[m], y)
        /\ repos[RpmName(configs[n], id)] = Given(configs[m], y)
  BY DEF Inv, ReposKnown
<1>2. PICK y \in Registers(configs[m]) :
        /\ configs[m].lock.exists
        /\ RpmName(configs[n], id) = RpmName(configs[m], y)
        /\ repos[RpmName(configs[n], id)] = Given(configs[m], y)
  BY <1>1
<1>3. m \in DOMAIN configs
  BY Typed DEF Inv
<1>4. /\ id = y /\ configs[n].lock = configs[m].lock /\ configs[n].prefix = configs[m].prefix
      /\ (id \in Requested(configs[n])) = (y \in Requested(configs[m]))
  BY <1>2, <1>3 DEF Separate
<1>5. Given(configs[m], y) = Given(configs[n], id)
  BY <1>4 DEF Given, BlobLabels
<1> QED
  BY <1>2, <1>5

\* The first alias of a requested package is its repository.
LEMMA RequestedAlias ==
  ASSUME Inv, NEW n \in Handled, configs[n].lock.exists, NEW target \in Range(configs[n].rpms)
  PROVE  /\ target \in DOMAIN aliases[n] /\ aliases[n][target] # <<>>
         /\ aliases[n][target][1] = RpmName(configs[n], target)
         /\ RpmName(configs[n], target) \in DOMAIN repos
         /\ target \in Registers(configs[n]) /\ target \in Requested(configs[n])
<1>1. n \in Read /\ n \in DOMAIN configs /\ (n < at \/ pc = "next")
  BY HandledRead
<1>2. PICK j \in DOMAIN configs[n].rpms : target = configs[n].rpms[j]
  BY DEF Range
<1>3. target \in DOMAIN aliases[n] /\ aliases[n][target] # <<>>
  BY <1>1, <1>2 DEF Inv, AliasesKnown
<1>4. /\ aliases[n][target] \in Seq({RpmName(configs[n], target)})
      /\ RpmName(configs[n], target) \in DOMAIN repos
  BY <1>1, <1>3 DEF Inv, AliasesKnown
<1>5. aliases[n][target][1] = RpmName(configs[n], target)
  <2> DEFINE s == aliases[n][target]
             name == RpmName(configs[n], target)
  <2>1. s \in Seq({name}) /\ s # <<>>
    BY <1>3, <1>4
  <2> HIDE DEF s, name
  <2>2. s[1] \in {name}
    BY <2>1
  <2> QED BY <2>2 DEF s, name
<1> QED
  BY <1>3, <1>4, <1>5 DEF Requested, Registers

\* A requested package that the lock file has is built from what the search finds.
LEMMA RequestedBuilt ==
  ASSUME Inv, Separate(configs), NEW n \in Handled, configs[n].lock.exists,
         NEW target \in Range(configs[n].rpms) \cap ids(configs[n].lock)
  PROVE  repos[aliases[n][target][1]] =
           BlobLabels(configs[n], transitive_deps(rpm_lookup(configs[n].lock), target))
<1>1. n \in DOMAIN configs
  BY HandledRead
<1>2. repos[aliases[n][target][1]] = Given(configs[n], target)
  BY <1>1, RequestedAlias, RepoGiven
<1> QED
  BY <1>2, RequestedAlias DEF Given

LEMMA ClosureHolds == Inv /\ Separate(configs) => ClosureComplete
<1> SUFFICES ASSUME Inv, Separate(configs), NEW n \in Handled,
                    NEW target \in Range(configs[n].rpms) \cap ids(configs[n].lock),
                    configs[n].lock.exists, Len(configs[n].lock.rpms) <= MaxPasses
             PROVE  repos[aliases[n][target][1]] =
                      {BlobName(configs[n], id) : id \in Needed(configs[n].lock, target)}
  BY DEF ClosureComplete
<1>1. n \in DOMAIN configs
  BY HandledRead
<1>2. configs[n].lock.rpms \in Rpms
  BY <1>1, Typed DEF Inv
<1>3. transitive_deps(rpm_lookup(configs[n].lock), target) = Needed(configs[n].lock, target)
  BY <1>2, SearchFindsNeeded
<1> QED
  BY <1>3, RequestedBuilt DEF BlobLabels, BlobName

LEMMA TypeHolds == Inv => TypeOK
<1> SUFFICES ASSUME Inv PROVE TypeOK
  OBVIOUS
<1>1. /\ at \in DOMAIN configs /\ pc \in {"blobs", "targets", "next", "failed"}
      /\ registered \subseteq DOMAIN repos
  BY DEF Inv, Types, RegisteredKnown
<1>2. DOMAIN aliases = DOMAIN configs
  <2>1. aliases = [n \in DOMAIN configs |-> aliases[n]]
    BY DEF Inv, Types
  <2> QED BY <2>1
<1>3. ASSUME NEW name \in registered
      PROVE  \E n \in 1..at, id \in UNION {DOMAIN aliases[m] : m \in 1..at} :
               configs[n].module = Config.module /\ name = RpmName(configs[n], id)
  <2>1. PICK n \in 1..at : \E id \in DOMAIN aliases[n] :
          configs[n].module = Config.module /\ name = RpmName(configs[n], id)
    BY DEF Inv, RegisteredKnown
  <2>2. DOMAIN aliases[n] \subseteq UNION {DOMAIN aliases[m] : m \in 1..at}
    OBVIOUS
  <2> QED BY <2>1, <2>2
<1> QED
  BY <1>1, <1>2, <1>3 DEF TypeOK

\* An id, and what becomes of it in a name.
LEMMA Normally ==
  ASSUME Types, NEW n \in DOMAIN configs,
         NEW id \in Range(configs[n].rpms) \cup ids(configs[n].lock)
  PROVE  /\ Normal(id) \in Id /\ Normal(Normal(id)) = Normal(id)
         /\ configs[n].prefix \in Seq(STRING) /\ configs[n].prefix \o Normal(id) # <<>>
<1>1. /\ configs[n] \in ConfigTag /\ configs[n].rpms \in Seq(Id) /\ configs[n].lock.rpms \in Rpms
  BY Typed
<1>2. configs[n].prefix \in Seq(STRING)
  BY <1>1 DEF ConfigTag
<1>3. id \in Id
  <2>1. CASE id \in Range(configs[n].rpms)
    BY <1>1, <2>1 DEF Range
  <2>2. CASE id \in ids(configs[n].lock)
    <3>1. PICK rpm \in Range(configs[n].lock.rpms) : id = rpm.id
      BY <2>2 DEF ids
    <3>2. PICK j \in DOMAIN configs[n].lock.rpms : rpm = configs[n].lock.rpms[j]
      BY <3>1 DEF Range
    <3> DEFINE Rpm == [id: Id, dependencies: Seq(Id), url: STRING, named: BOOLEAN, mirrored: BOOLEAN]
               list == configs[n].lock.rpms
    <3>3. rpm \in Rpm
      <4>1. list \in Seq(Rpm) /\ j \in DOMAIN list /\ rpm = list[j]
        BY <1>1, <3>2 DEF Rpms
      <4> HIDE DEF Rpm, list
      <4> QED BY <4>1
    <3> HIDE DEF Id
    <3> QED BY <3>1, <3>3
  <2> QED BY <2>1, <2>2
<1>4. Normal(id) \in Id /\ Normal(Normal(id)) = Normal(id)
  BY <1>3, NormalizedAssumption DEF Normal
<1>5. configs[n].prefix \o Normal(id) # <<>>
  <2> DEFINE p == configs[n].prefix
             q == Normal(id)
  <2>1. p \in Seq(STRING) /\ q \in Seq(STRING) /\ q # <<>>
    BY <1>2, <1>4 DEF Id
  <2> HIDE DEF p, q
  <2>2. Len(p \o q) = Len(p) + Len(q) /\ Len(q) > 0 /\ Len(p) >= 0
    BY <2>1
  <2> QED BY <2>1, <2>2 DEF p, q
<1> QED
  BY <1>2, <1>4, <1>5

LEMMA DependenciesHold == Inv /\ Separate(configs) => DependenciesDefined
<1> SUFFICES ASSUME Inv, Separate(configs), pc = "next",
                    NEW name \in DOMAIN repos, repos[name] # Invalid
             PROVE  repos[name] \subseteq DOMAIN blobs
  BY DEF DependenciesDefined
<1>1. PICK n \in 1..at : \E y \in Registers(configs[n]) :
        configs[n].lock.exists /\ repos[name] = Given(configs[n], y)
  BY DEF Inv, ReposKnown
<1>2. PICK id \in Registers(configs[n]) :
        configs[n].lock.exists /\ repos[name] = Given(configs[n], id)
  BY <1>1
<1>3. n \in DOMAIN configs /\ n \in Read
  BY <1>2, Typed DEF Inv, Read
<1>4. \A x \in ids(configs[n].lock) : BlobName(configs[n], x) \in DOMAIN blobs
  BY <1>3 DEF Inv, BlobsKnown
<1>5. CASE id \notin Requested(configs[n])
  <2>1. configs[n].prefix = <<>>
    BY <1>2, <1>3, <1>5 DEF Separate
  <2>2. id \in ids(configs[n].lock)
    BY <1>5 DEF Registers, ids
  <2>3. Normal(id) \in Id /\ Normal(Normal(id)) = Normal(id)
    BY <1>3, <2>2, Normally DEF Inv
  <2>4. <<>> \o Normal(id) = Normal(id)
    <3> DEFINE q == Normal(id)
    <3>1. q \in Seq(STRING)
      BY <2>3 DEF Id
    <3> HIDE DEF q
    <3>2. <<>> \o q = q
      BY <3>1
    <3> QED BY <3>2 DEF q
  <2>5. Given(configs[n], id) = {BlobName(configs[n], id)}
    BY <1>5, <2>1, <2>3, <2>4 DEF Given, BlobLabels, BlobName
  <2> QED BY <1>2, <1>4, <2>2, <2>5
<1>6. CASE id \in Requested(configs[n]) /\ id \in ids(configs[n].lock)
  <2>1. configs[n].lock.rpms \in Rpms
    BY <1>3, Typed DEF Inv
  <2>2. transitive_deps(rpm_lookup(configs[n].lock), id) \subseteq ids(configs[n].lock)
    BY <1>6, <2>1, SearchFindsNeeded DEF Needed
  <2>3. repos[name] = BlobLabels(configs[n], transitive_deps(rpm_lookup(configs[n].lock), id))
    BY <1>2, <1>6 DEF Given
  <2>4. \A x \in ids(configs[n].lock) : configs[n].prefix \o Normal(x) \in DOMAIN blobs
    BY <1>4 DEF BlobName
  <2> QED BY <2>2, <2>3, <2>4 DEF BlobLabels
<1> QED
  BY <1>2, <1>5, <1>6 DEF Given

LEMMA VersionsHold == Inv /\ Separate(configs) => OwnVersions
<1> SUFFICES ASSUME Inv, Separate(configs), NEW n \in Handled, configs[n].lock.exists,
                    NEW id \in ids(configs[n].lock)
             PROVE  /\ BlobName(configs[n], id) \in DOMAIN blobs
                    /\ blobs[BlobName(configs[n], id)] = rpm_lookup(configs[n].lock)[id].url
  BY DEF OwnVersions, Needed
<1>1. n \in Read /\ n \in DOMAIN configs
  BY HandledRead
<1>2. BlobName(configs[n], id) \in DOMAIN blobs
  BY <1>1 DEF Inv, BlobsKnown
<1>3. PICK m \in 1..at : \E y \in ids(configs[m].lock) :
        /\ configs[m].lock.exists /\ BlobName(configs[n], id) = BlobName(configs[m], y)
        /\ blobs[BlobName(configs[n], id)] = rpm_lookup(configs[m].lock)[y].url
  BY <1>2 DEF Inv, BlobsKnown
<1>4. m \in DOMAIN configs
  BY Typed DEF Inv
<1> QED
  BY <1>1, <1>2, <1>3, <1>4 DEF Separate

LEMMA AliasesHold == Inv /\ Separate(configs) => AliasesComplete
<1> SUFFICES ASSUME Inv, Separate(configs), NEW n \in Handled, configs[n].lock.exists
             PROVE  /\ Range(configs[n].rpms) \cup Range(configs[n].lock.targets) \subseteq DOMAIN aliases[n]
                    /\ configs[n].rpms = <<>> => ids(configs[n].lock) \subseteq DOMAIN aliases[n]
                    /\ \A id \in DOMAIN aliases[n] :
                         /\ Range(aliases[n][id]) \subseteq DOMAIN repos
                         /\ id \in Range(configs[n].rpms) =>
                              /\ aliases[n][id] # <<>>
                              /\ (repos[aliases[n][id][1]] = Invalid) = (id \notin ids(configs[n].lock))
  BY DEF AliasesComplete
<1>1. n \in Read /\ n \in DOMAIN configs /\ (n < at \/ pc = "next")
  BY HandledRead
<1>2. Range(configs[n].rpms) \cup Range(configs[n].lock.targets) \subseteq DOMAIN aliases[n]
  BY <1>1, RequestedAlias DEF Inv, AliasesKnown
<1>3. ASSUME configs[n].rpms = <<>> PROVE ids(configs[n].lock) \subseteq DOMAIN aliases[n]
  BY <1>1, <1>3 DEF Inv, AliasesKnown, ids, Range
<1>4. ASSUME NEW id \in DOMAIN aliases[n] PROVE Range(aliases[n][id]) \subseteq DOMAIN repos
  <2> DEFINE s == aliases[n][id]
             repo == RpmName(configs[n], id)
  <2>1. s \in Seq({repo}) /\ (s # <<>> => repo \in DOMAIN repos)
    BY <1>1, <1>4 DEF Inv, AliasesKnown
  <2> HIDE DEF s, repo
  <2>2. \A j \in DOMAIN s : s[j] = repo /\ s # <<>>
    BY <2>1
  <2>3. Range(s) \subseteq DOMAIN repos
    BY <2>1, <2>2 DEF Range
  <2> QED BY <2>3 DEF s
<1>5. ASSUME NEW id \in Range(configs[n].rpms)
      PROVE  /\ aliases[n][id] # <<>>
             /\ (repos[aliases[n][id][1]] = Invalid) = (id \notin ids(configs[n].lock))
  <2>1. /\ aliases[n][id] # <<>> /\ repos[aliases[n][id][1]] = Given(configs[n], id)
        /\ id \in Requested(configs[n])
    BY <1>1, <1>5, RequestedAlias, RepoGiven
  <2>2. CASE id \in ids(configs[n].lock)
    <3> DEFINE deps == transitive_deps(rpm_lookup(configs[n].lock), id)
    <3>1. configs[n].lock.rpms \in Rpms
      BY <1>1, Typed DEF Inv
    <3>2. deps \subseteq ids(configs[n].lock)
      BY <2>2, <3>1, SearchFindsNeeded DEF Needed
    <3>3. Given(configs[n], id) = BlobLabels(configs[n], deps)
      BY <2>1, <2>2 DEF Given
    <3> HIDE DEF deps
    <3>4. \A x \in deps : configs[n].prefix \o Normal(x) # <<>>
      BY <1>1, <3>2, Normally DEF Inv
    <3>5. <<>> \notin BlobLabels(configs[n], deps)
      BY <3>4 DEF BlobLabels
    <3> QED BY <2>1, <2>2, <3>3, <3>5 DEF Invalid
  <2>3. CASE id \notin ids(configs[n].lock)
    BY <2>1, <2>3 DEF Given
  <2> QED BY <2>1, <2>2, <2>3
<1> QED
  BY <1>2, <1>3, <1>4, <1>5

\* The configurations stay what they are.
LEMMA SeparateAlways == Spec /\ Separate(configs) => []Separate(configs)
<1>1. Separate(configs) /\ [Next]_vars => Separate(configs)'
  <2>1. [Next]_vars => UNCHANGED configs
    BY DEF Next, vars, AddBlobs, BlobFails, NoLockFile, AddTarget, AddFurther, NullTargets, NextConfig
  <2> QED BY <2>1 DEF Separate
<1> QED
  BY <1>1, PTL DEF Spec

\* Whatever the lock files and the tags of a workspace are, as long as the tags keep out
\* of each other's way: a requested package is built from what it needs according to its
\* own lock file, nothing less, nothing more, as long as the lock file has no more RPMs
\* than there are passes (extensions.bzl:190-229, 362-399).
THEOREM BuiltFromItsClosure == Spec /\ Separate(configs) => []ClosureComplete
BY InvAlways, SeparateAlways, ClosureHolds, PTL

\* And what the extension defines fits together: what a repository depends on is defined,
\* the blobs of a requested package hold the files of its own lock file, and each package
\* somebody may depend on has an alias (extensions.bzl:283, 335-338, 367).
THEOREM DefinitionsFitTogether == Spec /\ Separate(configs) => []RepositoriesSound
<1>1. Inv /\ Separate(configs) => RepositoriesSound
  BY TypeHolds, DependenciesHold, VersionsHold, AliasesHold DEF RepositoriesSound
<1> QED
  BY <1>1, InvAlways, SeparateAlways, PTL
=============================================================================

------------------------------ MODULE Resolver ------------------------------
(***************************************************************************)
(* `bazeldnf lockfile` (cmd/lockfile.go, cmd/resolve_helper.go) from the    *)
(* packages loaded to the lock file: the reducer, in the one step Reduction *)
(* promises; Loader.Load of pkg/sat/loader.go, which turns the involved     *)
(* packages into a formula; the optimum and the way it is read back         *)
(* (pkg/sat/sat.go); and the lock file.                                     *)
(*                                                                          *)
(* The formula makes all variables of a package equal, so an assignment is  *)
(* a set of packages. A package is its index; a version is [ver, rel],      *)
(* without epoch, 0 standing for what is missing. The packages come from    *)
(* RepoLoader: they are of the wanted architectures, provide their own      *)
(* names, and need no further FixPackages. A request is a name; Reducer has *)
(* the other forms.                                                         *)
(***************************************************************************)
EXTENDS Integers, FiniteSets, Sequences, SequencesExt, FiniteSetsExt, LockFile
Regex == INSTANCE RepoLoader

\* Calls: packages (with priority, version, provides, requires, conflicts),
\* requests (names of packages), baseSystem (a sequence of one name or none),
\* ignoreMissing, allow and ignore (lists of regular expressions), nobest and
\* architectures.
CONSTANT Inputs

\* What the loader makes of a package, as far as it is read here.
Version == [ver: Nat, rel: Nat]
Entry == [name: STRING, flags: {"", "EQ", "GE", "LE", "GT", "LT"}, version: Version]
Package == [name: STRING, version: Version, arch: STRING, priority: Int, hasRepository: BOOLEAN,
            readable: BOOLEAN,   \* its checksum
            provides: SUBSET [name: STRING, version: Version], files: SUBSET STRING,
            requires: Seq(Entry), conflicts: Seq(Entry)]

ASSUME InputsAssumption ==
  \A i \in Inputs : i.packages \in Seq(Package) /\ i.requests \o i.baseSystem \in Seq(STRING)

VARIABLES
  input,        \* the call under way
  pc,           \* what comes next: the name of a phase, or how it ended
  involved,     \* what the reducer keeps
  provides,     \* what each involved package still provides
  requires,     \* what each involved package still requires
  forceIgnored, \* forceIgnoreWithDependencies
  model,        \* the packages that have variables
  n,            \* the place of the request whose newest package is looked for
  required,     \* the packages that must be installed
  chosen,       \* the packages true in the solution
  config        \* the lock file

vars == <<input, pc, involved, provides, requires, forceIgnored, model, n, required, chosen, config>>

Packages == DOMAIN input.packages
Pkg(p) == input.packages[p]

\* The reducer sees names only.
Plain(pkg) ==
  [name |-> <<pkg.name>>, ver |-> <<pkg.version>>, arch |-> pkg.arch,
   hasRepository |-> pkg.hasRepository, priority |-> pkg.priority,
   provides |-> {<<e.name>> : e \in pkg.provides}, files |-> {<<f>> : f \in pkg.files},
   requires |-> [m \in DOMAIN pkg.requires |-> <<pkg.requires[m].name>>]]

\* implicitRequires: the base system is asked for after the rest.
asked == input.requests \o input.baseSystem

Red == INSTANCE Reduction WITH
  input  <- [packages |-> [p \in Packages |-> Plain(Pkg(p))],
             requests |-> [m \in DOMAIN asked |-> <<asked[m]>>],
             ignoreMissing |-> input.ignoreMissing],
  status <- pc, result <- involved

\* The requests something matches, and the names the reducer makes of them.
IsFound(request) == Red!Matching(<<request>>) # {}
found == {m \in DOMAIN asked : IsFound(asked[m])}
matched == [m \in found |-> Pkg(Red!FirstShortest(<<asked[m]>>)).name]

\* The number of architectures from this one to the last; 0 if it is unknown.
ArchPriority(arch, archOrder) ==
  LET at == SelectInSeq(archOrder, LAMBDA a : a = arch)
  IN  IF at = 0 THEN 0 ELSE Len(archOrder) + 1 - at
Arch(p) == ArchPriority(Pkg(p).arch, input.architectures)

\* Compare, for versions with both parts.
Older(v, w) == v.ver < w.ver \/ (v.ver = w.ver /\ v.rel < w.rel)

\* ComparePackage(p, q) < 0
Worse(p, q) ==
  \/ Arch(p) < Arch(q)
  \/ /\ Arch(p) = Arch(q)
     /\ \/ Pkg(p).priority > Pkg(q).priority
        \/ Pkg(p).priority = Pkg(q).priority /\ Older(Pkg(p).version, Pkg(q).version)

\* compareRequires: a part that one side leaves out is not compared, and what
\* has no version provides any.
Cut(v, w) == IF w.rel = 0 THEN [v EXCEPT !.rel = 0] ELSE v
Accepts(entry, prov) ==
  LET have == Cut(prov.version, entry.version)
      want == Cut(entry.version, prov.version)
  IN \/ entry.flags = "" \/ have = [ver |-> 0, rel |-> 0]
     \/ entry.flags = "EQ" /\ have = want
     \/ entry.flags = "GE" /\ ~Older(have, want)
     \/ entry.flags = "LE" /\ ~Older(want, have)
     \/ entry.flags = "GT" /\ Older(want, have)
     \/ entry.flags = "LT" /\ Older(have, want)

\* explodeProvidedResources: capabilities, and files without version.
Resources(p) ==
  provides[p] \cup {[name |-> f, version |-> [ver |-> 0, rel |-> 0]] : f \in Pkg(p).files}

Providers(name) == {p \in model : \E r \in Resources(p) : r.name = name}

explodeSingleRequires(entry) ==
  {p \in model : \E r \in Resources(p) : r.name = entry.name /\ Accepts(entry, r)}

\* What the formula says of a package in the set S.
RequiresHold_Any(p, S) ==   \* mutant: one requirement that holds is enough
  \/ requires[p] = <<>>
  \/ \E m \in DOMAIN requires[p] : explodeSingleRequires(requires[p][m]) \cap S # {}

RequiresHold(p, S) ==
  \A m \in DOMAIN requires[p] : explodeSingleRequires(requires[p][m]) \cap S # {}

ConflictsHold_Self(p, S) ==   \* mutant: a package may conflict with itself
  \A m \in DOMAIN Pkg(p).conflicts : explodeSingleRequires(Pkg(p).conflicts[m]) \cap S = {}

ConflictsHold(p, S) ==
  \A m \in DOMAIN Pkg(p).conflicts : explodeSingleRequires(Pkg(p).conflicts[m]) \cap S \subseteq {p}

SameNameHolds_SameArch(p, S) ==   \* mutant: packages of other architectures do not count
  \A q \in S : Pkg(q).name = Pkg(p).name /\ Pkg(q).arch = Pkg(p).arch => q = p

SameNameHolds(p, S) == \A q \in S : Pkg(q).name = Pkg(p).name => q = p

Satisfies(S) ==
  /\ required \subseteq S
  /\ \A p \in S : RequiresHold(p, S) /\ ConflictsHold(p, S) /\ SameNameHolds(p, S)

\* What the soft clauses charge for a set: every package of a name but the best
\* costs something, the worst the most.
Namesakes(p) == {q \in model : Pkg(q).name = Pkg(p).name}
PriceOf_BestFirst(p) ==   \* mutant: the order of the packages is reversed
  IF \A q \in Namesakes(p) : ~Worse(q, p) THEN 0
  ELSE 2001 - 100 * Cardinality({q \in Namesakes(p) : Worse(p, q)})

PriceOf(p) ==
  IF \A q \in Namesakes(p) : ~Worse(p, q) THEN 0
  ELSE LET worse == Cardinality({q \in Namesakes(p) : Worse(q, p)})
       IN IF worse < 20 THEN 1901 - 100 * worse ELSE -99

Cost(S) == MapThenSumSet(PriceOf, S)

\* Packages of input files have no repository to read a priority or a name from.
\* The reducer compares what it finds twice, the loader all packages of one name.
ReducerComparesNoRepository ==
  \E m, k \in found :
    \E p \in Red!Candidates(<<asked[m]>>), q \in Red!Candidates(<<asked[k]>>) :
      /\ Red!Key(p) = Red!Key(q) /\ (p # q \/ m # k)
      /\ ~Pkg(p).hasRepository
NoRepository(S) == \E p \in S : ~Pkg(p).hasRepository
ComparesNoRepository ==
  \E p, q \in involved : p # q /\ Pkg(p).name = Pkg(q).name /\ ~Pkg(p).hasRepository
----------------------------------------------------------------------------
Init ==
  /\ input \in Inputs
  /\ pc = "reduce" /\ n = 1
  /\ involved = {} /\ forceIgnored = {} /\ model = {} /\ required = {} /\ chosen = {}
  /\ provides = [p \in {} |-> {}] /\ requires = [p \in {} |-> <<>>]
  /\ config = [rpms |-> {}, forceIgnored |-> {}, targets |-> <<>>]

RequestMissing == ~input.ignoreMissing /\ found # DOMAIN asked

\* What the reducer keeps, without the provides nobody requires.
Reduce ==
  /\ pc = "reduce" /\ ~RequestMissing /\ ~ReducerComparesNoRepository
  /\ \E S \in SUBSET Packages :
       /\ Red!OnePerKey(S) /\ Red!BestCopies(S) /\ Red!Least(S)
       /\ involved' = S
       /\ LET needed == UNION {RequiredNames(Pkg(q)) : q \in S} IN
            provides' = [p \in S |-> {e \in Pkg(p).provides :
                                        e.name \in needed \/ e.name = Pkg(p).name}]
       /\ requires' = [p \in S |-> Pkg(p).requires]
  /\ pc' = IF found = {} THEN "lock" ELSE "ignore"
  /\ UNCHANGED <<input, forceIgnored, model, n, required, chosen, config>>

ReduceFails ==
  /\ pc = "reduce" /\ RequestMissing
  /\ pc' = "failed"
  /\ UNCHANGED <<input, involved, provides, requires, forceIgnored, model, n, required, chosen, config>>

\* A package that is not allowed, or is ignored, loses its requirements.
Allowed(p) == input.allow = <<>> \/ Regex!Excluded(input.allow, Plain(Pkg(p)))
BadRegex(p) == \/ Regex!BadExclude(input.allow, Plain(Pkg(p)))
               \/ Allowed(p) /\ Regex!BadExclude(input.ignore, Plain(Pkg(p)))

Ignore_Loaded ==   \* mutant: the packages the reducer dropped are ignored, too
  /\ pc = "ignore" /\ ~\E p \in involved : BadRegex(p)
  /\ forceIgnored' =
       {p \in Packages : ~Allowed(p) \/ Regex!Excluded(input.ignore, Plain(Pkg(p)))}
  /\ requires' = [p \in involved |-> IF p \in forceIgnored' THEN <<>> ELSE requires[p]]
  /\ pc' = "best"
  /\ UNCHANGED <<input, involved, provides, model, n, required, chosen, config>>

Ignore ==
  /\ pc = "ignore" /\ ~\E p \in involved : BadRegex(p)
  /\ forceIgnored' =
       {p \in involved : ~Allowed(p) \/ Regex!Excluded(input.ignore, Plain(Pkg(p)))}
  /\ requires' = [p \in involved |-> IF p \in forceIgnored' THEN <<>> ELSE requires[p]]
  /\ pc' = "best"
  /\ UNCHANGED <<input, involved, provides, model, n, required, chosen, config>>

IgnoreFails ==
  /\ pc = "ignore" /\ \E p \in involved : BadRegex(p)
  /\ pc' = "failed"
  /\ UNCHANGED <<input, involved, provides, requires, forceIgnored, model, n, required, chosen, config>>

SameBestKey(p, q) == Pkg(p).name = Pkg(q).name /\ Pkg(p).arch = Pkg(q).arch

PickBest_IfAsked ==   \* mutant: nobest is read the wrong way round
  /\ pc = "best" /\ ~ComparesNoRepository
  /\ model' = IF ~input.nobest THEN involved
              ELSE {p \in involved : ~\E q \in involved : SameBestKey(p, q) /\ Worse(p, q)}
  /\ pc' = "require"
  /\ UNCHANGED <<input, involved, provides, requires, forceIgnored, n, required, chosen, config>>

\* Unless any version will do, the best of each name and architecture.
PickBest ==
  /\ pc = "best" /\ ~ComparesNoRepository
  /\ model' = IF input.nobest THEN involved
              ELSE {p \in involved : ~\E q \in involved : SameBestKey(p, q) /\ Worse(p, q)}
  /\ pc' = "require"
  /\ UNCHANGED <<input, involved, provides, requires, forceIgnored, n, required, chosen, config>>

\* The best provider of the requested name; of equals, any. What nothing matches
\* is passed over.
Require ==
  /\ pc = "require" /\ n <= Len(asked)
  /\ \/ n \notin found /\ UNCHANGED required
     \/ /\ n \in found /\ ~NoRepository(Providers(matched[n]))
        /\ \E p \in Providers(matched[n]) :
             /\ \A q \in Providers(matched[n]) : ~Worse(p, q)
             /\ required' = required \cup {p}
  /\ n' = n + 1
  /\ UNCHANGED <<input, pc, involved, provides, requires, forceIgnored, model, chosen, config>>

Solve ==
  /\ pc = "require" /\ n > Len(asked)
  /\ \E solutions \in {{S \in SUBSET model : Satisfies(S)}} :
       IF solutions = {} THEN pc' = "unsolvable" /\ UNCHANGED chosen
       ELSE /\ \E price \in {[S \in solutions |-> Cost(S)]} :
                 \E S \in solutions : /\ \A T \in solutions : price[S] <= price[T]
                                      /\ chosen' = S
            /\ pc' = "lock"
  /\ UNCHANGED <<input, involved, provides, requires, forceIgnored, model, n, required, config>>

\* What is installed, and the package as it now is.
install == chosen \ forceIgnored
Current(p) == [Pkg(p) EXCEPT !.provides = provides[p], !.requires = requires[p]]
CurrentOf(S) == {Current(p) : p \in S}

\* Of packages without repository and without checksum, either may come first.
WriteLock ==
  /\ pc = "lock" /\ (NoRepository(install) => \E p \in install : IntegrityFails(Pkg(p)))
  /\ \E chosenNow \in {<<CurrentOf(install), CurrentOf(chosen \cap forceIgnored)>>} :
       IF toConfigFails(chosenNow[1], chosenNow[2]) THEN pc' = "failed" /\ UNCHANGED config
       ELSE /\ config' = toConfig(chosenNow[1], chosenNow[2], input.requests)
            /\ pc' = "done"
  /\ UNCHANGED <<input, involved, provides, requires, forceIgnored, model, n, required, chosen>>

\* A nil pointer is read (before or after the reducer misses a request).
Panic ==
  /\ \/ pc = "reduce" /\ ReducerComparesNoRepository
     \/ pc = "best" /\ ComparesNoRepository
     \/ pc = "require" /\ n \in found /\ NoRepository(Providers(matched[n]))
     \/ pc = "lock" /\ NoRepository(install)
  /\ pc' = "panicked"
  /\ UNCHANGED <<input, involved, provides, requires, forceIgnored, model, n, required, chosen, config>>

Terminated == pc \in {"done", "failed", "unsolvable", "panicked"} /\ UNCHANGED vars

Next == Reduce \/ ReduceFails \/ Ignore \/ IgnoreFails \/ PickBest \/ Require \/ Solve
        \/ WriteLock \/ Panic \/ Terminated

Spec == Init /\ [][Next]_vars
----------------------------------------------------------------------------
TypeOK ==
  /\ pc \in {"reduce", "ignore", "best", "require", "lock",
             "done", "failed", "unsolvable", "panicked"}
  /\ involved \subseteq Packages
  /\ forceIgnored \subseteq involved /\ model \subseteq involved
  /\ required \subseteq model /\ chosen \subseteq model
  /\ DOMAIN provides = involved /\ DOMAIN requires = involved
  /\ n \in 1..(Len(asked) + 1)

\* A package as the repository describes it.
Offers(p, entry) ==
  \/ entry.name \in Pkg(p).files
  \/ \E r \in Pkg(p).provides : r.name = entry.name /\ Accepts(entry, r)
Satisfied(p, S) ==
  \A m \in DOMAIN Pkg(p).requires : \E q \in S : Offers(q, Pkg(p).requires[m])
InConflict(p, q) == p # q /\ \E m \in DOMAIN Pkg(p).conflicts : Offers(q, Pkg(p).conflicts[m])
OnePerName(S) == \A p, q \in S : Pkg(p).name = Pkg(q).name => p = q

\* What is installed works with what is ignored: every package but the ignored
\* has its requirements in the solution, in the versions it asks for, and no
\* package is there twice (loader.go:172-190).
InstallComplete ==
  pc = "done" => /\ \A p \in install : Satisfied(p, chosen)
                 /\ OnePerName(chosen)

\* The packages of the lock file have different ids, none of them that of an
\* ignored package, and every dependency is a package of the file
\* (config_helper.go:33-95: the id is the name alone).
LockFileClosed ==
  pc = "done" =>
    LET ids == {rpm.id : rpm \in config.rpms} IN
      /\ Cardinality(ids) = Cardinality(install)
      /\ ids \cap config.forceIgnored = {}
      /\ \A rpm \in config.rpms : rpm.dependencies \subseteq ids \ {rpm.id}

\* With the dependencies the lock file lists, and the ignored packages, a package
\* has all it requires, in the right version (config_helper.go:114-149 looks for
\* providers by name among what the solver chose by version).
DependenciesSuffice ==
  pc = "done" => \A p \in install :
    \E rpm \in config.rpms :
      /\ rpm.id = Pkg(p).name
      /\ Satisfied(p, {q \in chosen : q \in forceIgnored \cup {p}
                                      \/ Pkg(q).name \in rpm.dependencies})

\* A solution can be written down if the checksums of its packages can be read: no
\* provider is missing in the lock file that the solver found (config_helper.go:53,
\* 122), although it looks for them by name, among what is left of the packages.
SolutionWritable ==
  chosen # {} /\ pc = "failed" => \E p \in install : IntegrityFails(Pkg(p))

\* "By default `bazeldnf rpmtree` will try to find a solution which only contains
\* the newest packages of all involved repositories" (README.md:230).
NewestByDefault ==
  pc = "done" /\ ~input.nobest => \A p \in install : \A q \in involved :
    SameBestKey(p, q) /\ Pkg(p).priority = Pkg(q).priority
    => ~Older(Pkg(p).version, Pkg(q).version)

\* "Newest packages will have the higest weight" (README.md:233): nothing but the
\* best of each name is chosen when that solves the problem.
NoNeedlessDowngrade ==
  pc = "done" => \A S \in SUBSET {p \in model : \A q \in Namesakes(p) : ~Worse(p, q)} :
    Satisfies(S) => \A p \in chosen : \A q \in Namesakes(p) : ~Worse(p, q)

\* Copies of a package in several repositories say the same of it.
CopiesAlike ==
  \A p, q \in Packages : Red!Key(p) = Red!Key(q) =>
    /\ Pkg(p).provides = Pkg(q).provides /\ Pkg(p).files = Pkg(q).files
    /\ Pkg(p).requires = Pkg(q).requires /\ Pkg(p).conflicts = Pkg(q).conflicts

\* What could be installed if the reducer dropped nothing.
Installable(S) ==
  /\ required \subseteq S /\ OnePerName(S)
  /\ \A p \in S : /\ p \in forceIgnored \/ Satisfied(p, S)
                  /\ \A q \in S : ~InConflict(p, q)
                  /\ <<Pkg(p).name>> \in Red!RootNames => p \in Red!Roots

\* The reducer drops only what has "0 chance to be involved in a solution"
\* (doc.go): when no version is ruled out and the solver finds no solution among
\* the involved packages, there is none among all packages either.
ReductionLosesNothing ==
  pc = "unsolvable" /\ input.nobest /\ CopiesAlike => ~\E S \in SUBSET Packages : Installable(S)

\* A conflict with a resource that exists matters: only "if a conflicting
\* resource does not exist, we don't care" (loader.go:283).
ConflictsRespected == pc = "done" => \A p, q \in install : ~InConflict(p, q)

\* The "user-provided string requesting top-level package" is a package name
\* (reducer.go:32-34): a package of that name is installed or ignored.
RequestedInstalled ==
  pc = "done" => \A m \in DOMAIN matched : \E p \in chosen : Pkg(p).name = matched[m]

\* "primary.xml of the repository" is an input of the command
\* (resolve_helper.go:57): what it lists can be resolved.
InputFilesAccepted == pc # "panicked"

\* The lock file can be written for every solution with checksums, and speaks of its
\* packages by ids that are theirs alone.
LockFileSound == TypeOK /\ LockFileClosed /\ SolutionWritable
============================================================================

# bazeldnf in TLA+

bazeldnf turns a list of RPM names into Bazel rules: it fetches repository
metadata into a cache, loads the packages, keeps those that can be involved,
lets a MAXSAT solver choose, and writes rules or a lock file.  This directory
models the parts that make that work, checks them with TLC, and proves with
TLAPS, for inputs of any size, what the reducer, the metadata cache, the SAT
pipeline, the resolution, the editing of build files, the bzlmod extension, the
search for shared libraries, the writing of archives and their readers promise.  All
paths below are relative to the repository.

## 1. Inventory

| Component | State | Operations | Talks to |
|---|---|---|---|
| repository fetching, `pkg/repo/fetch.go` | the cache directory; the mirror being tried | `Fetch`, `resolveMetaLink`, `resolveRepomd`, `fetchFile` | servers; the loader, through files |
| repository cache, `pkg/repo/cache.go` | files of each repository | `WriteToRepoDir`, `CurrentPrimary`, `CurrentPrimaries` | the reducer's loader |
| repository loader, `pkg/reducer/loader.go` | none (a pure function) | `Load`, `FixPackages`, `skip`, `exclude` | gives `packageInfo` to the reducer |
| reducer, `pkg/reducer/reducer.go` | `discovered`, `pinned`, the round | `Resolve`, `requires`, `packageMatchesString` | gives `matched` and `involved` to the solver |
| SAT problem, `pkg/sat/loader.go` | variables, formulas, best packages | `Load`, `resolveNewest`, `compareRequires` | the pipeline |
| SAT pipeline, `pkg/sat/sat.go` | two goroutines, two pipes, three channels | `Resolve` | the gophersat library |
| lock file, `cmd/config_helper.go` | none | `toConfig`, `collectProviders`, `collectDependencies` | the bzlmod extension |
| build files, `pkg/bazel/bazel.go`, `cmd/rpmtree.go`, `cmd/prune.go` | the rules of WORKSPACE, macros, lock files and BUILD files | `AddWorkspaceRPMs`, `AddBzlfileRPMs`, `AddTree`, `AddTar2Files`, `Prune*`, `AddConfigRPMs` | the user's tree, one command after another |
| shared libraries, `pkg/ldd/ldd.go` | a queue, the files found | `Resolve`, `resolve`, `ldd`, `followSymlinks` | an unpacked archive |
| versions, `pkg/rpm/rpm.go` | none | `Compare`, `ComparePackage` | solver, lock file |
| archives, `pkg/rpm`, `pkg/order`, `cmd/rpm2tar.go`, `cmd/sandbox.go`, `cmd/tar2files.go` | a stream, a directory tree, the directory unpacked into | `Tar`, `PrefixFilter`, `Untar`, `Add`, `Traverse` | Bazel actions |
| attributes, `pkg/xattr` | two maps | `Apply` | Bazel actions |
| verification, `cmd/verify.go` | none | `verify` | servers |
| bzlmod extension, `bazeldnf/extensions.bzl` | registered repositories | lock file handling, closures | Bazel |
| rules, toolchains, command glue | none | | |

What makes each of them correct, in short: the cache, after a successful
fetch, holds one verified release; the loader drops exactly what the
configuration says; the reducer keeps everything that can be involved, nothing
else, and does so whatever the order of Go's maps; the pipeline hands the whole
problem to the solver or nothing; the solver's answer is closed under
requirements and free of conflicts; the lock file names a provider of each
dependency; the editors leave the rules of others alone and bring a file that a
kill has left half done together again; `ldd` lists every library needed;
versions are totally preordered, so that the best package does not depend on the
order of a list; archives hold every file once, and directories and links before
what is below them; what is unpacked or taken out of an archive has the content
it had in its RPM; a repository of the bzlmod extension depends on all its
package needs, in the version of its own lock file.

Hard behaviours: goroutines over unbuffered pipes (`sat.go`); random map
iteration (`reducer.go`); files rewritten in place, checked afterwards, by a
process that may be killed while another reads (`fetch.go`, `cache.go`);
mirrors that fail or lie; fixpoints over cyclic data (`reducer.go`, `ldd.go`,
`extensions.bzl`); one package in several repositories; two files written one
after the other by a command that may be killed between them (`rpmtree.go`);
comparison of texts that are not versions (`rpm.go`); several RPMs, links through
links and hard links in one archive (`cpio2tar.go`, `tar.go`).  PROJECT.json lists them one by one under
"hazards", each at its line.

## 2. Plan

Modelled in this order, the most important behaviour first:

1. `PackageInfo`, `RepoLoader`, `Reducer`, with the abstract specification
   `Reduction` and the proofs `ReducerProofs`.
2. `SatPipeline`: the concurrency of `sat.Resolve`.
3. `RepoCache`: fetching, crashes, concurrent loads.
4. `Ldd`.
5. `LockFile`, `Resolver`: from the packages loaded to the lock file, with
   `Reduction` in place of the reducer's steps.
6. `BuildFiles`, with `BuildFilesProofs`: the files the commands edit.
7. `RpmVersions`, `BestPackages`: the order of versions and what is picked by it.
8. `LockFileExtension`: the bzlmod extension.
9. `Maps`, `DirectoryTree`, `Rpm2Tar`, `FileSystem`, `Sandbox`, `TarFiles`, composed in
   `Archives`: how an archive is written, unpacked and taken apart.

Proved, in this order: `ReducerProofs`, `BuildFilesProofs`, `RepoCacheProofs`,
`SatProofs` (first the pipeline, then the order of packages), `ResolverProofs`,
`LockFileExtensionProofs`, `LddProofs`, `ArchivesProofs` (section 5).

## 3. Modules

### Reducer

`PackageInfo` holds what `Resolve` reads and never changes: a package is its
index in `packageInfo.packages`, so two copies of one package (the same
`PackageKey`, in two repositories) are two indices.  Strings that the code
takes apart are sequences of tokens: `"foo-1.2"` is `<<"foo", "-", "1", ".",
"2">>` or coarser.  `packageMatchesString` is line for line the code's.

`Reducer` has one action per branch of the first loop (`MatchRequest`,
`SkipRequest`, `FailRequest`, `PanicRequest`), `Pin`, and the actions of a
round: `BeginRound` copies the keys, `VisitPackage(k)` visits one of those that
are left (Go's random order: any of them), `EndRound` compares the counts,
`StripProvides` ends.  `Visit` does the whole inner loop for one package in one
step; its loop has a fixed order and no one else runs.  The comparison of
priorities dereferences `Repository`, which packages of input files do not
have: `PanicRequest`.

`Reduction` is the promise, in one step: for some choice of one package per key,
the least set that holds the requested packages, taken from the best
repositories, and all that its members can require except packages with a
requested name.  `MCReducer` checks that `Reducer` implements it (`AbsSpec`).

`RepoLoader` is `Load` as a function from files, cached repositories and
architectures to the package list; `MCReducer` makes every input of the reducer
with it, so inputs are those the program can produce.  A regular expression is
the set of packages it matches, or one that does not compile.

### SAT pipeline

`SatPipeline` has three processes, each with a program counter: D prints the
formula, T translates, M parses and collects.  A line of an unbuffered pipe
passes in the step in which it is read, because `bf.Dimacs` and `Fprintln` hand
over whole lines; deferred calls are actions of their own, in the order Go runs
them.  A problem is a sequence of lines, of which some may be longer than the
scanner's buffer.  Variables are names; what the clauses say is the solver's
business.  What the parser rejects (a variable that is missing, a weight that
is not positive) is external: it may fail on it or not.

### Repository cache

`RepoCache` has two processes: one that fetches, again and again, and one that
loads.  `PrimaryName` says under which name a repository publishes the primary file of
a release: a name of its own, as with checksums in names, or one for all.  A file is written in two steps (created, copied) and checked in a third.
Servers answer with any release, with garbage or not at all; a copy may break
off; the fetching process may be killed between any two steps.  A checksum is
the release it belongs to, so comparing checksums is comparing releases.  A mirror
may answer with the primary file of any release, whichever it was asked for; a primary
file therefore carries both, its release and the name it was asked for under.  The code
writes it under the listed name before it compares the checksum (fetch.go:210-217): a
file that is refused stays in the cache, and a load takes it without a check of its
own (cache.go:153-176).

### Shared libraries

`Ldd` is the file system (links, ELF files and what they need), on which it looks
into one file per step.  `Rest` is the code's slice expression, which drops the
queue's last entry.  `Chain` follows links by a recursive function on paths; the
operating system takes a relative link from the link's own directory
(`OwnTargets`), `followSymlinks` every one from that of the first file of the chain
(`TargetsFrom`).  No input has links in a circle, neither as the one reads them nor as the
other does (`Straight`): the first cannot be opened, on the second
`followSymlinks` would not return.  `Agree` says when both readings are the same: a
link to another directory does not lead to a relative link.

### Resolution

`Resolver` is the `lockfile` command: `Reduce` (one step of `Reduction`, which
`Reducer` implements, and the provides that nobody requires stripped), the
phases of `Load` (`Ignore`, `PickBest`, one `Require` per request), `Solve` and
`WriteLock`.  The formula makes all variables of a package equal, so an
assignment is a set of packages and the formula the predicate `Satisfies`, with
one part per rule: requirements, conflicts, one package of a name.  `PriceOf` is
the weight of a package's soft clause; the solver, which is external, may return
any set that satisfies the formula at the least cost.  `LockFile` is `toConfig`;
it looks at names only and gets the packages as the steps before have left them,
without the provides stripped and the requirements taken away.  It fails for a package
whose checksum `Integrity` cannot read (`readable`), of an unknown kind or no number.  `Panic` is the
nil pointer of packages without a repository, at each place that reads it.
Copies of one package in two repositories are two members of `input.packages`;
`CopiesAlike` says that they say the same of it, which the code takes for granted
when it keeps either.

### Build files

`BuildFiles` has the rules of every target (a WORKSPACE, a def of a macro, a lock
file) and the labels of every `rpmtree` as state.  A command reads the files in one
step (`RpmTree`, `Prune`), which also does all the editing in memory; then it writes
the target (`WriteRules`) and the BUILD file (`WriteBuild`), and may be killed before
either.  `Readdressed`, `AddRPMs`, `PruneRPMs` and `Process` are the functions of
`bazel.go` and the two handlers; where they differ between WORKSPACE, macro and lock
file, so do they here.  `last` is the call that has ended last and `torn` the trees
whose RPMs are written while they are not: history variables for the properties.
A tree's RPMs come from any repository, so an install is any of `Installs`; among them
are one whose address is malformed and whose checksum a lock file refuses (`BadSum`).

### Versions

`RpmVersions` is `rpm.go` on texts of characters: `NextToken` cuts a text as the
code does (runs of digits, of other characters, single dots), `Atoi` ends at `MaxInt`
because the code drops its error.  All comparisons take the first that is not 0 of some
results (`Or`, Go's `cmp.Or`): the loops over characters and tokens are `Or` of the
results at each place, where a text that has ended goes on with its end.  A token's zeros
in front, which the code cuts off, are kept; `Atoi` does not see them.  `works` is
`compareRequires`.  `BestPackages` is the part of `sat.Load` that uses the order:
`SortKeys` and `Rank` are Go's sorts (any permutation in which neighbours are in
order, which is all a sort ensures if the comparison is not an order), `PickBest` and
`ResolveNewest` the passes that keep the best.  `Resolver` has versions that are
pairs of numbers instead; that these are enough for it is what this module is for.

### bzlmod extension

`LockFileExtension` handles one config tag after the other: `AddBlobs` registers the
blob repositories of its lock file, `AddTarget` or `AddFurther` one rpm repository and
its alias, `NullTargets` the aliases of what was ignored, `NextConfig` goes on, with an
empty `registered_rpms` when a new module begins.  The RPMs of one lock file have
different ids.  Names are sequences of their parts; `Normalized` is the replacement of
"+".  `transitive_deps` is the code's search with its bound on the passes
(`MaxPasses`, 1000 in the code).  `Separate` says when the tags of a workspace
keep out of each other's way: what bears one name is one package of one lock file,
requested by all tags or by none, and what depends on its own blob has no prefix.

### Archives

`Rpm2Tar` is `rpm2tar`: `AddRPM` and `WriteTree` build and write the tree of
directories and links (`DirectoryTree` is `order.go`), then one action per way through
the loop of `Tar` reads the entries of one RPM after the other, and `WriteHardLinks`
ends each.  Options may spell a path with or without "/" and "./"; the forms are part
of a name because the code compares texts.  An unsupported capability and an empty label
end the command at the first entry that is to have it (`AttributesFail`).  `FileSystem` says what the os calls do,
links on the way included; it is external.  Its ".." stays at the root, as in a chroot, and no archive
checked leaves the root that way; on a host, a relative link of an RPM can lead out of the
directory unpacked into, since the tests at tar.go:169 and 213 never refuse one.
`MaxSteps` is the kernel's bound on what it follows, and the paths of RPMs and options are `Plain`: without "..", and short enough to
be followed to their end, and that of one link.  `Maps` is a Go map: assignment and
`delete`.  `Sandbox` is `Untar`, one action per kind of
entry, hard links at the end in any order (a Go map).  `TarFiles` is `PrefixFilter`.
Text is only visible where the code looks for it: `Occurs` says where a prefix's text
is in a path, also across the end of a name (`Longer`), and `InPrefix` is the test of an
entry's name, with its exception for /usr/lib64: an entry that does not begin with the
prefix is passed over, even if it is waited for.  A path of the archive is a sequence of
names; that a link of the command line may be written without the leading "." is not
visible.  `Archives` composes them as
Bazel does: the archive is written, and then unpacked or taken apart.

`*Proofs` modules hold the theorems of section 5, each for the module it is named
after; `SatProofs` is for the two halves of `pkg/sat`, `SatPipeline` and `BestPackages`,
whose specification is called `LoadSpec` so that both can be extended at once.  `MC*` modules give
the constants; the operators marked "mutant" beside an action
or helper are the plausible bugs the checks are tested against and are used by
no specification.

## 4. Runs

| Run | Shows |
|---|---|
| `reducer` | for every package list of `MCInputs`, request list and order of iteration: requirements survive the reduction (`RequirementsSurvive`), nothing unneeded is kept (`NothingUnneeded`), pins and priorities hold (`PinnedHonoured`, `BestRepository`), the order does not matter where copies agree (`MapOrderIrrelevant`), bindings are final (`NeverRebound`), the search ends (`Terminates`), and the steps implement `Reduction` (`AbsSpec`) |
| `sat_pipeline` | the solver gets the whole problem or is not run (`SolvesWholeProblem`), also when the scanner gives up; what is handed over can be used (`HandedOver`): the table by which the solution is read is whole, soft clauses name variables that exist, a better version never costs more than a worse one; without overlong lines everyone ends (`Ends`) |
| `repo_cache` | a successful fetch leaves complete repositories whatever went before (`FetchedIsComplete`); a load after it is of one release (`LoadAfterFetch`); also a load in the middle of a fetch reads what a server has given for the primary file listed, so it does not mix up releases that have file names of their own unless a server does (`LoadMatches`); no mirror that would do is passed over (`MirrorsTried`); a fetch that finds no mirror leaves the primary files alone (`PrimariesOutliveMirrors`) |
| `ldd` | what is listed is needed, once (`ListSound`); no link without its target (`LinksComplete`); all that the objects name is there (`DirectComplete`); cycles end (`Ends`) |
| `ldd_transitive` | **finding**: a library needed by a library may be missing, against README.md:194 |
| `resolver` | what is installed has its requirements met, in the versions asked for, by the solution as the repositories describe it (`InstallComplete`); the ids of the lock file are unique and its dependencies in it, and `toConfig` refuses a solution only for a checksum it cannot read (`LockFileSound`); the dependencies suffice (`DependenciesSuffice`); without `--nobest` nothing older than the newest is installed (`NewestByDefault`), and with it only when there is no other way (`NoNeedlessDowngrade`); a request that cannot be solved after the reduction cannot be solved without it (`ReductionLosesNothing`) |
| `resolver_conflicts` | **finding**: a provide that nobody requires is stripped, so a package that conflicts with it is installed beside the one that has it |
| `build_files` | checksum and addresses of a WORKSPACE's rule are of one file, however often a package is built again (`RulesFit`); after any calls and kills each tree's RPMs are declared, but for a tree whose own command was killed between its writes (`TreesDeclared`); a call repeated changes nothing (`RepeatChangesNothing`); pruning takes nothing that a tree on disk refers to (`PrunesOnlyUnused`) |
| `best_packages` | the package picked, the newest and the last of the ranking are best, whatever the order of the list, and the bounds of a requirement agree with the order (`BestFound`); versions compare as equal only if they say the same (`EqualMeansSame`) |
| `lock_file_extension` | a requested package is built from what it needs by its own lock file, circles included, and nothing else (`ClosureComplete`); every label is defined, every blob is of the right lock file, every alias leads somewhere (`RepositoriesSound`) |
| `lock_file_extension_module` | **finding**: with two config tags in one module (their lock files may even be the same), a package keeps the dependencies that the first tag gave it |
| `archives` | the archive has every file, directory and link of the RPMs once, with content and attributes, and the command gives up only for what is wrong with them (`ArchiveSound`), in an order that can be unpacked (`BeforeWhatIsBelow`); unpacked, every file is found under its name with its content, and absolute links stay below the root (`UnpackedSound`); the files taken out have theirs, hard links included, also where the text of the prefix is elsewhere in a path (`ExtractedSound`); neither gives up but for entries in each other's way, of which one is a file or link, or a file that is not there or cannot be copied (`FailuresJustified`) |

### Bounds

`reducer`: six packages in two repositories: two versions of `foo`, one of a
foreign architecture, two copies of `bar` with equal or different priorities and
equal or different provides and requirements, `foo-1` whose name continues another's; chains,
cycles and rich requirements between them; one or two requests.  Two copies, two
versions and a cycle are what the code can tell apart; a third of any adds no
branch.  `FailRequest`, `SkipRequest` and `PanicRequest` all happen.

`sat_pipeline`: three versions of one name, 22 of the other (the weight changes
sign at the 21st), up to three clauses, the overlong line in each position.

`repo_cache`: a repository with a metalink and up to two mirrors whose two releases
have file names of their own, and one at a fixed address whose releases share one
name; metalinks with one checksum, and with two (an alternate); any number of fetches,
kills and loads, since nothing counts them.  One process fetches and one reads at a
time.

`ldd`: five names in two directories, every shape of the graph on four of them
that the lists of `MCInputs` give (189 per object list), cycles included; all of them
satisfy `Agree`.

`resolver`: six packages: an application, three of one name (two versions, two
architectures, one priority or two), an alternative that provides the name of
another, a plugin with a file.  Four lists of requirements with all flags,
cycles, conflicts by name, by version and by capability; a copy of a package in a
second repository, which says the same or something else; with and without an
ignore list, an allow list, a base system, `--nobest` and `--ignore-missing`; a package
whose checksum cannot be read, among those chosen or not.
`unsolvable`, `failed` and every way to panic are reached.  Fewer than twenty
packages of a name, so no weight is negative.

`build_files`: one BUILD file with four trees, of which two share a WORKSPACE and the
others have a macro and a lock file; installs with a package built again under its
name, one that is no longer needed and one whose address is malformed and whose checksum
`Integrity` refuses; targets that
begin empty or with a rule written by hand.  Two trees of one target are what it takes
to harm another's rules; the theorems of section 5 say that a third changes nothing.

`best_packages`: all sets of up to three of 21 versions (empty, dots, leading zeros,
letters, tildes in all places, numbers beyond an int, which ends at 50 here), and of
packages that differ in epoch, release, architecture and priority; three are what
transitivity takes.

`lock_file_extension`: two tags of one or two modules, with and without prefix; lock
files with a circle, with a chain as long as `MaxPasses` (4) allows, with an ignored
dependency, without names, without mirrors; files that are not there.  All workspaces
satisfy `Separate`: otherwise the extension does not do what it says (section 6).

`archives`: pairs of RPMs of up to three entries out of 16 (two names of one inode,
the same path in both, directories that are links elsewhere, an unknown mode), with an
unsupported capability and an empty label for one path; single
RPMs of up to four of 14 entries for unpacking (links through links, absolute links,
hard links through links) and of up to eight for `tar2files`, both in two orders; requests
with the prefix in a path or not, overlapping, and with its text after the start.  With
`MaxSteps` = 9 the kernel follows a path of three names, the longest, and as many again.

### Fairness

`Reducer` and `Ldd`: weak fairness of the next step; they are sequential code
that never blocks.  `SatPipeline`: weak fairness of each goroutine, which is what
Go's scheduler gives to a goroutine that can run.  Nothing is assumed elsewhere: the
other specifications have safety properties only.  Only `SatPipeline` and `Ldd` may
stop (`CHECK_DEADLOCK FALSE`): `Resolve` returns, and an overlong line really does stop
the pipeline for ever.

## 5. Proofs

`ReducerProofs` proves for every set of repositories, requests and priorities,
of any size, assuming only `InputsAssumption` (the inputs have the type of an
input):

- `TypeCorrect`, `Soundness` (`NothingUnneeded`), `PriorityRespected`,
  `PinsRespected`, `BindingsFinal`, `OrderIrrelevant`, `RequirementsKept`
  (`RequirementsSurvive`) and `Implementation` (`Reducer` implements `Reduction`).

The properties are not inductive: that a key's binding is needed says nothing of
what the next round will find.  The inductive invariant `Inv` adds

- `OnlyCandidates`: while requests are matched only their candidates are
  discovered, so what `Pin` pins are the names of the requested packages;
- `PinsHold`: afterwards `pinned` is that set of names and every discovered
  package of a pinned name is a candidate;
- `VisitedCovered`: the packages of `current` that the round has visited have
  all they require among the keys discovered (or pinned); at `EndRound` with
  equal counts, `current` is all of `discovered`, since it is a subset of it of
  the same finite cardinality, so the discovered keys are closed;
- `KeysNeeded`: every key discovered lies in every closed set of keys, where
  copies agree.

`InitInv`, one lemma per action and `NextInv` give `Invariance`; each theorem
follows from it.  `RequirementsKept` also needs to know what `StripProvides` has left
(`Stripped`): the provides that an involved package requires, and the name.
`Implementation` needs in addition that the names of the
requests answered are known (`Answered`), and that a discovered set that is
closed and in every closed set is least (`ResultAllowed`).  Lemmas about helpers:
`BestExists` (a finite set of packages has one of least priority),
`FirstShortestMatches`, `PreferredIsBest`, `FirstWantedIsWanted`.

`BuildFilesProofs` proves for every number of trees and files, whatever the
repositories offer, assuming `FilesAssumption` (the targets of trees and calls exist)
and `RulesAssumption` (rules consist of checksum and addresses; addresses written by
hand are those of a file with the rule's checksum):

- `TypeCorrect`; `WorkspaceRulesFit` (`RulesFit`); `RepeatIsIdle`
  (`RepeatChangesNothing`);
- `TreesStayDeclared` (`TreesDeclared`) and `PrunedIsUnused` (`PrunesOnlyUnused`), if
  the trees of a target are rules of one BUILD file, with which prune is called as well,
  and a lock file has one tree (`Separate`).  Section 6 shows that both fail otherwise;
  the constants of `MCBuildFiles.cfg` satisfy it.

None of these is inductive, since a command under way has already decided what it will
write.  Each invariant therefore has a part about the files and one about the command:
`PendingFits` (what is to be written fits), `PendingDeclared` (once written, the target
will declare what the command's own tree needs and what the others have now, and the
command's copy of the other trees is not stale), `PendingKeeps` (nothing in use is
missing from it), `PendingFixed` (before and after its first write, the command's result
is what its call would make of the files).  The last rests on what the functions
of `bazel.go` do when they are applied to their own result: `AddRPMsAdds`,
`AddRPMsOnce`, `ProcessOnce`, `PruneOnce`.

`RepoCacheProofs` proves for any number of repositories, releases, mirrors, fetches and
kills, whatever the servers answer, assuming `ReposAssumption` (at least one repository;
their names differ, as names of directories must) and `ReleasesAssumption` (no primary
file is called `metalink` or `repomd.xml`): `TypeCorrect`, `FetchCompletes`
(`FetchedIsComplete`), `LoadsMatch` (`LoadMatches`), `LoadsAfterFetch`
(`LoadAfterFetch`), `NoMirrorPassedOver` (`MirrorsTried`) and `PrimariesSurvive`
(`PrimariesOutliveMirrors`).  `LoadsMatch` does not say that a load has the release that
is listed: a mirror may have given another under that name, and only a fetch that has
succeeded since rules this out (`LoadsAfterFetch`).  That a fetch which succeeds leaves complete repositories
says nothing about one under way.  `Types` says which kind of metadata a file can hold and
where the fetch can be; `Verified` what it has established at each place: the
repositories before the one it is at are complete, the metalink and repomd.xml on
disk are the ones it has checked, and the file it checks next is what it received.
`NoneAcceptable`: no mirror tried so far has offered what would do.  `Loading`
and `Reading` are the same for a load, which reads while the files change.

`SatProofs` proves `WholeProblemSolved` (`SolvesWholeProblem`) and `AllHandedOver`
(`HandedOver`) for every problem, any number of packages and every interleaving of the
three goroutines.  The invariant is `Phases` (who has ended before who goes on),
`Channel` (what is in the channels at each point) and `Conserved`: the clauses parsed and
those T has still to write are together just the translation of the lines D has printed
and the soft clauses of the names T has dealt with.  `ProblemsAssumption` and `VersionsAssumption`
are types and say that a variable belongs to one package.  `DimacsAssumption` says of the
problems that the lines of variables come before any that is long and that the versions of
a name that has several are variables of the formula: `bf.Dimacs` prints the variables
first, one per short line, and `Load` adds the clause that excludes two versions of a
name (loader.go), so both occur in it.

`ResolverProofs` proves for any packages, requests and expressions `InstallsComplete`,
`LockFileAlwaysSound`, `DependenciesAreEnough`, `NewestInstalled`, `ReducerLosesNothing`
and, where no package has twenty worse ones of its name (`Few`), `BestInstalled`
(`NoNeedlessDowngrade`).  From the twenty-first on, weights change sign and the solver
may well prefer the worse package; `SoftClausesPenalise` in section 6 is that case.  The
invariant follows the call: `Reduced` (what the reducer has left of a package, and that
nothing is missing which an involved package requires), `Picked`, `Solved` (what is
chosen satisfies the formula) and `Written`.  For the last theorem, `Cheapest` is added: a
set of best packages costs nothing (`CostsNothing`) and a set with any other costs
something (`PricesOf`), sums being the library's recursive fold, whose equation is shown
by existence of the function (`SumExists`).

`LockFileExtensionProofs` proves for any lock files `BuiltFromItsClosure`
(`ClosureComplete`), `DefinitionsFitTogether` (`RepositoriesSound`) and
`SearchFindsNeeded` (the bounded search finds just what is needed, if `MaxPasses` is at
least the number of RPMs), assuming `WorkspacesAssumption`, `PassesAssumption` and
`NormalizedAssumption` (types; ids are unique within a lock file; normalizing twice is
normalizing once), and for the first two that the tags are `Separate`.  The invariant is
`Types`, `BlobsKnown`, `ReposKnown`, `RegisteredKnown` and `AliasesKnown`: whichever tag
has put an entry there, it is what that tag's lock file says.  It needs no
`Separate`; only when all tags have been handled does `Separate` turn "some tag" into
"this tag".

`LddProofs` proves for any file system without links in a circle (`InputsAssumption`)
`NothingElseListed` (`ListSound`), `LinksListed` (`LinksComplete`), both as long as the two
readings of links `Agree`, and `ObjectsComplete` (`DirectComplete`) for all.  Where they
do not agree, `followSymlinks` lists another file than the one that is opened.
`ObjectsListed` is what survives the queue that drops files: what an object itself needs is
listed when it is looked into, before anything is dropped.  `FilesSound`: at every step each
file listed has one before it that leads there and each link its target after it, since
a file is appended together with its chain.

Where these modules meet recursive functions (the passes of `transitive_deps`, `Chain`, the
flattening of lists, sums), the proofs show first that the function exists, which gives
its equation, and then take the first place that would break a claim (`NatMinimum`, which each
of these modules has).  Induction as a rule is not used.

`SatProofs` also proves `BestIsFound` (`BestFound`) for texts of any length, numbers of
any size and pools of any number of packages, assuming `OrderAssumption` and
`PoolsAssumption` (types; a pool is finite and not empty).  Nearly all of it says that
`ComparePackage` is a total preorder.  Of two results that compare the same pair from both
sides it needs `Opposed`, of three along x, y, z `Follows`, which says more than that
the order is transitive: x equals z only if y equals both, since otherwise a later
part of a version could decide against an earlier one.  `OrOpposed` and `OrFollows`
show that `Or` keeps both, and are applied to characters, tokens, the parts of a
version and those of a package.  A sort compares neighbours only; `RankingOrdered`
takes the first package that is out of order with an earlier one.  The invariant is
`Passes`, `Picked` and `Resolved` (nothing seen is better than what was kept) and `Ranked`.
`RequirementFollows` is the part about bounds: cutting the releases off two
versions leaves them in their order, or equal.

`EqualIsSame` (`EqualMeansSame`), from the same assumptions, is about what the order cannot
tell: versions that compare as equal are written alike but for zeros in front of numbers, as
long as no number is beyond an int (`Fits`).  Equal texts have equal tokens, since `Or` is
0 only if all it goes through is (`OrIsZero`), and equal tokens say the same
(`SameTokens`): of alphas every character decides, of numbers the last digit and
the number before it (`SameNumber`).  What is left to show is that a text says what its
tokens say one after the other.  `MeaningJoins` shows it of two texts between which no
number goes on (`Apart`); a run ends only where its kind does (`RunEnds`), so this is so
wherever a token ends (`TokenTaken`).

`ArchivesProofs` proves `InUnpackingOrder` (`BeforeWhatIsBelow`), `ArchiveIsSound`
(`ArchiveSound`), `OutputsAreSound` (`ExtractedSound`), `OnlyJustFailures`
(`FailuresJustified`) and `UnpackedInPlace` for any number of RPMs with any entries, and
any options and requests.  It assumes
`CommandsAssumption`: types, and of an RPM that it has a path once and that two names with
bodies are not names of one inode, as cpio archives have it; `PathsAssumption`: types of
requests, and that paths are `Plain`, as above; and `KernelAssumption`, a type.  None of
the properties is inductive, and the invariant `InvArchive` follows the command that
writes:

- `Growing`: while the tree is made, it says of each path what the headers so far say
  (`SaidBy`): the first link, or else the last directory.
- `TreeThere`: then what it says is in the archive, and nothing else is.  This is where
  `Traverse` comes in: `TraverseInOrder` shows that the walk by levels writes each header
  once and none before one above it.  `WalkLevels` says that a level holds the nodes of
  its depth, each once, because a name comes once among the keys of its parent
  (`GrownShape`, `AddAllKeeps`).
- `Created`, `Waiting`, `Sources`: the paths met so far; names that wait for a body,
  each once and in `createdPaths`, so that no second entry can take their place; and
  inodes whose body is in the archive.
- `Ordered`: what has been written will not be written again, nor what belongs before it,
  and no link leads to a name that waits.
- `AllArrived`: each file of the RPMs before, unless one before had its path, is in the
  archive, and each entry read of this RPM is there or waits.  `WriteHardLinksKeeps`
  makes the second the first, when all that waits has its source.

`Reasons` is added for `FailsForAReason`: what waits is a name without body, and an inode
whose body came under a path of its own is known; so an inode that is not known has
none.  Every path met has been created (`AllCreated`), so an entry that is not passed
over, and whose attributes are refused, is the first with its path.

The readers have invariants of their own, which rest on `InvArchive`.  All that is needed
of the kernel's walk is said in three lemmas: a path whose directories are there is
followed by its names (`WalkOnDirectories`, from `WalkStraight`), so a call makes its entry
under the path it is given (`PlaceIsFree`, `MkdirAllHere`), and a relative link from one
file to another leads there (`LinkWalk`, with what `filepath.Rel` returns in `RelIs`).

- `InvFilter`, for `tar2files`: above each declared path are directories only
  (`Copying`), since Bazel has made them and nothing that is there is replaced; what is
  no longer asked for has been delivered, and whatever else is there Bazel has prepared
  (`CopyingStraight`).  This is said of requests that are `Straight`: in no file is the
  text of the prefix but at its start.  For the others, a file whose text is elsewhere
  is waited for in vain, because entries that do not begin with the prefix are passed
  over; so a command that succeeds had a `Straight` request (`DoneIsStraight`), and
  `ExtractedSound` needs no such assumption, only that what begins with the prefix's
  text begins with its names (`Distinct`).
- `InvUntar`, for `sandbox`: if no two entries are in each other's way (`NoClash`),
  Untar has not failed, and the directory holds just what the entries read so far
  make of it (`Placed`): a directory only where an entry is one or is below it, a file or
  link only under the path of its entry, and hard links with the content of their
  source once they are no longer among `links`.  `LinksHaveFiles` is what the writer
  ensures for that: the source of each link is a file of the archive.

`OnlyJustFailures` is then the part of `InvUntar` about failure, read the other way round.
`UnpackedInPlace` is not the whole of `UnpackedSound`, which also speaks of archives whose
paths lead over symbolic links of the archive.  For these TLC's answer depends on
`MaxSteps`: a path through many links ends at the kernel's bound, as it does on a real
system, and then is not found.

`FlattenSeqLaidOut` says of the library's flattening, here and in `SatProofs`
a recursive fold, which list an element comes from and that the order is kept.

Checked by TLC only: liveness (`Terminates`, `Ends`), which the prover does not reach;
`UnpackedSound` where paths lead over links; what `RepoLoader` computes, a recursive fold of
the library; and the findings, which are traces.

## 6. Where code and documentation part

Three disagreements are runs that TLC refutes (section 4).  Others are stated in the
modules as properties that do not hold; to see the trace, give the property as the only
INVARIANT (or PROPERTY) of the configuration named, with the constants named.

| Property | Configuration | What TLC shows |
|---|---|---|
| `Reducer!FullVersionFormMatches` | `MCReducer.cfg`, `Inputs <- FullVersionInputs` | the request form "name-version.arch (needs full version)" of reducer.go:37 is refused; line 42 compares with name.arch-version |
| `SatPipeline!SoftClausesPenalise` | `MCSatPipeline.cfg` | "We don't want to install any package" (sat.go:127), but the 21st package of a name but the best has the weight -99 |
| `Resolver!RequestedInstalled` | `MCResolver.cfg` | "user-provided string requesting top-level package" is a package name (reducer.go:32-34), but a package that only provides the name may be taken (loader.go:357) |
| `Resolver!InputFilesAccepted` | `MCResolver.cfg`, `Inputs <- FileInputs` | packages of a "primary.xml of the repository" given with `--input` (resolve_helper.go:57) have no repository, and ComparePackage reads its priority (rpm.go:14) |
| `BuildFiles!MacroAddressesFit` | `MCBuildFiles.cfg` | AddBzlfileRPMs sets the checksum and keeps the addresses (bazel.go:189-199), where AddWorkspaceRPMs renews them when "the checksum changed" (136-138) |
| `BuildFiles!PrunesOnlyUnused` | `Trees = {bashtree, other}`, `FileOf <- TwoFiles`, `TargetOf <- SharedTarget`, `Kind <- WorkspaceKind`, `Prunes <- BothPrunes` | "prunes unused RPM dependencies" (prune.go:21) deletes what trees of another BUILD file use (bazel.go:323) |
| `BuildFiles!LockedTreesDeclared` | `Trees = {bashtree, libctree}`, `FileOf <- LockFile`, `TargetOf <- LockTwo`, `Kind <- LockKind`, `Prunes <- NoPrune` | a lock file works "similarly to how WORKSPACE files work" (README.md:239), but the call for a second tree drops the RPMs of the first (rpmtree.go:110) |
| `LockFileExtension!OwnVersions` | `Workspaces <- TwoModules` | "prevent the same blob to be registered more than once, needed for multiple lock files" (extensions.bzl:337), but the name of a blob holds neither module nor version |
| `LockFileExtension!DependenciesDefined` | `Workspaces <- Prefixed` | "A prefix to add to all generated rpm repositories" (extensions.bzl:553) is added twice to the name of an own blob (283, 367) |

Four more the properties of `Archives` leave open, and their comments say so: a label
for "/bin/ls", as the help text of the flag writes it (rpm2tar.go:107), is set on no
entry (`AttributesSet`); an inode whose body has a path of an earlier RPM leaves its
other names without target (cpio2tar.go:50, 142; `FailsForAReason`); a file whose path
holds the text of the prefix elsewhere is reported as missing (tar.go:63; `Straight`
in `FilterFailsForAReason`); and a link of the command line, which README.md:54 seems to
promise, loses to one of an RPM (order.go:38): `TreeKept` asks for one of the two.

## 7. Not modelled

PROJECT.json names each part.  In short: the external solver, HTTP retries,
decompression and .netrc; headers that are copied (owners, modes, times); the `xattr`
command; `verify`, one pass over rules whose checks are external; the command line;
AddTar2Files, by which `ldd` writes its list into a BUILD file; the syntax trees in which
rules are found; the rpm tags of the extension and Bazel's own evaluation.  Within what
is modelled: requirement flags outside the five known; the solver's choice among sets of
one cost; two fetches at the same time; links in a circle in
`Ldd`; and regular expressions beyond the set of packages they match.

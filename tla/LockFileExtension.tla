------------------------- MODULE LockFileExtension -------------------------
(***************************************************************************)
(* The module extension of bazeldnf/extensions.bzl: it reads the lock files *)
(* of the `config` tags of all modules, one after the other, and defines a  *)
(* blob repository for each RPM of a lock file, an rpm repository for each  *)
(* requested RPM, which unpacks the blobs of all it depends on, and aliases *)
(* by which the packages are known.                                         *)
(*                                                                          *)
(* An id is a sequence of names; the parts of a repository's name are the   *)
(* prefix, if there is one, and the id. A lock file is a sequence of RPMs   *)
(* with id, dependencies, url, whether it has an id or name of its own, and *)
(* whether its repository has mirrors; an RPM without name is known by the  *)
(* end of its address. All packages of a lock file have different ids.      *)
(***************************************************************************)
EXTENDS Integers, Sequences, SequencesExt, FiniteSets

CONSTANTS
  Workspaces, \* sequences of config tags: module, prefix (<<>> or one name), rpms,
              \* ignoreMissing, and the lock file: exists, rpms, targets
  MaxPasses,  \* after how many passes the search for dependencies ends
  Normalized  \* a function from ids to ids: "+" is replaced by "plus"

Normal(id) == IF id \in DOMAIN Normalized THEN Normalized[id] ELSE id

Id == Seq(STRING) \ {<<>>}
Rpms == Seq([id: Id, dependencies: Seq(Id), url: STRING, named: BOOLEAN, mirrored: BOOLEAN])
ConfigTag == [module: Nat, prefix: Seq(STRING), rpms: Seq(Id), ignoreMissing: BOOLEAN,
              lock: [exists: BOOLEAN, rpms: Rpms, targets: Seq(Id)]]

ASSUME WorkspacesAssumption ==
  /\ Workspaces \subseteq Seq(ConfigTag) \ {<<>>}
  /\ \A ws \in Workspaces : \A n \in DOMAIN ws : \A rpm, other \in Range(ws[n].lock.rpms) :
       rpm.id = other.id => rpm = other
ASSUME PassesAssumption == MaxPasses \in Nat \ {0}
ASSUME NormalizedAssumption ==
  \A id \in DOMAIN Normalized : Normalized[id] \in Id /\ Normal(Normalized[id]) = Normalized[id]

VARIABLES
  configs,    \* the tags, in the order of the modules
  at,         \* the tag under way
  pc,         \* the part of a tag under way, "next" when it is done, or "failed"
  k,          \* the requested RPM under way
  blobs,      \* the blob repositories, and the address of each
  registered, \* registered_rpms of the module under way: names of repositories
  repos,      \* the rpm repositories: the labels they depend on, or Invalid
  aliases     \* for each tag, packages_metadata: the repositories of a package

vars == <<configs, at, pc, k, blobs, registered, repos, aliases>>

Invalid == {<<>>}   \* the label of nothing
Config == configs[at]
Lock == Config.lock
ids(lock) == {rpm.id : rpm \in Range(lock.rpms)}

\* _build_rpm_lookup
rpm_lookup(lock) == [id \in ids(lock) |->
                       CHOOSE rpm \in Range(lock.rpms) : rpm.id = id]

\* _build_transitive_deps: in each pass, the dependencies of the last.
Batch(lookup, reached) ==
  LET found == (reached.toProcess \cap DOMAIN lookup) \ reached.visited
      visited == reached.visited \cup found
  IN [visited   |-> visited,
      toProcess |-> (UNION {Range(lookup[id].dependencies) : id \in found}) \ reached.visited]

transitive_deps_Direct(lookup, target) ==   \* mutant: one pass only
  {target} \cup Range(lookup[target].dependencies)

Passes(lookup, target) ==
  LET pass[n \in 0..MaxPasses] ==
        IF n = 0 THEN [visited |-> {}, toProcess |-> {target}] ELSE Batch(lookup, pass[n - 1])
  IN  pass

transitive_deps(lookup, target) == Passes(lookup, target)[MaxPasses].visited

\* _normalize_repository_name, after _get_blob_prefix, and the labels made of them.
BlobName_Shared(c, id) == Normal(id)   \* mutant: the prefix is left out
BlobName(c, id) == c.prefix \o Normal(id)
RpmName(c, id) == c.prefix \o Normal(id)
BlobLabels_Plain(c, names) == {c.prefix \o x : x \in names}   \* mutant: "+" stays in the label
BlobLabels(c, names) == {c.prefix \o Normal(x) : x \in names}

\* The blobs an RPM has without a request: of its repository's name, which has the
\* prefix already.
OwnBlob(c, rpm) == BlobLabels(c, {c.prefix \o Normal(rpm.id)})

Named(table, name, value) == [x \in DOMAIN table \cup {name} |-> IF x = name THEN value ELSE table[x]]
Listed(table, package, name) ==
  Named(table, package, (IF package \in DOMAIN table THEN table[package] ELSE <<>>) \o <<name>>)
----------------------------------------------------------------------------
Init ==
  /\ configs \in Workspaces
  /\ at = 1 /\ pc = "blobs" /\ k = 1
  /\ blobs = <<>> /\ registered = {} /\ repos = <<>>
  /\ aliases = [n \in DOMAIN configs |-> <<>>]

\* _add_blob_rpm_repository: the first of a name stays.
Unresolved == {rpm \in Range(Lock.rpms) : ~rpm.mirrored /\ BlobName(Config, rpm.id) \notin DOMAIN blobs}

AddBlobs ==
  /\ pc = "blobs" /\ Lock.exists /\ Unresolved = {}
  /\ \E names \in {{BlobName(Config, rpm.id) : rpm \in Range(Lock.rpms)}} :
       blobs' = [name \in DOMAIN blobs \cup names |->
                   IF name \in DOMAIN blobs THEN blobs[name]
                   ELSE (CHOOSE rpm \in Range(Lock.rpms) : BlobName(Config, rpm.id) = name).url]
  /\ pc' = "targets" /\ k' = 1
  /\ UNCHANGED <<configs, at, registered, repos, aliases>>

BlobFails ==
  /\ pc = "blobs" /\ Lock.exists /\ Unresolved # {}
  /\ pc' = "failed"
  /\ UNCHANGED <<configs, at, k, blobs, registered, repos, aliases>>

\* Without lock file every package is an alias of nothing, or of a failure.
NoLockFile ==
  /\ pc = "blobs" /\ ~Lock.exists
  /\ aliases' = [aliases EXCEPT ![at] =
                   IF Config.ignoreMissing THEN [id \in Range(Config.rpms) |-> <<>>] ELSE <<>>]
  /\ pc' = "next"
  /\ UNCHANGED <<configs, at, k, blobs, registered, repos>>

\* _add_rpm_repository: one that the module has registered already is used as it
\* is; Bazel refuses to define a repository twice.
Register(name, dependencies) ==
  \/ /\ name \in registered
     /\ UNCHANGED <<pc, registered, repos>>
  \/ /\ name \notin registered /\ name \notin DOMAIN repos
     /\ repos' = Named(repos, name, dependencies)
     /\ registered' = registered \cup {name}
     /\ UNCHANGED pc
  \/ /\ name \notin registered /\ name \in DOMAIN repos
     /\ pc' = "failed"
     /\ UNCHANGED <<registered, repos>>

\* A requested RPM with all its dependencies, or one the lock file has not.
AddTarget ==
  /\ pc = "targets" /\ k <= Len(Config.rpms)
  /\ \E target \in {Config.rpms[k]}, lookup \in {rpm_lookup(Lock)} :
       /\ Register(RpmName(Config, target),
                   IF target \in DOMAIN lookup
                   THEN BlobLabels(Config, transitive_deps(lookup, target)) ELSE Invalid)
       /\ aliases' = [aliases EXCEPT ![at] = Listed(@, target, RpmName(Config, target))]
  /\ k' = k + 1
  /\ UNCHANGED <<configs, at, blobs>>

\* Then, one by one, all RPMs when none are requested, and those without name.
All == IF Config.rpms = <<>> THEN Lock.rpms ELSE <<>>
Further == All \o Lock.rpms

AddFurther ==
  /\ pc = "targets" /\ k > Len(Config.rpms) /\ k - Len(Config.rpms) <= Len(Further)
  /\ \E j \in {k - Len(Config.rpms)} : \E rpm \in {Further[j]} :
       \/ j > Len(All) /\ rpm.named /\ UNCHANGED <<pc, registered, repos, aliases>>
       \/ /\ j <= Len(All) \/ ~rpm.named
          /\ Register(RpmName(Config, rpm.id), OwnBlob(Config, rpm))
          /\ aliases' = [aliases EXCEPT ![at] = Listed(@, rpm.id, RpmName(Config, rpm.id))]
  /\ k' = k + 1
  /\ UNCHANGED <<configs, at, blobs>>

\* Targets of the lock file that nothing has been found for.
NullTargets_All ==   \* mutant: what has been found is overwritten
  /\ pc = "targets" /\ k > Len(Config.rpms) + Len(Further)
  /\ aliases' = [aliases EXCEPT ![at] =
                   [id \in DOMAIN @ \cup Range(Lock.targets) |->
                      IF id \in Range(Lock.targets) THEN <<>> ELSE @[id]]]
  /\ pc' = "next"
  /\ UNCHANGED <<configs, at, k, blobs, registered, repos>>

NullTargets ==
  /\ pc = "targets" /\ k > Len(Config.rpms) + Len(Further)
  /\ aliases' = [aliases EXCEPT ![at] =
                   [id \in DOMAIN @ \cup Range(Lock.targets) |-> IF id \in DOMAIN @ THEN @[id] ELSE <<>>]]
  /\ pc' = "next"
  /\ UNCHANGED <<configs, at, k, blobs, registered, repos>>

NextConfig_Keeps ==   \* mutant: one registered_rpms for all modules
  /\ pc = "next" /\ at < Len(configs)
  /\ at' = at + 1 /\ pc' = "blobs"
  /\ UNCHANGED <<configs, k, blobs, registered, repos, aliases>>

\* registered_rpms is made anew for each module, registered_blobs is not.
NextConfig ==
  /\ pc = "next" /\ at < Len(configs)
  /\ at' = at + 1 /\ pc' = "blobs"
  /\ registered' = IF configs[at + 1].module = Config.module THEN registered ELSE {}
  /\ UNCHANGED <<configs, k, blobs, repos, aliases>>

Terminated == pc = "failed" \/ (pc = "next" /\ at = Len(configs))

Next == AddBlobs \/ BlobFails \/ NoLockFile \/ AddTarget \/ AddFurther \/ NullTargets \/ NextConfig
        \/ (Terminated /\ UNCHANGED vars)

Spec == Init /\ [][Next]_vars
----------------------------------------------------------------------------
\* The packages of a tag that become repositories, and whether on request.
Requested(c) == Range(c.rpms)
Registers(c) ==
  Requested(c) \cup {rpm.id : rpm \in {r \in Range(c.lock.rpms) : c.rpms = <<>> \/ ~r.named}}

\* The tags of a workspace keep out of each other's way: what bears one name is one
\* package of one lock file, requested by all or by none. What depends on its own blob
\* has no prefix, which would be there twice.
Separate(ws) ==
  \A n, m \in {i \in DOMAIN ws : ws[i].lock.exists} :
    /\ \A x \in ids(ws[n].lock), y \in ids(ws[m].lock) :
         BlobName(ws[n], x) = BlobName(ws[m], y) => x = y /\ ws[n].lock = ws[m].lock
    /\ \A x \in Registers(ws[n]), y \in Registers(ws[m]) :
         RpmName(ws[n], x) = RpmName(ws[m], y) =>
           /\ x = y /\ ws[n].lock = ws[m].lock /\ ws[n].prefix = ws[m].prefix
           /\ (x \in Requested(ws[n])) = (y \in Requested(ws[m]))
    /\ Registers(ws[n]) \subseteq Requested(ws[n]) \/ ws[n].prefix = <<>>

TypeOK ==
  /\ at \in DOMAIN configs
  /\ pc \in {"blobs", "targets", "next", "failed"}
  /\ registered \subseteq DOMAIN repos
  /\ \A name \in registered : \E n \in 1..at, id \in UNION {DOMAIN aliases[m] : m \in 1..at} :
       configs[n].module = Config.module /\ name = RpmName(configs[n], id)
  /\ DOMAIN aliases = DOMAIN configs

Handled == {n \in DOMAIN configs : n < at \/ (n = at /\ pc = "next")}

\* What an RPM needs, directly or not: the ids in every set that has its own and
\* all dependencies of those it has.
Needed(lock, target) ==
  {id \in ids(lock) : \A S \in SUBSET ids(lock) :
     target \in S /\ (\A x \in S : Range(rpm_lookup(lock)[x].dependencies) \cap ids(lock) \subseteq S)
     => id \in S}

\* What a requested package is built from is what it needs according to its own
\* lock file, circles included: nothing less, nothing more (extensions.bzl:190-229,
\* 362-399). The search may end too early in a longer chain than MaxPasses.
ClosureComplete ==
  \A n \in Handled : \A target \in Range(configs[n].rpms) \cap ids(configs[n].lock) :
    configs[n].lock.exists /\ Len(configs[n].lock.rpms) <= MaxPasses =>
      repos[aliases[n][target][1]] =
        {BlobName(configs[n], id) : id \in Needed(configs[n].lock, target)}

\* No repository depends on a blob that is not defined: the two ways of making the
\* name of a blob agree (extensions.bzl:283, 335, 367).
DependenciesDefined ==
  pc = "next" => \A name \in DOMAIN repos : repos[name] # Invalid => repos[name] \subseteq DOMAIN blobs

\* The blobs a requested package is built from hold the files its lock file names,
\* not those of another lock file that was read earlier (extensions.bzl:338).
OwnVersions ==
  \A n \in Handled : \A target \in Range(configs[n].rpms) \cap ids(configs[n].lock) :
    configs[n].lock.exists => \A id \in Needed(configs[n].lock, target) :
      /\ BlobName(configs[n], id) \in DOMAIN blobs
      /\ blobs[BlobName(configs[n], id)] = rpm_lookup(configs[n].lock)[id].url

\* Every package somebody may depend on has an alias: what is requested, and what
\* the lock file was made for. One the lock file has leads to a repository that can
\* be built, another one to nothing or to a failure that names it.
AliasesComplete ==
  \A n \in Handled : configs[n].lock.exists =>
    /\ Range(configs[n].rpms) \cup Range(configs[n].lock.targets) \subseteq DOMAIN aliases[n]
    /\ configs[n].rpms = <<>> => ids(configs[n].lock) \subseteq DOMAIN aliases[n]
    /\ \A id \in DOMAIN aliases[n] :
         /\ Range(aliases[n][id]) \subseteq DOMAIN repos
         /\ id \in Range(configs[n].rpms) =>
              /\ aliases[n][id] # <<>>
              /\ (repos[aliases[n][id][1]] = Invalid) = (id \notin ids(configs[n].lock))

\* What the extension defines fits together: the repositories, the blobs they
\* depend on with the files of their own lock file, and the aliases.
RepositoriesSound == TypeOK /\ DependenciesDefined /\ OwnVersions /\ AliasesComplete
============================================================================

----------------------------- MODULE RepoLoader -----------------------------
(***************************************************************************)
(* RepoLoader.Load of pkg/reducer/loader.go: from the repository files      *)
(* named on the command line and the primaries in the cache to the list of  *)
(* packages the reducer works on.  Packages are the records of Reducer.     *)
(*                                                                          *)
(* A repository file that cannot be opened or decoded is the value with     *)
(* ok = FALSE.  A regular expression is the set of package keys it matches, *)
(* or one that does not compile (ok = FALSE).                               *)
(***************************************************************************)
EXTENDS Integers, Sequences
LOCAL INSTANCE SequencesExt

PlatformPython     == <<"platform", "-", "python">>
PlatformPythonFile == <<"/usr/libexec/platform-python">>

KeyOf(p) == [name |-> p.name, ver |-> p.ver, arch |-> p.arch]

skip(arch, arches) == arch \notin arches

\* The regular expressions are tried in order up to the first that matches.
Decisive(rex, p) == ~rex.ok \/ KeyOf(p) \in rex.matches
FirstDecisive(exclude, p) ==
  SelectInSeq(exclude, LAMBDA rex : Decisive(rex, p))
BadExclude(exclude, p) ==
  LET n == FirstDecisive(exclude, p) IN n # 0 /\ ~exclude[n].ok
Excluded(exclude, p) ==
  LET n == FirstDecisive(exclude, p) IN n # 0 /\ exclude[n].ok

FixPackages(p) ==
  IF p.name # PlatformPython THEN p
  ELSE [p EXCEPT !.provides = @ \cup {PlatformPythonFile},
                 !.requires = SelectSeq(@, LAMBDA r : r # PlatformPythonFile)]

\* Requirements with boolean logic, "(gcc if something)", are dropped.
IsRich(cap) == cap # <<>> /\ Head(cap) = "("
WithoutRich(p) == [p EXCEPT !.requires = SelectSeq(@, LAMBDA r : ~IsRich(r))]

OfArch(pkgs, arches) == SelectSeq(pkgs, LAMBDA p : ~skip(p.arch, arches))

\* Load fails on the first file, regular expression or cache entry at fault.
LoadFails(files, cache, arches) ==
  \/ \E n \in DOMAIN files : ~files[n].ok
  \/ ~cache.ok
  \/ \E n \in DOMAIN cache.repos :
       \E p \in ToSet(OfArch(cache.repos[n].packages, arches)) :
          BadExclude(cache.repos[n].exclude, p)

Loaded(files, cache, arches) ==
  LET fromFiles == [n \in DOMAIN files |->
                      [m \in DOMAIN OfArch(files[n].packages, arches) |->
                         [OfArch(files[n].packages, arches)[m] EXCEPT !.hasRepository = FALSE]]]
      fromCache == [n \in DOMAIN cache.repos |->
                      SelectSeq(OfArch(cache.repos[n].packages, arches),
                                LAMBDA p : ~Excluded(cache.repos[n].exclude, p))]
      all == FlattenSeq(fromFiles) \o FlattenSeq(fromCache)
  IN  [n \in DOMAIN all |-> WithoutRich(FixPackages(all[n]))]
============================================================================

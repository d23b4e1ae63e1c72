----------------------------- MODULE RepoCache -----------------------------
(***************************************************************************)
(* The repository metadata cache of pkg/repo: `bazeldnf fetch` (fetch.go)   *)
(* fills it, the commands that load packages read it (cache.go), in         *)
(* processes of their own.  A cache directory holds for every repository    *)
(* its metalink, repomd.xml and primary files; a file is rewritten in place *)
(* (created, then copied into) and checked afterwards.  Nothing is known of *)
(* the servers: a request may fail, and may answer with any release or with *)
(* something that is no metadata at all; a copy may break off; the fetching *)
(* process may be killed at any point.                                      *)
(***************************************************************************)
EXTENDS Naturals, Sequences

CONSTANTS
  Repos,       \* the repositories of the repo file, in order
  Source,      \* repository -> "metalink", "baseurl" or "none"
  Releases,    \* the releases of the metadata
  PrimaryName, \* repository -> release -> the name of its primary file
  Metalinks    \* what metalinks say: [sums: checksums of repomd.xml, urls: https mirrors]

NoPrimary == 0  \* the release of a repomd.xml that lists no primary file

ASSUME ReposAssumption ==
  /\ Repos \in Seq(STRING) /\ Repos # <<>>
  /\ \A i, j \in DOMAIN Repos : Repos[i] = Repos[j] => i = j
  /\ \A i \in DOMAIN Repos : Source[Repos[i]] \in {"metalink", "baseurl", "none"}
ASSUME ReleasesAssumption ==
  /\ Releases \subseteq Nat \ {NoPrimary}
  /\ \A i \in DOMAIN Repos :
       PrimaryName[Repos[i]] \in [Releases -> STRING \ {"metalink", "repomd.xml"}]
  /\ Metalinks \subseteq [sums: SUBSET (Releases \cup {NoPrimary}), urls: Nat]

VARIABLES
  cache,   \* repository -> file name -> contents
  status,  \* of the last fetch: "none", "running", "ok", "failed"
  at,      \* the repository it is at
  file,    \* the kind of file it is at: "metalink", "repomd", "primary"
  stage,   \* of that file: "get", "copy", "check"
  body,    \* what the server answered
  sums,    \* the checksums repomd.xml must have one of, if any
  urls,    \* how many mirrors there are
  tried,   \* what each of them answered so far
  release, \* the release of the repomd.xml accepted
  loading, \* the state of the process that loads a repository
  source,  \* the repository it loads
  listed,  \* the release of the repomd.xml it has read
  loaded,  \* the primary file it has read
  fresh    \* whether it started after a successful fetch, with none since

fetcher == <<status, at, file, stage, body, sums, urls, tried, release>>
loader  == <<loading, source, listed, loaded, fresh>>
vars    == <<cache, fetcher, loader>>

Nothing == <<"nothing", 0>>   \* no file, or no answer
Partial == <<"partial", 0>>   \* a file created and not, or not wholly, copied
Garbage == <<"garbage", 0>>   \* bytes that are no metadata
Metalink(m) == <<"metalink", m>>
Repomd(r)   == <<"repomd", r>>
Primary(r, f) == <<"primary", r, f>>   \* of release r, given by a server asked for f

RepoNames == {Repos[i] : i \in DOMAIN Repos}
FileNames(n) == {"metalink", "repomd.xml"} \cup {PrimaryName[n][r] : r \in Releases}
PrimariesOf(n) == {Primary(r, PrimaryName[n][q]) : r \in Releases, q \in Releases}
Contents  == {Nothing, Partial, Garbage} \cup {Metalink(m) : m \in Metalinks}
             \cup {Repomd(r) : r \in Releases \cup {NoPrimary}}
             \cup UNION {PrimariesOf(n) : n \in RepoNames}

\* What a server may answer to a request for each kind of file: for a primary file
\* that of any release, whatever it is called.
MetalinkAnswers == {Garbage} \cup {Metalink(m) : m \in Metalinks}
RepomdAnswers   == {Garbage} \cup {Repomd(r) : r \in Releases \cup {NoPrimary}}
PrimaryAnswers(f) == {Garbage} \cup {Primary(r, f) : r \in Releases}

\* Mutant: every primary file is cached under the same name.
FileName_Fixed == CASE file = "metalink" -> "metalink"
                    [] file = "repomd"   -> "repomd.xml"
                    [] file = "primary"  -> PrimaryName[Repos[at]][CHOOSE r \in Releases : TRUE]

FileName == CASE file = "metalink" -> "metalink"
              [] file = "repomd"   -> "repomd.xml"
              [] file = "primary"  -> PrimaryName[Repos[at]][release]

Write(contents) == cache' = [cache EXCEPT ![Repos[at]][FileName] = contents]

\* The fetch comes to repository i, or to its end.
Enter(i) ==
  IF i > Len(Repos)
  THEN /\ status' = "ok" /\ at' = 0 /\ file' = "metalink" /\ urls' = 0
  ELSE /\ status' = "running" /\ at' = i
       /\ file' = IF Source[Repos[i]] = "metalink" THEN "metalink" ELSE "repomd"
       /\ urls' = IF Source[Repos[i]] = "baseurl" THEN 1 ELSE 0

Restart(i) ==
  /\ Enter(i)
  /\ stage' = "get" /\ body' = Nothing /\ sums' = {} /\ tried' = <<>> /\ release' = NoPrimary

Abort ==
  /\ status' = "failed"
  /\ at' = 0 /\ file' = "metalink" /\ stage' = "get" /\ body' = Nothing
  /\ sums' = {} /\ urls' = 0 /\ tried' = <<>> /\ release' = NoPrimary

At(f, s) == status = "running" /\ file = f /\ stage = s

\* A response with a body: the file is created, empty.
Answer(contents) ==
  /\ Write(Partial)
  /\ body' = contents /\ stage' = "copy"
  /\ UNCHANGED <<status, at, file, sums, urls, tried, release>>

\* Mutant: the loop does not go on to the next mirror.
NextMirror(answer) ==
  /\ tried' = Append(tried, answer)
  /\ stage' = "get" /\ body' = Nothing
  /\ UNCHANGED <<cache, status, at, file, sums, urls, release>>
----------------------------------------------------------------------------
Init ==
  /\ cache = [n \in RepoNames |-> [f \in FileNames(n) |-> Nothing]]
  /\ status = "none" /\ at = 0 /\ file = "metalink" /\ stage = "get" /\ body = Nothing
  /\ sums = {} /\ urls = 0 /\ tried = <<>> /\ release = NoPrimary
  /\ loading = "idle" /\ source = Repos[1] /\ listed = NoPrimary /\ loaded = Nothing
  /\ fresh = FALSE

\* Mutant: the old files are removed first.
Fetch_ClearsFirst ==
  /\ status # "running"
  /\ Restart(1)
  /\ fresh' = FALSE
  /\ cache' = [n \in RepoNames |-> [f \in FileNames(n) |-> Nothing]]
  /\ UNCHANGED <<loading, source, listed, loaded>>

Fetch ==
  /\ status # "running"
  /\ Restart(1)
  /\ fresh' = FALSE
  /\ UNCHANGED <<cache, loading, source, listed, loaded>>

GetMetalink ==
  /\ At("metalink", "get")
  /\ \/ Abort /\ UNCHANGED cache
     \/ \E answer \in MetalinkAnswers : Answer(answer)
  /\ UNCHANGED loader

\* Mutant: mirrors are asked without end.
GetRepomd_Unbounded ==
  /\ At("repomd", "get") /\ Len(tried) <= urls
  /\ \/ NextMirror(Nothing)
     \/ \E answer \in RepomdAnswers : Answer(answer)
  /\ UNCHANGED loader

GetRepomd ==
  /\ At("repomd", "get") /\ Len(tried) < urls
  /\ \/ NextMirror(Nothing)
     \/ \E answer \in RepomdAnswers : Answer(answer)
  /\ UNCHANGED loader

GiveUp ==
  /\ At("repomd", "get") /\ Len(tried) = urls
  /\ Abort
  /\ UNCHANGED <<cache, loader>>

GetPrimary ==
  /\ At("primary", "get")
  /\ \/ Abort /\ UNCHANGED cache
     \/ /\ release # NoPrimary
        /\ \E answer \in PrimaryAnswers(PrimaryName[Repos[at]][release]) : Answer(answer)
  /\ UNCHANGED loader

\* A file is filled before what is in it is checked.
Copy ==
  /\ status = "running" /\ stage = "copy"
  /\ Write(body)
  /\ stage' = "check"
  /\ UNCHANGED <<status, at, file, body, sums, urls, tried, release, loader>>

CopyError ==
  /\ status = "running" /\ stage = "copy"
  /\ IF file = "repomd" THEN NextMirror(Nothing) ELSE Abort /\ UNCHANGED cache
  /\ UNCHANGED loader

\* The metalink is read back; it must name a mirror and a checksum.
CheckMetalink ==
  /\ At("metalink", "check")
  /\ LET written == cache[Repos[at]]["metalink"] IN
       IF written[1] = "metalink" /\ written[2].urls > 0 /\ written[2].sums # {}
       THEN /\ file' = "repomd" /\ stage' = "get" /\ body' = Nothing
            /\ sums' = written[2].sums /\ urls' = written[2].urls
            /\ UNCHANGED <<status, at, tried, release>>
       ELSE Abort
  /\ UNCHANGED <<cache, loader>>

\* A repomd.xml will do if it has one of the checksums and can be decoded.
Acceptable(answer) ==
  /\ answer[1] = "repomd"
  /\ sums # {} => answer[2] \in sums

\* Mutant: only one of the checksums is compared.
CheckRepomd_OneSum ==
  /\ At("repomd", "check")
  /\ IF body[1] = "repomd" /\ (sums = {} \/ body[2] = CHOOSE s \in sums : TRUE)
     THEN /\ release' = body[2] /\ file' = "primary" /\ stage' = "get" /\ body' = Nothing
          /\ UNCHANGED <<cache, status, at, sums, urls, tried>>
     ELSE NextMirror(body)
  /\ UNCHANGED loader

CheckRepomd ==
  /\ At("repomd", "check")
  /\ IF Acceptable(body)
     THEN /\ release' = body[2] /\ file' = "primary" /\ stage' = "get" /\ body' = Nothing
          /\ UNCHANGED <<cache, status, at, sums, urls, tried>>
     ELSE NextMirror(body)
  /\ UNCHANGED loader

\* Mutant: the checksum of the primary file is not compared.
CheckPrimary_Unchecked ==
  /\ At("primary", "check")
  /\ Restart(at + 1)
  /\ UNCHANGED <<cache, loader>>

CheckPrimary ==
  /\ At("primary", "check")
  /\ IF body = Primary(release, PrimaryName[Repos[at]][release]) THEN Restart(at + 1) ELSE Abort
  /\ UNCHANGED <<cache, loader>>

Killed ==
  /\ status = "running"
  /\ Abort
  /\ UNCHANGED <<cache, loader>>
----------------------------------------------------------------------------
Read(f) == cache[source][f]

\* CurrentPrimary decodes repomd.xml, and does not ask if it lists a primary.
LoadRepomd(n) ==
  /\ loading = "idle"
  /\ source' = n /\ fresh' = (status = "ok")
  /\ loaded' = Nothing
  /\ LET read == cache[n]["repomd.xml"] IN
       IF read[1] # "repomd" THEN loading' = "failed" /\ listed' = NoPrimary
       ELSE /\ loading' = IF read[2] = NoPrimary THEN "panicked" ELSE "primary"
            /\ listed' = read[2]
  /\ UNCHANGED <<cache, fetcher>>

LoadPrimary ==
  /\ loading = "primary"
  /\ LET read == Read(PrimaryName[source][listed]) IN
       IF read[1] # "primary" THEN loading' = "failed" /\ UNCHANGED loaded
       ELSE /\ loading' = IF Source[source] = "metalink" THEN "mirrors" ELSE "loaded"
            /\ loaded' = read
  /\ UNCHANGED <<cache, fetcher, source, listed, fresh>>

LoadMirrors ==
  /\ loading = "mirrors"
  /\ loading' = IF Read("metalink")[1] = "metalink" THEN "loaded" ELSE "failed"
  /\ UNCHANGED <<cache, fetcher, source, listed, loaded, fresh>>

LoadEnd ==
  /\ loading \in {"loaded", "failed", "panicked"}
  /\ loading' = "idle" /\ listed' = NoPrimary /\ loaded' = Nothing
  /\ source' = Repos[1] /\ fresh' = FALSE
  /\ UNCHANGED <<cache, fetcher>>

FetchStep == GetMetalink \/ GetRepomd \/ GiveUp \/ GetPrimary \/ Copy \/ CopyError
             \/ CheckMetalink \/ CheckRepomd \/ CheckPrimary
LoadStep  == LoadPrimary \/ LoadMirrors

Next ==
  \/ Fetch \/ FetchStep \/ Killed
  \/ \E n \in RepoNames : LoadRepomd(n)
  \/ LoadStep \/ LoadEnd

Spec == Init /\ [][Next]_vars
----------------------------------------------------------------------------
TypeOK ==
  /\ DOMAIN cache = RepoNames /\ \A n \in RepoNames : cache[n] \in [FileNames(n) -> Contents]
  /\ status \in {"none", "running", "ok", "failed"}
  /\ at \in 0..Len(Repos) /\ (status = "running" => at > 0)
  /\ file \in {"metalink", "repomd", "primary"} /\ stage \in {"get", "copy", "check"}
  /\ body \in Contents /\ (stage # "get" <=> body # Nothing)
  /\ sums \subseteq Releases \cup {NoPrimary} /\ urls \in Nat
  /\ tried \in Seq(Contents) /\ Len(tried) <= urls
  /\ release \in Releases \cup {NoPrimary}
  /\ loading \in {"idle", "primary", "mirrors", "loaded", "failed", "panicked"}
  /\ source \in RepoNames /\ fresh \in BOOLEAN
  /\ listed \in Releases \cup {NoPrimary} /\ loaded \in {Nothing} \cup PrimariesOf(source)

\* The primary file that belongs to the repomd.xml of release r.
Listed(n, r) == Primary(r, PrimaryName[n][r])

\* Repository n is complete: repomd.xml has a checksum of the metalink beside
\* it, and the primary file it lists is there and is of its release.
Complete(n) ==
  LET read == cache[n]["repomd.xml"] IN
    /\ read[1] = "repomd" /\ read[2] # NoPrimary
    /\ cache[n][PrimaryName[n][read[2]]] = Listed(n, read[2])
    /\ Source[n] = "metalink" => /\ cache[n]["metalink"][1] = "metalink"
                                 /\ read[2] \in cache[n]["metalink"][2].sums

\* When fetch reports success every repository of the file is complete, however
\* many mirrors, fetches and crashes before left rejected or partial files in
\* the directory (fetch.go:39-72, cache.go:90-108).
FetchedIsComplete == status = "ok" => \A n \in RepoNames : Complete(n)

\* A load begun after a successful fetch, with no other since, loads the release
\* that was verified (cache.go:153-202 checks no checksum itself).
LoadAfterFetch ==
  fresh => /\ loading \notin {"failed", "panicked"}
           /\ loading = "loaded" => loaded = Listed(source, listed)

\* A load that succeeds has read what a server gave when it was asked for the primary
\* file that repomd.xml lists, even in the middle of a fetch or after one that was
\* killed: releases with file names of their own are not mixed up unless by a
\* server. A file whose checksum is refused stays in the cache under the name listed,
\* and a load takes it (fetch.go:210-217, cache.go:153-176).
LoadMatches == loading = "loaded" => loaded[3] = PrimaryName[source][listed]

\* A fetch gives the mirrors up only when none of them offered a repomd.xml that
\* would do (fetch.go:121-177).
NoMirrorOverlooked ==
  At("repomd", "get") => \A i \in DOMAIN tried : ~Acceptable(tried[i])

\* A fetch that fails before it has a repomd.xml it accepts leaves every primary
\* file as it was: the files are only replaced by those of an accepted release.
PrimariesOutliveMirrors ==
  [][\A n \in RepoNames : \A r \in Releases :
       cache'[n][PrimaryName[n][r]] # cache[n][PrimaryName[n][r]]
       => release # NoPrimary /\ PrimaryName[n][release] = PrimaryName[n][r] /\ n = Repos[at]]_vars

\* The mirrors are tried one after the other, as many as there are addresses, and
\* none that would have done is passed over.
MirrorsTried == TypeOK /\ NoMirrorOverlooked
============================================================================

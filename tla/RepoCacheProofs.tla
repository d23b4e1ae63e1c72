--------------------------- MODULE RepoCacheProofs ---------------------------
(***************************************************************************)
(* What holds of the metadata cache for any number of repositories,         *)
(* releases, mirrors, fetches and kills, whatever the servers answer.       *)
(*                                                                          *)
(* That a fetch which reports success has left complete repositories says   *)
(* nothing of the repositories it has yet to come to, nor of the files it   *)
(* is in the middle of.  The invariants below say, for each place of the    *)
(* fetch, what it has already verified.                                     *)
(***************************************************************************)
EXTENDS RepoCache, TLAPS

\* What a file may hold, by its name: a request is for one kind of metadata.
FilesHoldTheirKind ==
  \A n \in RepoNames :
    /\ cache[n]["metalink"] \in {Nothing, Partial} \cup MetalinkAnswers
    /\ cache[n]["repomd.xml"] \in {Nothing, Partial} \cup RepomdAnswers
    /\ \A r \in Releases :
         cache[n][PrimaryName[n][r]] \in {Nothing, Partial} \cup PrimaryAnswers(PrimaryName[n][r])

\* Where a load and a fetch can be.
Listing == loading = "primary" => listed # NoPrimary

Place ==
  /\ status # "running" => stage = "get" /\ body = Nothing
  /\ status = "running" /\ file = "metalink" => Source[Repos[at]] = "metalink" /\ tried = <<>>
  /\ status = "running" /\ stage # "get" =>
       /\ file = "metalink" => body \in MetalinkAnswers
       /\ file = "repomd"   => body \in RepomdAnswers /\ Len(tried) < urls
       /\ file = "primary"  => release # NoPrimary /\ body \in PrimaryAnswers(PrimaryName[Repos[at]][release])

Types == TypeOK /\ FilesHoldTheirKind /\ Place /\ Listing

\* What the fetch has verified of the repository it is at, and of those before.
MetalinkVerified ==
  file # "metalink" /\ Source[Repos[at]] = "metalink" =>
    /\ cache[Repos[at]]["metalink"][1] = "metalink"
    /\ sums = cache[Repos[at]]["metalink"][2].sums /\ sums # {}
RepomdVerified ==
  file = "primary" =>
    /\ cache[Repos[at]]["repomd.xml"] = Repomd(release)
    /\ sums # {} => release \in sums
BodyCopied ==
  stage = "check" => cache[Repos[at]][FileName] = body
Verified ==
  status = "running" =>
    /\ \A i \in 1..(at - 1) : Complete(Repos[i])
    /\ MetalinkVerified /\ RepomdVerified /\ BodyCopied

\* No mirror that has been tried offered what would do.
NoneAcceptable ==
  status = "running" /\ file = "repomd" => \A i \in DOMAIN tried : ~Acceptable(tried[i])

\* How far a load has got, and what it knows by then.
Loading ==
  /\ loading = "mirrors" => Source[source] = "metalink"
  /\ loading \in {"mirrors", "loaded"} => loaded[3] = PrimaryName[source][listed]
Reading ==
  fresh =>
    /\ status = "ok"
    /\ loading \notin {"failed", "panicked"}
    /\ loading \in {"primary", "mirrors", "loaded"} => cache[source]["repomd.xml"] = Repomd(listed)
    /\ loading \in {"mirrors", "loaded"} => loaded = Listed(source, listed)
-----------------------------------------------------------------------------
\* Names and contents.

LEMMA NamesDiffer ==
  /\ \A i \in DOMAIN Repos : Repos[i] \in RepoNames
  /\ \A n \in RepoNames :
       /\ Source[n] \in {"metalink", "baseurl", "none"}
       /\ {"metalink", "repomd.xml"} \subseteq FileNames(n)
       /\ \A r \in Releases : /\ PrimaryName[n][r] \in FileNames(n)
                              /\ PrimaryName[n][r] \notin {"metalink", "repomd.xml"}
  /\ Releases \subseteq Nat /\ NoPrimary \notin Releases
BY ReposAssumption, ReleasesAssumption DEF RepoNames, FileNames

LEMMA FirstRepo == 1 \in DOMAIN Repos /\ Repos[1] \in RepoNames
<1>1. Len(Repos) \in Nat /\ Len(Repos) # 0 /\ DOMAIN Repos = 1..Len(Repos)
  BY ReposAssumption
<1> QED BY <1>1, NamesDiffer

LEMMA AnswersAreContents ==
  /\ {Nothing, Partial} \cup MetalinkAnswers \cup RepomdAnswers \subseteq Contents
  /\ \A n \in RepoNames, r \in Releases : PrimaryAnswers(PrimaryName[n][r]) \subseteq Contents
  /\ Nothing \notin MetalinkAnswers \cup RepomdAnswers
  /\ \A n \in RepoNames, r \in Releases : Nothing \notin PrimaryAnswers(PrimaryName[n][r])
  /\ Nothing # Partial
BY DEF Contents, PrimariesOf, MetalinkAnswers, RepomdAnswers, PrimaryAnswers, Nothing, Partial,
       Garbage, Metalink, Repomd, Primary

\* The file the fetch is at, when it has something to write.
Writes == status = "running" /\ (file = "primary" => release # NoPrimary)

LEMMA FileIsNamed ==
  ASSUME TypeOK, Writes
  PROVE  /\ at \in 1..Len(Repos) /\ Repos[at] \in RepoNames /\ FileName \in FileNames(Repos[at])
         /\ file = "metalink" => FileName = "metalink"
         /\ file = "repomd" => FileName = "repomd.xml"
         /\ file = "primary" => release \in Releases /\ FileName = PrimaryName[Repos[at]][release]
<1>1. at \in 1..Len(Repos)
  BY ReposAssumption DEF TypeOK, Writes
<1>2. Repos[at] \in RepoNames
  BY <1>1, ReposAssumption, NamesDiffer
<1>3. file = "primary" => release \in Releases
  BY DEF TypeOK, Writes
<1> QED BY <1>1, <1>2, <1>3, NamesDiffer DEF FileName, TypeOK

\* Write touches one file of one repository.
LEMMA WriteOne ==
  ASSUME TypeOK, Writes, NEW c \in Contents, Write(c)
  PROVE  /\ DOMAIN cache' = RepoNames
         /\ \A n \in RepoNames : cache'[n] \in [FileNames(n) -> Contents]
         /\ \A n \in RepoNames : \A f \in FileNames(n) :
              cache'[n][f] = IF n = Repos[at] /\ f = FileName THEN c ELSE cache[n][f]
<1> USE FileIsNamed
<1>1. DOMAIN cache = RepoNames /\ \A n \in RepoNames : cache[n] \in [FileNames(n) -> Contents]
  BY DEF TypeOK
<1>2. cache' = [cache EXCEPT ![Repos[at]] = [@ EXCEPT ![FileName] = c]]
  BY DEF Write
<1> HIDE DEF Write
<1> QED BY <1>1, <1>2

\* What may be written into the file the fetch is at.
Fits(c) ==
  \/ c = Partial
  \/ file = "metalink" /\ c \in MetalinkAnswers
  \/ file = "repomd"   /\ c \in RepomdAnswers
  \/ file = "primary"  /\ c \in PrimaryAnswers(PrimaryName[Repos[at]][release])

LEMMA WriteFits ==
  ASSUME TypeOK, FilesHoldTheirKind, Writes, NEW c, Fits(c), Write(c)
  PROVE  /\ c \in Contents
         /\ DOMAIN cache' = RepoNames
         /\ \A n \in RepoNames : cache'[n] \in [FileNames(n) -> Contents]
         /\ FilesHoldTheirKind'
<1> USE FileIsNamed, NamesDiffer
<1>1. c \in Contents
  BY AnswersAreContents DEF Fits, TypeOK
<1>2. \A n \in RepoNames : \A f \in FileNames(n) :
        cache'[n][f] = IF n = Repos[at] /\ f = FileName THEN c ELSE cache[n][f]
  BY <1>1, WriteOne
<1>3. ASSUME NEW n \in RepoNames
      PROVE  /\ cache'[n]["metalink"] \in {Nothing, Partial} \cup MetalinkAnswers
             /\ cache'[n]["repomd.xml"] \in {Nothing, Partial} \cup RepomdAnswers
  BY <1>2 DEF FilesHoldTheirKind, Fits, TypeOK
<1>4. ASSUME NEW n \in RepoNames, NEW r \in Releases
      PROVE  cache'[n][PrimaryName[n][r]] \in {Nothing, Partial} \cup PrimaryAnswers(PrimaryName[n][r])
  <2>1. CASE n = Repos[at] /\ PrimaryName[n][r] = FileName
    <3>1. file = "primary" /\ PrimaryName[n][r] = PrimaryName[n][release]
      BY <2>1 DEF TypeOK
    <3>2. PrimaryAnswers(PrimaryName[n][r]) = PrimaryAnswers(PrimaryName[Repos[at]][release])
      BY <2>1, <3>1 DEF PrimaryAnswers
    <3> QED BY <1>2, <2>1, <3>1, <3>2 DEF Fits
  <2>2. CASE ~(n = Repos[at] /\ PrimaryName[n][r] = FileName)
    BY <1>2, <2>2 DEF FilesHoldTheirKind
  <2> QED BY <2>1, <2>2
<1> QED BY <1>1, <1>3, <1>4, WriteOne DEF FilesHoldTheirKind
-----------------------------------------------------------------------------
\* Types.  TypeOK in parts: an action leaves at least one of them alone.

CacheOK ==
  DOMAIN cache = RepoNames /\ \A n \in RepoNames : cache[n] \in [FileNames(n) -> Contents]
FetcherOK ==
  /\ status \in {"none", "running", "ok", "failed"}
  /\ at \in 0..Len(Repos) /\ (status = "running" => at > 0)
  /\ file \in {"metalink", "repomd", "primary"} /\ stage \in {"get", "copy", "check"}
  /\ body \in Contents /\ (stage # "get" <=> body # Nothing)
  /\ sums \subseteq Releases \cup {NoPrimary} /\ urls \in Nat
  /\ tried \in Seq(Contents) /\ Len(tried) <= urls
  /\ release \in Releases \cup {NoPrimary}
LoaderOK ==
  /\ loading \in {"idle", "primary", "mirrors", "loaded", "failed", "panicked"}
  /\ source \in RepoNames /\ fresh \in BOOLEAN
  /\ listed \in Releases \cup {NoPrimary} /\ loaded \in {Nothing} \cup PrimariesOf(source)

LEMMA TypeParts == TypeOK <=> CacheOK /\ FetcherOK /\ LoaderOK
BY DEF TypeOK, CacheOK, FetcherOK, LoaderOK

\* The three ways in which a step leaves the file the fetch is at.
LEMMA RestartOK ==
  ASSUME NEW i \in 1..(Len(Repos) + 1), Restart(i)
  PROVE  FetcherOK' /\ Place'
<1>1. Len(Repos) \in Nat /\ i \in Nat /\ (i > Len(Repos) \/ i \in DOMAIN Repos)
  BY ReposAssumption
<1>2. Nothing \in Contents /\ NoPrimary \notin Releases
  BY AnswersAreContents, NamesDiffer
<1>3. CASE i > Len(Repos)
  BY <1>1, <1>2, <1>3 DEF Restart, Enter, FetcherOK, Place
<1>4. CASE i \in DOMAIN Repos
  <2>1. i \in 0..Len(Repos) /\ i > 0 /\ ~(i > Len(Repos))
    BY <1>4, ReposAssumption
  <2> QED BY <1>2, <2>1 DEF Restart, Enter, FetcherOK, Place
<1> QED BY <1>1, <1>3, <1>4

LEMMA AbortOK == Abort => FetcherOK' /\ Place'
<1>1. Nothing \in Contents /\ 0 \in 0..Len(Repos)
  BY AnswersAreContents, ReposAssumption
<1> QED BY <1>1 DEF Abort, FetcherOK, Place

LEMMA NextMirrorOK ==
  ASSUME FetcherOK, status = "running", file = "repomd", Len(tried) < urls,
         NEW answer \in Contents, NextMirror(answer)
  PROVE  FetcherOK' /\ Place'
<1>1. Nothing \in Contents
  BY AnswersAreContents
<1>2. tried' \in Seq(Contents) /\ Len(tried') = Len(tried) + 1
  BY DEF NextMirror, FetcherOK
<1> QED BY <1>1, <1>2 DEF NextMirror, FetcherOK, Place

LEMMA AnswerOK ==
  ASSUME TypeOK, FilesHoldTheirKind, Writes, stage = "get", NEW c,
         Fits(c), c # Partial, file = "repomd" => Len(tried) < urls,
         file = "metalink" => Source[Repos[at]] = "metalink" /\ tried = <<>>,
         Answer(c)
  PROVE  CacheOK' /\ FilesHoldTheirKind' /\ FetcherOK' /\ Place'
<1>1. Fits(Partial) /\ Write(Partial)
  BY DEF Fits, Answer
<1>2. CacheOK' /\ FilesHoldTheirKind'
  BY <1>1, WriteFits DEF CacheOK
<1>3. c \in Contents /\ c # Nothing
  BY FileIsNamed, AnswersAreContents DEF Fits
<1>4. FetcherOK'
  BY <1>3, TypeParts DEF Answer, FetcherOK
<1>5. Place'
  BY TypeParts DEF Answer, Fits, Place, Writes, FetcherOK
<1> QED BY <1>2, <1>4, <1>5

LEMMA FetchTypes == Types /\ Fetch => Types'
<1> SUFFICES ASSUME Types, Fetch PROVE Types'
  OBVIOUS
<1>1. 1 \in 1..(Len(Repos) + 1)
  BY ReposAssumption
<1>2. FetcherOK' /\ Place'
  BY <1>1, RestartOK DEF Fetch
<1>3. CacheOK' /\ FilesHoldTheirKind' /\ LoaderOK' /\ Listing'
  BY TypeParts DEF Types, Fetch, CacheOK, LoaderOK, FilesHoldTheirKind, Listing
<1> QED BY <1>2, <1>3, TypeParts DEF Types, TypeOK, CacheOK, FetcherOK, LoaderOK

\* What the steps of a fetch have in common: they leave the loader alone, and
\* most of them the cache.
LEMMA FetcherStep ==
  ASSUME Types, UNCHANGED loader, CacheOK', FilesHoldTheirKind', FetcherOK', Place'
  PROVE  Types'
BY TypeParts DEF Types, TypeOK, CacheOK, FetcherOK, LoaderOK, Listing, loader

LEMMA CacheKept == Types /\ UNCHANGED cache => CacheOK' /\ FilesHoldTheirKind'
BY TypeParts DEF Types, CacheOK, FilesHoldTheirKind

LEMMA GetTypes == Types /\ (GetMetalink \/ GetRepomd \/ GiveUp \/ GetPrimary) => Types'
<1> SUFFICES ASSUME Types, GetMetalink \/ GetRepomd \/ GiveUp \/ GetPrimary PROVE Types'
  OBVIOUS
<1> USE TypeParts DEF Types
<1>1. UNCHANGED loader
  BY DEF GetMetalink, GetRepomd, GiveUp, GetPrimary
<1>2. CASE GetMetalink
  <2>1. CASE Abort /\ UNCHANGED cache
    BY <1>1, <2>1, AbortOK, CacheKept, FetcherStep
  <2>2. ASSUME NEW answer \in MetalinkAnswers, Answer(answer) PROVE Types'
    <3>1. Writes /\ Fits(answer) /\ answer # Partial
      BY <1>2 DEF GetMetalink, At, Writes, Fits, MetalinkAnswers, Garbage, Metalink, Partial
    <3>2. Source[Repos[at]] = "metalink" /\ tried = <<>> /\ stage = "get" /\ file = "metalink"
      BY <1>2 DEF GetMetalink, At, Place
    <3> QED BY <1>1, <2>2, <3>1, <3>2, AnswerOK, FetcherStep
  <2> QED BY <1>2, <2>1, <2>2 DEF GetMetalink
<1>3. CASE GetRepomd
  <2>1. CASE NextMirror(Nothing)
    <3>1. UNCHANGED cache /\ Nothing \in Contents
      BY <2>1, AnswersAreContents DEF NextMirror
    <3> QED BY <1>1, <1>3, <2>1, <3>1, NextMirrorOK, CacheKept, FetcherStep DEF GetRepomd, At
  <2>2. ASSUME NEW answer \in RepomdAnswers, Answer(answer) PROVE Types'
    <3>1. Writes /\ Fits(answer) /\ answer # Partial
      BY <1>3 DEF GetRepomd, At, Writes, Fits, RepomdAnswers, Garbage, Repomd, Partial
    <3>2. stage = "get" /\ file = "repomd" /\ Len(tried) < urls
      BY <1>3 DEF GetRepomd, At
    <3> QED BY <1>1, <2>2, <3>1, <3>2, AnswerOK, FetcherStep
  <2> QED BY <1>3, <2>1, <2>2 DEF GetRepomd
<1>4. CASE GiveUp
  BY <1>1, <1>4, AbortOK, CacheKept, FetcherStep DEF GiveUp
<1>5. CASE GetPrimary
  <2>1. CASE Abort /\ UNCHANGED cache
    BY <1>1, <2>1, AbortOK, CacheKept, FetcherStep
  <2>2. ASSUME release # NoPrimary,
               NEW answer \in PrimaryAnswers(PrimaryName[Repos[at]][release]), Answer(answer)
        PROVE  Types'
    <3>1. Writes /\ Fits(answer) /\ answer # Partial
      BY <1>5, <2>2 DEF GetPrimary, At, Writes, Fits, PrimaryAnswers, Garbage, Primary, Partial
    <3>2. stage = "get" /\ file = "primary"
      BY <1>5 DEF GetPrimary, At
    <3> QED BY <1>1, <2>2, <3>1, <3>2, AnswerOK, FetcherStep
  <2> QED BY <1>5, <2>1, <2>2 DEF GetPrimary
<1> QED BY <1>2, <1>3, <1>4, <1>5

LEMMA CopyTypes == Types /\ (Copy \/ CopyError) => Types'
<1> SUFFICES ASSUME Types, Copy \/ CopyError PROVE Types'
  OBVIOUS
<1> USE TypeParts DEF Types
<1>1. status = "running" /\ stage = "copy" /\ UNCHANGED loader
  BY DEF Copy, CopyError, loader
<1>2. CASE Copy
  <2>1. Writes /\ Fits(body)
    BY <1>1 DEF Writes, Fits, Place, FetcherOK
  <2>2. CacheOK' /\ FilesHoldTheirKind'
    BY <1>2, <2>1, WriteFits DEF Copy, CacheOK
  <2>3. FetcherOK' /\ Place'
    BY <1>1, <1>2 DEF Copy, FetcherOK, Place
  <2> QED BY <1>1, <2>2, <2>3, FetcherStep
<1>3. CASE CopyError
  <2>1. CASE file = "repomd"
    <3>1. NextMirror(Nothing) /\ Len(tried) < urls /\ Nothing \in Contents
      BY <1>1, <1>3, <2>1, AnswersAreContents DEF CopyError, Place
    <3>2. UNCHANGED cache
      BY <3>1 DEF NextMirror
    <3> QED BY <1>1, <2>1, <3>1, <3>2, NextMirrorOK, CacheKept, FetcherStep
  <2>2. CASE file # "repomd"
    BY <1>1, <1>3, <2>2, AbortOK, CacheKept, FetcherStep DEF CopyError
  <2> QED BY <2>1, <2>2
<1> QED BY <1>2, <1>3

LEMMA CheckTypes == Types /\ (CheckMetalink \/ CheckRepomd \/ CheckPrimary) => Types'
<1> SUFFICES ASSUME Types, CheckMetalink \/ CheckRepomd \/ CheckPrimary PROVE Types'
  OBVIOUS
<1> USE TypeParts DEF Types
<1>1. UNCHANGED loader /\ UNCHANGED cache /\ status = "running" /\ stage = "check"
  BY DEF CheckMetalink, CheckRepomd, CheckPrimary, At, loader, NextMirror
<1>2. Nothing \in Contents
  BY AnswersAreContents
<1>3. CASE CheckMetalink
  <2> DEFINE written == cache[Repos[at]]["metalink"]
  <2>1. CASE written[1] = "metalink" /\ written[2].urls > 0 /\ written[2].sums # {}
    <3>1. Repos[at] \in RepoNames
      BY <1>1, <1>3, FileIsNamed DEF CheckMetalink, At, Writes
    <3>2. written \in {Nothing, Partial} \cup MetalinkAnswers
      BY <3>1 DEF FilesHoldTheirKind
    <3>3. PICK m \in Metalinks : written = Metalink(m)
      BY <2>1, <3>2 DEF MetalinkAnswers, Nothing, Partial, Garbage
    <3>4. written[2].sums \subseteq Releases \cup {NoPrimary} /\ written[2].urls \in Nat
      BY <3>3, ReleasesAssumption DEF Metalink
    <3>5. tried = <<>>
      BY <1>3 DEF CheckMetalink, At, Place
    <3>6. /\ file' = "repomd" /\ stage' = "get" /\ body' = Nothing
          /\ sums' = written[2].sums /\ urls' = written[2].urls
          /\ UNCHANGED <<status, at, tried, release>>
      BY <1>3, <2>1 DEF CheckMetalink
    <3> HIDE DEF written
    <3>7. FetcherOK'
      BY <1>2, <3>4, <3>5, <3>6 DEF FetcherOK
    <3>8. Place'
      BY <3>6, <1>1 DEF Place
    <3> QED BY <1>1, <3>7, <3>8, CacheKept, FetcherStep
  <2>2. CASE ~(written[1] = "metalink" /\ written[2].urls > 0 /\ written[2].sums # {})
    BY <1>1, <1>3, <2>2, AbortOK, CacheKept, FetcherStep DEF CheckMetalink
  <2> QED BY <2>1, <2>2
<1>4. CASE CheckRepomd
  <2>1. file = "repomd" /\ body \in RepomdAnswers /\ Len(tried) < urls /\ body \in Contents
    BY <1>4 DEF CheckRepomd, At, Place, FetcherOK
  <2>2. CASE Acceptable(body)
    <3>1. PICK r \in Releases \cup {NoPrimary} : body = Repomd(r)
      BY <2>1, <2>2 DEF Acceptable, RepomdAnswers, Garbage
    <3>2. /\ release' = r /\ file' = "primary" /\ stage' = "get" /\ body' = Nothing
          /\ UNCHANGED <<status, at, sums, urls, tried>>
      BY <1>4, <2>2, <3>1 DEF CheckRepomd, Repomd
    <3>3. FetcherOK' /\ Place'
      BY <1>1, <1>2, <3>2 DEF FetcherOK, Place
    <3> QED BY <1>1, <3>3, CacheKept, FetcherStep
  <2>3. CASE ~Acceptable(body)
    <3>1. NextMirror(body)
      BY <1>4, <2>3 DEF CheckRepomd
    <3> QED BY <1>1, <2>1, <3>1, NextMirrorOK, CacheKept, FetcherStep
  <2> QED BY <2>2, <2>3
<1>5. CASE CheckPrimary
  <2>1. at + 1 \in 1..(Len(Repos) + 1)
    BY <1>1, ReposAssumption DEF FetcherOK
  <2>2. CASE Restart(at + 1)
    BY <1>1, <2>1, <2>2, RestartOK, CacheKept, FetcherStep
  <2>3. CASE Abort
    BY <1>1, <2>3, AbortOK, CacheKept, FetcherStep
  <2> QED BY <1>5, <2>2, <2>3 DEF CheckPrimary
<1> QED BY <1>3, <1>4, <1>5

LEMMA KilledTypes == Types /\ Killed => Types'
<1>1. Killed => Abort /\ UNCHANGED loader /\ UNCHANGED cache
  BY DEF Killed
<1> QED BY <1>1, AbortOK, CacheKept, FetcherStep

\* What a load reads from a file has the type of what was written there.
LEMMA LoadTypes ==
  Types /\ ((\E n \in RepoNames : LoadRepomd(n)) \/ LoadStep \/ LoadEnd) => Types'
<1> SUFFICES ASSUME Types, (\E n \in RepoNames : LoadRepomd(n)) \/ LoadStep \/ LoadEnd PROVE Types'
  OBVIOUS
<1> USE TypeParts DEF Types
<1>1. UNCHANGED <<cache, fetcher>>
  BY DEF LoadRepomd, LoadStep, LoadPrimary, LoadMirrors, LoadEnd
<1>2. CacheOK' /\ FilesHoldTheirKind' /\ FetcherOK' /\ Place'
  BY <1>1, CacheKept DEF fetcher, FetcherOK, Place
<1>3. LoaderOK'
  <2>1. ASSUME NEW n \in RepoNames, LoadRepomd(n) PROVE LoaderOK'
    <3> DEFINE read == cache[n]["repomd.xml"]
    <3>1. read[1] = "repomd" => read[2] \in Releases \cup {NoPrimary}
      <4>1. read \in {Nothing, Partial} \cup RepomdAnswers
        BY DEF FilesHoldTheirKind
      <4> QED BY <4>1 DEF RepomdAnswers, Nothing, Partial, Garbage, Repomd
    <3> QED BY <2>1, <3>1 DEF LoadRepomd, LoaderOK
  <2>2. CASE LoadPrimary
    <3> DEFINE read == Read(PrimaryName[source][listed])
    <3>1. read[1] = "primary" => read \in PrimariesOf(source)
      <4> SUFFICES ASSUME read[1] = "primary" PROVE read \in PrimariesOf(source)
        OBVIOUS
      <4>1. listed \in Releases
        BY <2>2 DEF LoadPrimary, Listing, LoaderOK
      <4>2. read \in {Nothing, Partial} \cup PrimaryAnswers(PrimaryName[source][listed])
        BY <4>1 DEF FilesHoldTheirKind, Read, LoaderOK
      <4> QED BY <4>1, <4>2 DEF PrimaryAnswers, PrimariesOf, Nothing, Partial, Garbage, Primary
    <3> HIDE DEF read
    <3> QED BY <2>2, <3>1 DEF LoadPrimary, LoaderOK, PrimariesOf, read
  <2>3. CASE LoadMirrors
    BY <2>3 DEF LoadMirrors, LoaderOK
  <2>4. CASE LoadEnd
    BY <2>4, FirstRepo DEF LoadEnd, LoaderOK
  <2> QED BY <2>1, <2>2, <2>3, <2>4 DEF LoadStep
<1>4. Listing'
  BY DEF LoadRepomd, LoadStep, LoadPrimary, LoadMirrors, LoadEnd, Listing
<1> QED BY <1>2, <1>3, <1>4 DEF TypeOK, CacheOK, FetcherOK, LoaderOK, Types

LEMMA TypesInductive == Types /\ [Next]_vars => Types'
<1>1. Types /\ UNCHANGED vars => Types'
  BY DEF Types, TypeOK, FilesHoldTheirKind, Place, Listing, vars, fetcher, loader
<1> QED BY <1>1, FetchTypes, GetTypes, CopyTypes, CheckTypes, KilledTypes, LoadTypes DEF Next, FetchStep

LEMMA TypesAlways == Spec => []Types
<1>1. Init => Types
  <2> SUFFICES ASSUME Init PROVE Types
    OBVIOUS
  <2>1. CacheOK /\ FilesHoldTheirKind
    BY NamesDiffer, AnswersAreContents DEF Init, CacheOK, FilesHoldTheirKind
  <2>2. FetcherOK /\ Place
    BY AnswersAreContents, ReposAssumption DEF Init, FetcherOK, Place
  <2>3. LoaderOK /\ Listing
    BY FirstRepo DEF Init, LoaderOK, Listing
  <2> QED BY <2>1, <2>2, <2>3, TypeParts DEF Types
<1> QED BY <1>1, TypesInductive, PTL DEF Spec

\* Every file holds metadata of its own kind, and the fetch never tries more
\* mirrors than there are (TypeOK of RepoCache).
THEOREM TypeCorrect == Spec => []TypeOK
BY TypesAlways, PTL DEF Types
-----------------------------------------------------------------------------
\* What the fetch has verified stays verified while it goes on.

Sound == Verified /\ FetchedIsComplete

LEMMA ListedRelease ==
  ASSUME Types, NEW n \in RepoNames, cache[n]["repomd.xml"][1] = "repomd",
         cache[n]["repomd.xml"][2] # NoPrimary
  PROVE  /\ cache[n]["repomd.xml"] = Repomd(cache[n]["repomd.xml"][2])
         /\ cache[n]["repomd.xml"][2] \in Releases
<1>1. cache[n]["repomd.xml"] \in {Nothing, Partial} \cup RepomdAnswers
  BY DEF Types, FilesHoldTheirKind
<1> QED BY <1>1 DEF RepomdAnswers, Nothing, Partial, Garbage, Repomd

LEMMA CompleteKept ==
  ASSUME Types, NEW n \in RepoNames, Complete(n),
         \A f \in FileNames(n) : cache'[n][f] = cache[n][f]
  PROVE  Complete(n)'
<1>1. cache[n]["repomd.xml"][2] \in Releases
  BY ListedRelease DEF Complete
<1>2. /\ cache'[n]["repomd.xml"] = cache[n]["repomd.xml"]
      /\ cache'[n]["metalink"] = cache[n]["metalink"]
      /\ cache'[n][PrimaryName[n][cache[n]["repomd.xml"][2]]]
           = cache[n][PrimaryName[n][cache[n]["repomd.xml"][2]]]
  BY <1>1, NamesDiffer
<1> QED BY <1>2 DEF Complete

\* The repositories before the one the fetch is at are not written to.
LEMMA EarlierKept ==
  ASSUME Types, Sound, Writes, NEW c \in Contents, Write(c)
  PROVE  \A i \in 1..(at - 1) : Complete(Repos[i])'
<1> SUFFICES ASSUME NEW i \in 1..(at - 1) PROVE Complete(Repos[i])'
  OBVIOUS
<1>1. at \in 1..Len(Repos) /\ FileName \in FileNames(Repos[at])
  BY FileIsNamed DEF Types
<1>2. i \in DOMAIN Repos /\ at \in DOMAIN Repos /\ i # at
  BY <1>1, ReposAssumption
<1>3. Repos[i] \in RepoNames /\ Repos[i] # Repos[at]
  BY <1>2, ReposAssumption, NamesDiffer
<1>4. Complete(Repos[i])
  BY DEF Sound, Verified, Writes
<1>5. \A f \in FileNames(Repos[i]) : cache'[Repos[i]][f] = cache[Repos[i]][f]
  BY <1>3, WriteOne DEF Types
<1> QED BY <1>3, <1>4, <1>5, CompleteKept

\* Nothing is forgotten when the cache stays as it is.
LEMMA SameCacheSameComplete ==
  ASSUME UNCHANGED cache, NEW n
  PROVE  Complete(n)' <=> Complete(n)
BY DEF Complete

\* A write into the file the fetch is at: it leaves the files it has verified.
LEMMA WriteSound ==
  ASSUME Types, Sound, Writes, NEW c \in Contents, Write(c),
         UNCHANGED <<status, at, file, sums, release>>,
         stage' = "check" => body' = c
  PROVE  Sound'
<1> USE FileIsNamed, NamesDiffer DEF Types
<1>1. status = "running" /\ status' = "running" /\ at \in DOMAIN Repos
  BY ReposAssumption DEF Writes
<1>2. \A f \in FileNames(Repos[at]) :
        cache'[Repos[at]][f] = IF f = FileName THEN c ELSE cache[Repos[at]][f]
  BY WriteOne
<1>3. MetalinkVerified'
  <2> SUFFICES ASSUME file # "metalink", Source[Repos[at]] = "metalink" PROVE MetalinkVerified'
    BY DEF MetalinkVerified
  <2>1. FileName # "metalink"
    BY DEF TypeOK
  <2>2. cache'[Repos[at]]["metalink"] = cache[Repos[at]]["metalink"]
    BY <1>2, <2>1
  <2> QED BY <1>1, <2>2 DEF Sound, Verified, MetalinkVerified
<1>4. RepomdVerified'
  <2> SUFFICES ASSUME file = "primary" PROVE RepomdVerified'
    BY DEF RepomdVerified
  <2>1. cache'[Repos[at]]["repomd.xml"] = cache[Repos[at]]["repomd.xml"]
    BY <1>2
  <2> QED BY <1>1, <2>1 DEF Sound, Verified, RepomdVerified
<1>5. BodyCopied'
  <2>1. FileName' = FileName
    BY DEF FileName
  <2> QED BY <1>2, <2>1 DEF BodyCopied
<1>6. \A i \in 1..(at - 1) : Complete(Repos[i])'
  BY EarlierKept
<1> QED BY <1>1, <1>3, <1>4, <1>5, <1>6 DEF Sound, Verified, FetchedIsComplete

\* The fetch comes to a repository of which it knows nothing.
LEMMA RestartSound ==
  ASSUME Types, UNCHANGED cache, NEW i \in 1..(Len(Repos) + 1), Restart(i),
         \A j \in 1..(i - 1) : Complete(Repos[j])
  PROVE  Sound'
<1>1. Len(Repos) \in Nat
  BY ReposAssumption
<1>2. \A j \in 1..(i - 1) : Complete(Repos[j])'
  BY SameCacheSameComplete
<1>3. CASE i > Len(Repos)
  <2>1. status' = "ok" /\ \A j \in DOMAIN Repos : Complete(Repos[j])'
    BY <1>1, <1>2, <1>3, ReposAssumption DEF Restart, Enter
  <2> QED BY <2>1 DEF Sound, Verified, FetchedIsComplete, RepoNames
<1>4. CASE ~(i > Len(Repos))
  <2>1. /\ status' = "running" /\ at' = i /\ stage' = "get"
        /\ file' = IF Source[Repos[i]] = "metalink" THEN "metalink" ELSE "repomd"
    BY <1>4 DEF Restart, Enter
  <2>2. MetalinkVerified' /\ RepomdVerified' /\ BodyCopied'
    BY <2>1 DEF MetalinkVerified, RepomdVerified, BodyCopied
  <2> QED BY <1>2, <2>1, <2>2 DEF Sound, Verified, FetchedIsComplete
<1> QED BY <1>3, <1>4

LEMMA AbortSound == Abort => Sound'
BY DEF Abort, Sound, Verified, FetchedIsComplete

\* The fetch stays where it is and looks at no file.
LEMMA GoOnSound ==
  ASSUME Types, Sound, status = "running", UNCHANGED <<cache, status, at, file, sums, release>>,
         stage' = "get"
  PROVE  Sound'
<1>1. \A i \in 1..(at - 1) : Complete(Repos[i])'
  BY SameCacheSameComplete DEF Sound, Verified
<1>2. MetalinkVerified' /\ RepomdVerified' /\ BodyCopied'
  BY DEF Sound, Verified, MetalinkVerified, RepomdVerified, BodyCopied
<1> QED BY <1>1, <1>2 DEF Sound, Verified, FetchedIsComplete

LEMMA GetSound == Types /\ Sound /\ (GetMetalink \/ GetRepomd \/ GiveUp \/ GetPrimary) => Sound'
<1> SUFFICES ASSUME Types, Sound, GetMetalink \/ GetRepomd \/ GiveUp \/ GetPrimary PROVE Sound'
  OBVIOUS
<1>1. ASSUME NEW c, Writes, Answer(c) PROVE Sound'
  BY <1>1, WriteSound, AnswersAreContents DEF Answer
<1>2. ASSUME status = "running", NEW c, NextMirror(c) PROVE Sound'
  BY <1>2, GoOnSound DEF NextMirror
<1>3. CASE GetMetalink
  BY <1>1, <1>3, AbortSound DEF GetMetalink, At, Writes
<1>4. CASE GetRepomd
  BY <1>1, <1>2, <1>4 DEF GetRepomd, At, Writes
<1>5. CASE GiveUp
  BY <1>5, AbortSound DEF GiveUp
<1>6. CASE GetPrimary
  BY <1>1, <1>6, AbortSound DEF GetPrimary, At, Writes
<1> QED BY <1>3, <1>4, <1>5, <1>6

LEMMA CopySound == Types /\ Sound /\ (Copy \/ CopyError) => Sound'
<1> SUFFICES ASSUME Types, Sound, Copy \/ CopyError PROVE Sound'
  OBVIOUS
<1>1. CASE Copy
  <2>1. Writes /\ body \in Contents /\ Write(body) /\ body' = body
    BY <1>1 DEF Copy, Writes, Types, TypeOK, Place
  <2> QED BY <1>1, <2>1, WriteSound DEF Copy
<1>2. CASE CopyError
  BY <1>2, GoOnSound, AbortSound DEF CopyError, NextMirror
<1> QED BY <1>1, <1>2

LEMMA CheckMetalinkSound == Types /\ Sound /\ CheckMetalink => Sound'
<1> SUFFICES ASSUME Types, Sound, CheckMetalink PROVE Sound'
  OBVIOUS
<1> DEFINE written == cache[Repos[at]]["metalink"]
<1>1. CASE written[1] = "metalink" /\ written[2].urls > 0 /\ written[2].sums # {}
  <2>1. /\ file' = "repomd" /\ stage' = "get" /\ sums' = written[2].sums
        /\ UNCHANGED <<cache, status, at>> /\ status = "running"
    BY <1>1 DEF CheckMetalink, At
  <2>2. \A i \in 1..(at - 1) : Complete(Repos[i])'
    BY <2>1, SameCacheSameComplete DEF Sound, Verified
  <2>3. MetalinkVerified' /\ RepomdVerified' /\ BodyCopied'
    BY <1>1, <2>1 DEF MetalinkVerified, RepomdVerified, BodyCopied
  <2> QED BY <2>1, <2>2, <2>3 DEF Sound, Verified, FetchedIsComplete
<1>2. CASE ~(written[1] = "metalink" /\ written[2].urls > 0 /\ written[2].sums # {})
  BY <1>2, AbortSound DEF CheckMetalink
<1> QED BY <1>1, <1>2

\* The repomd.xml accepted is the one that has been copied.
LEMMA CheckRepomdSound == Types /\ Sound /\ CheckRepomd => Sound'
<1> SUFFICES ASSUME Types, Sound, CheckRepomd PROVE Sound'
  OBVIOUS
<1>1. status = "running" /\ file = "repomd" /\ stage = "check"
  BY DEF CheckRepomd, At
<1>2. CASE Acceptable(body)
  <2>1. /\ release' = body[2] /\ file' = "primary" /\ stage' = "get"
        /\ UNCHANGED <<cache, status, at, sums>>
    BY <1>2 DEF CheckRepomd
  <2>2. cache[Repos[at]]["repomd.xml"] = body
    BY <1>1 DEF Sound, Verified, BodyCopied, FileName
  <2>3. body = Repomd(body[2]) /\ (sums # {} => body[2] \in sums)
    BY <1>1, <1>2 DEF Acceptable, Types, Place, RepomdAnswers, Garbage, Repomd
  <2>4. \A i \in 1..(at - 1) : Complete(Repos[i])'
    BY <1>1, <2>1, SameCacheSameComplete DEF Sound, Verified
  <2>5. MetalinkVerified' /\ RepomdVerified' /\ BodyCopied'
    BY <1>1, <2>1, <2>2, <2>3 DEF Sound, Verified, MetalinkVerified, RepomdVerified, BodyCopied
  <2> QED BY <1>1, <2>1, <2>4, <2>5 DEF Sound, Verified, FetchedIsComplete
<1>3. CASE ~Acceptable(body)
  BY <1>1, <1>3, GoOnSound DEF CheckRepomd, NextMirror
<1> QED BY <1>2, <1>3

\* With its primary file a repository is complete.
LEMMA CheckPrimarySound == Types /\ Sound /\ CheckPrimary => Sound'
<1> SUFFICES ASSUME Types, Sound, CheckPrimary PROVE Sound'
  OBVIOUS
<1>1. status = "running" /\ file = "primary" /\ stage = "check" /\ UNCHANGED cache
  BY DEF CheckPrimary, At
<1>2. CASE body = Listed(Repos[at], release)
  <2>1. release # NoPrimary /\ Writes
    BY <1>1 DEF Types, Place, Writes
  <2>2. cache[Repos[at]][PrimaryName[Repos[at]][release]] = Listed(Repos[at], release)
    BY <1>1, <1>2 DEF Sound, Verified, BodyCopied, FileName
  <2>3. /\ cache[Repos[at]]["repomd.xml"] = Repomd(release)
        /\ sums # {} => release \in sums
        /\ Source[Repos[at]] = "metalink" =>
             /\ cache[Repos[at]]["metalink"][1] = "metalink"
             /\ sums = cache[Repos[at]]["metalink"][2].sums /\ sums # {}
    BY <1>1 DEF Sound, Verified, RepomdVerified, MetalinkVerified
  <2>4. Complete(Repos[at])
    BY <2>1, <2>2, <2>3 DEF Complete, Repomd
  <2>5. at \in 1..Len(Repos) /\ Len(Repos) \in Nat
    BY <2>1, FileIsNamed, ReposAssumption DEF Types
  <2>6. \A j \in 1..((at + 1) - 1) : Complete(Repos[j])
    <3>1. \A j \in 1..((at + 1) - 1) : j = at \/ j \in 1..(at - 1)
      BY <2>5
    <3> QED BY <1>1, <2>4, <3>1 DEF Sound, Verified
  <2>7. at + 1 \in 1..(Len(Repos) + 1)
    BY <2>5
  <2> QED BY <1>1, <1>2, <2>6, <2>7, RestartSound DEF CheckPrimary, Listed
<1>3. CASE body # Listed(Repos[at], release)
  BY <1>3, AbortSound DEF CheckPrimary, Listed
<1> QED BY <1>2, <1>3

LEMMA SoundInductive == Types /\ Sound /\ [Next]_vars => Sound'
<1> SUFFICES ASSUME Types, Sound, [Next]_vars PROVE Sound'
  OBVIOUS
<1>1. CASE Fetch
  <2>1. 1 \in 1..(Len(Repos) + 1) /\ 1..(1 - 1) = {}
    BY ReposAssumption
  <2> QED BY <1>1, <2>1, RestartSound DEF Fetch
<1>2. CASE Killed
  BY <1>2, AbortSound DEF Killed
<1>3. ASSUME UNCHANGED <<cache, fetcher>> PROVE Sound'
  BY <1>3 DEF Sound, Verified, FetchedIsComplete, Complete, MetalinkVerified, RepomdVerified,
              BodyCopied, FileName, fetcher
<1>4. ASSUME (\E n \in RepoNames : LoadRepomd(n)) \/ LoadStep \/ LoadEnd \/ UNCHANGED vars
      PROVE  Sound'
  BY <1>3, <1>4 DEF LoadRepomd, LoadStep, LoadPrimary, LoadMirrors, LoadEnd, vars
<1> QED BY <1>1, <1>2, <1>4, GetSound, CopySound, CheckMetalinkSound, CheckRepomdSound,
           CheckPrimarySound DEF Next, FetchStep

LEMMA SoundAlways == Spec => [](Types /\ Sound)
<1>1. Init => Sound
  BY DEF Init, Sound, Verified, FetchedIsComplete
<1> QED BY <1>1, TypesAlways, SoundInductive, PTL DEF Spec

\* A fetch that reports success leaves every repository with the metadata of one
\* release that its metalink vouches for, whatever fetches, kills and answers
\* went before (FetchedIsComplete of RepoCache).
THEOREM FetchCompletes == Spec => []FetchedIsComplete
BY SoundAlways, PTL DEF Sound
-----------------------------------------------------------------------------
\* The mirrors.

LEMMA MirrorsInductive == Types /\ NoneAcceptable /\ [Next]_vars => NoneAcceptable'
<1> SUFFICES ASSUME Types, NoneAcceptable, [Next]_vars PROVE NoneAcceptable'
  OBVIOUS
<1> USE DEF NoneAcceptable
<1>1. tried \in Seq(Contents)
  BY DEF Types, TypeOK
<1>2. ASSUME NEW answer, NextMirror(answer), ~Acceptable(answer) PROVE NoneAcceptable'
  <2>1. tried' = Append(tried, answer) /\ UNCHANGED <<status, file, sums>>
    BY <1>2 DEF NextMirror
  <2>2. \A i \in DOMAIN tried' : (i \in DOMAIN tried /\ tried'[i] = tried[i]) \/ tried'[i] = answer
    BY <1>1, <2>1
  <2> QED BY <1>2, <2>1, <2>2 DEF Acceptable
<1>3. ~Acceptable(Nothing)
  BY DEF Acceptable, Nothing
<1>4. ASSUME UNCHANGED <<status, file, sums, tried>> PROVE NoneAcceptable'
  BY <1>4 DEF Acceptable
<1>5. ASSUME tried' = <<>> \/ status' # "running" \/ file' # "repomd" PROVE NoneAcceptable'
  BY <1>5
<1>6. CASE Fetch
  BY <1>5, <1>6 DEF Fetch, Restart
<1>7. CASE GetMetalink
  BY <1>4, <1>5, <1>7 DEF GetMetalink, Abort, Answer
<1>8. CASE GetRepomd
  BY <1>2, <1>3, <1>4, <1>8 DEF GetRepomd, Answer
<1>9. CASE GiveUp \/ Killed
  BY <1>5, <1>9 DEF GiveUp, Killed, Abort
<1>10. CASE GetPrimary
  BY <1>4, <1>5, <1>10 DEF GetPrimary, Abort, Answer
<1>11. CASE Copy
  BY <1>4, <1>11 DEF Copy
<1>12. CASE CopyError
  BY <1>2, <1>3, <1>5, <1>12 DEF CopyError, Abort
<1>13. CASE CheckMetalink
  <2>1. tried = <<>>
    BY <1>13 DEF CheckMetalink, At, Types, Place
  <2> QED BY <1>5, <1>13, <2>1 DEF CheckMetalink, Abort
<1>14. CASE CheckRepomd
  BY <1>2, <1>5, <1>14 DEF CheckRepomd
<1>15. CASE CheckPrimary
  BY <1>5, <1>15 DEF CheckPrimary, Restart, Abort
<1>16. CASE (\E n \in RepoNames : LoadRepomd(n)) \/ LoadStep \/ LoadEnd \/ UNCHANGED vars
  BY <1>4, <1>16 DEF LoadRepomd, LoadStep, LoadPrimary, LoadMirrors, LoadEnd, vars, fetcher
<1> QED BY <1>6, <1>7, <1>8, <1>9, <1>10, <1>11, <1>12, <1>13, <1>14, <1>15, <1>16 DEF Next, FetchStep

\* A fetch never gives up while a mirror has offered a repomd.xml that would do,
\* and asks none beyond the last (MirrorsTried of RepoCache).
THEOREM NoMirrorPassedOver == Spec => []MirrorsTried
<1>1. Init => NoneAcceptable
  BY DEF Init, NoneAcceptable
<1>2. Types /\ NoneAcceptable => MirrorsTried
  BY DEF Types, NoneAcceptable, MirrorsTried, NoMirrorOverlooked, At
<1> QED BY <1>1, <1>2, TypesAlways, MirrorsInductive, PTL DEF Spec

\* Primary files are only written for the release of the repomd.xml accepted
\* (PrimariesOutliveMirrors of RepoCache).
THEOREM PrimariesSurvive == Spec => PrimariesOutliveMirrors
<1> DEFINE Step ==
      \A n \in RepoNames : \A r \in Releases :
        cache'[n][PrimaryName[n][r]] # cache[n][PrimaryName[n][r]]
        => release # NoPrimary /\ PrimaryName[n][release] = PrimaryName[n][r] /\ n = Repos[at]
<1>1. ASSUME Types, [Next]_vars PROVE Step
  <2> USE <1>1, NamesDiffer
  <2>1. ASSUME UNCHANGED cache PROVE Step
    BY <2>1
  <2>2. ASSUME Writes, NEW c \in Contents, Write(c) PROVE Step
    <3> SUFFICES ASSUME NEW n \in RepoNames, NEW r \in Releases,
                        cache'[n][PrimaryName[n][r]] # cache[n][PrimaryName[n][r]]
                 PROVE  release # NoPrimary /\ PrimaryName[n][release] = PrimaryName[n][r]
                        /\ n = Repos[at]
      OBVIOUS
    <3>1. n = Repos[at] /\ PrimaryName[n][r] = FileName
      BY <2>2, WriteOne DEF Types
    <3>2. file = "primary"
      BY <2>2, <3>1, FileIsNamed DEF Types, TypeOK
    <3> QED BY <2>2, <3>1, <3>2, FileIsNamed DEF Types, Writes
  <2>3. ASSUME Writes, NEW c, Answer(c) PROVE Step
    BY <2>2, <2>3, AnswersAreContents DEF Answer
  <2>4. CASE Fetch \/ GiveUp \/ CopyError \/ CheckMetalink \/ CheckRepomd \/ CheckPrimary \/ Killed
    BY <2>1, <2>4 DEF Fetch, GiveUp, CopyError, CheckMetalink, CheckRepomd, CheckPrimary, Killed,
                      NextMirror
  <2>5. CASE GetMetalink
    BY <2>1, <2>3, <2>5 DEF GetMetalink, At, Writes
  <2>6. CASE GetRepomd
    BY <2>1, <2>3, <2>6 DEF GetRepomd, At, Writes, NextMirror
  <2>7. CASE GetPrimary
    BY <2>1, <2>3, <2>7 DEF GetPrimary, At, Writes
  <2>8. CASE Copy
    BY <2>2, <2>8 DEF Copy, Writes, Types, TypeOK, Place
  <2>9. CASE (\E n \in RepoNames : LoadRepomd(n)) \/ LoadStep \/ LoadEnd \/ UNCHANGED vars
    BY <2>1, <2>9 DEF LoadRepomd, LoadStep, LoadPrimary, LoadMirrors, LoadEnd, vars
  <2> QED BY <2>4, <2>5, <2>6, <2>7, <2>8, <2>9 DEF Next, FetchStep
<1> QED BY <1>1, TypesAlways, PTL DEF Spec, PrimariesOutliveMirrors
-----------------------------------------------------------------------------
\* The process that loads.

\* While it has read repomd.xml and looks for the primary file, the fetch may
\* replace either: the name listed is all that ties them together.
LEMMA LoadingInductive == Types /\ Loading /\ [Next]_vars => Loading'
<1> SUFFICES ASSUME Types, Loading, [Next]_vars PROVE Loading'
  OBVIOUS
<1>1. ASSUME UNCHANGED <<loading, source, listed, loaded>> PROVE Loading'
  BY <1>1 DEF Loading
<1>2. CASE Fetch \/ FetchStep \/ Killed \/ UNCHANGED vars
  BY <1>1, <1>2 DEF Fetch, FetchStep, GetMetalink, GetRepomd, GiveUp, GetPrimary, Copy, CopyError,
                    CheckMetalink, CheckRepomd, CheckPrimary, Killed, loader, vars
<1>3. ASSUME NEW n \in RepoNames, LoadRepomd(n) PROVE Loading'
  BY <1>3 DEF LoadRepomd, Loading
<1>4. CASE LoadPrimary
  <2> DEFINE read == Read(PrimaryName[source][listed])
  <2>1. CASE read[1] # "primary"
    BY <1>4, <2>1 DEF LoadPrimary, Loading
  <2>2. CASE read[1] = "primary"
    <3>1. listed \in Releases /\ source \in RepoNames
      BY <1>4 DEF LoadPrimary, Types, Listing, TypeOK
    <3>2. read \in {Nothing, Partial} \cup PrimaryAnswers(PrimaryName[source][listed])
      BY <3>1 DEF Types, FilesHoldTheirKind, Read
    <3>3. read[3] = PrimaryName[source][listed]
      BY <2>2, <3>2 DEF PrimaryAnswers, Nothing, Partial, Garbage, Primary
    <3>4. /\ loading' = IF Source[source] = "metalink" THEN "mirrors" ELSE "loaded"
          /\ loaded' = read /\ UNCHANGED <<source, listed>>
      BY <1>4, <2>2 DEF LoadPrimary
    <3> HIDE DEF read
    <3> QED BY <3>1, <3>3, <3>4 DEF Loading
  <2> QED BY <2>1, <2>2
<1>5. CASE LoadMirrors
  BY <1>5 DEF LoadMirrors, Loading
<1>6. CASE LoadEnd
  BY <1>6 DEF LoadEnd, Loading
<1> QED BY <1>2, <1>3, <1>4, <1>5, <1>6 DEF Next, LoadStep

\* A load that succeeds has read what a server gave when asked for the file its
\* repomd.xml lists, also in the middle of a fetch (LoadMatches of RepoCache).
THEOREM LoadsMatch == Spec => []LoadMatches
<1>1. Init => Loading
  BY DEF Init, Loading
<1>2. Loading => LoadMatches
  BY DEF Loading, LoadMatches
<1> QED BY <1>1, <1>2, TypesAlways, LoadingInductive, PTL DEF Spec

\* After a fetch nothing changes under a load.
LEMMA ReadingInductive == Types /\ Sound /\ Loading /\ Reading /\ [Next]_vars => Reading'
<1> SUFFICES ASSUME Types, Sound, Loading, Reading, [Next]_vars PROVE Reading'
  OBVIOUS
<1>1. CASE Fetch
  BY <1>1 DEF Fetch, Reading
<1>2. CASE FetchStep \/ Killed
  <2>1. status = "running" /\ UNCHANGED fresh
    BY <1>2 DEF FetchStep, GetMetalink, GetRepomd, GiveUp, GetPrimary, Copy, CopyError,
                CheckMetalink, CheckRepomd, CheckPrimary, Killed, At, loader
  <2> QED BY <2>1 DEF Reading
<1>3. CASE UNCHANGED vars
  BY <1>3 DEF Reading, vars, fetcher, loader
<1>4. ASSUME NEW n \in RepoNames, LoadRepomd(n) PROVE Reading'
  <2>1. source' = n /\ fresh' = (status = "ok") /\ UNCHANGED <<cache, status>>
    BY <1>4 DEF LoadRepomd, fetcher
  <2>2. CASE status = "ok"
    <3>1. Complete(n)
      BY <2>2 DEF Sound, FetchedIsComplete
    <3>2. cache[n]["repomd.xml"] = Repomd(cache[n]["repomd.xml"][2])
      BY <3>1, ListedRelease DEF Complete
    <3>3. loading' = "primary" /\ listed' = cache[n]["repomd.xml"][2]
      BY <1>4, <3>1 DEF LoadRepomd, Complete
    <3> QED BY <2>1, <2>2, <3>2, <3>3 DEF Reading
  <2>3. CASE status # "ok"
    BY <2>1, <2>3 DEF Reading
  <2> QED BY <2>2, <2>3
<1>5. ASSUME fresh PROVE Complete(source)
  BY <1>5 DEF Reading, Sound, FetchedIsComplete, Types, TypeOK
<1>6. CASE LoadPrimary
  <2>1. UNCHANGED <<cache, status, source, listed, fresh>>
    BY <1>6 DEF LoadPrimary, fetcher
  <2>2. ASSUME fresh PROVE Reading'
    <3>1. cache[source]["repomd.xml"] = Repomd(listed)
      BY <1>6, <2>2 DEF LoadPrimary, Reading
    <3>2. Read(PrimaryName[source][listed]) = Listed(source, listed)
      BY <1>5, <2>2, <3>1 DEF Complete, Read, Repomd
    <3>3. loaded' = Listed(source, listed) /\ loading' \in {"mirrors", "loaded"}
      BY <1>6, <3>2 DEF LoadPrimary, Listed, Primary
    <3> QED BY <2>1, <2>2, <3>1, <3>3 DEF Reading
  <2> QED BY <2>1, <2>2 DEF Reading
<1>7. CASE LoadMirrors
  <2>1. UNCHANGED <<cache, status, source, listed, loaded, fresh>>
    BY <1>7 DEF LoadMirrors, fetcher
  <2>2. ASSUME fresh PROVE loading' = "loaded"
    BY <1>5, <1>7, <2>2 DEF LoadMirrors, Loading, Complete, Read
  <2> QED BY <1>7, <2>1, <2>2 DEF Reading, LoadMirrors
<1>8. CASE LoadEnd
  BY <1>8 DEF LoadEnd, Reading
<1> QED BY <1>1, <1>2, <1>3, <1>4, <1>6, <1>7, <1>8 DEF Next, LoadStep

\* A load begun after a successful fetch does not fail, and loads what was verified
\* (LoadAfterFetch of RepoCache).
THEOREM LoadsAfterFetch == Spec => []LoadAfterFetch
<1>1. Init => Loading /\ Reading
  BY DEF Init, Loading, Reading
<1>2. Reading => LoadAfterFetch
  BY DEF Reading, LoadAfterFetch
<1> QED BY <1>1, <1>2, SoundAlways, LoadingInductive, ReadingInductive, PTL DEF Spec
=============================================================================

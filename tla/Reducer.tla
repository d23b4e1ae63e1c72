------------------------------ MODULE Reducer ------------------------------
(***************************************************************************)
(* RepoReducer.Resolve of pkg/reducer/reducer.go: the preflight filter      *)
(* that keeps, of all packages of all repositories, those that can be       *)
(* involved in installing the requested ones.  An iteration over a Go map   *)
(* is a choice, step by step, among the keys that are left.                 *)
(***************************************************************************)
EXTENDS PackageInfo, SequencesExt

CONSTANT Inputs   \* the calls considered
ASSUME InputsAssumption == Inputs \subseteq Input

VARIABLES
  pc,          \* the loop that is running
  i,           \* the request the first loop is at
  discovered,  \* api.PackageKey -> package, as a function on the keys present
  matched,     \* the names returned to the caller
  pinned,      \* the names (keys of the map) that were asked for explicitly
  current,     \* the keys of `discovered` when the round began
  todo,        \* the keys of `current` the round has not visited
  provides     \* what each involved package still provides, [] before the end

vars == <<input, pc, i, discovered, matched, pinned, current, todo, provides>>

\* discovered after the loop over the candidates: under each key the package
\* of the best repository, the one found first where priorities are equal.
Preferred(disc, cand, k) ==
  LET old  == IF k \in DOMAIN disc THEN {disc[k]} ELSE {}
      all  == old \cup {p \in cand : Key(p) = k}
      best == {p \in all : \A q \in all : Priority(p) <= Priority(q)}
  IN  IF old \cap best # {}
      THEN disc[k]
      ELSE CHOOSE p \in best : \A q \in best : p <= q

\* Mutant: a copy found later never replaces the one found first.
AddCandidates_FirstFound(disc, cand) ==
  [k \in DOMAIN disc \cup {Key(p) : p \in cand} |->
     IF k \in DOMAIN disc THEN disc[k]
     ELSE CHOOSE p \in cand : Key(p) = k /\ \A q \in cand : Key(q) = k => p <= q]

AddCandidates(disc, cand) ==
  [k \in DOMAIN disc \cup {Key(p) : p \in cand} |-> Preferred(disc, cand, k)]

\* discovered after the visit of package p: a wanted package is added when
\* its key is new and its name is not pinned.
NewKeys_Unpinned(disc, p) == {Key(q) : q \in requires(p)} \ DOMAIN disc   \* mutant

NewKeys(disc, p) ==
  {Key(q) : q \in {r \in requires(p) : Name(r) \notin pinned}} \ DOMAIN disc

FirstWanted_AnyKey(p, k) ==   \* mutant: the loop's package under another's key
  CHOOSE q \in requires(p) : \A r \in requires(p) : WantedBefore(p, q, r)

FirstWanted(p, k) ==
  CHOOSE q \in requires(p) :
     Key(q) = k /\ \A r \in requires(p) : Key(r) = k => WantedBefore(p, q, r)

Visit_Overwrite(disc, p) ==   \* mutant: no test whether the key is there
  LET found == {q \in requires(p) : Name(q) \notin pinned}
  IN  [k \in DOMAIN disc \cup {Key(q) : q \in found} |->
         IF k \in {Key(q) : q \in found} THEN FirstWanted(p, k) ELSE disc[k]]

Visit(disc, p) ==
  [k \in DOMAIN disc \cup NewKeys(disc, p) |->
      IF k \in DOMAIN disc THEN disc[k] ELSE FirstWanted(p, k)]

Involved == {discovered[k] : k \in DOMAIN discovered}

\* Mutant: only what the requested packages require counts as required.
RequiredNames_Pinned ==
  UNION {ToSet(packages[p].requires) : p \in {q \in Involved : Name(q) \in pinned}}

RequiredNames == UNION {ToSet(packages[p].requires) : p \in Involved}
----------------------------------------------------------------------------
Init ==
  /\ input \in Inputs
  /\ pc = "match"
  /\ i = 1
  /\ discovered = [k \in {} |-> 0]
  /\ matched = <<>>
  /\ pinned = {}
  /\ current = {}
  /\ todo = {}
  /\ provides = [p \in {} |-> {}]

\* Where a key is found again the priorities of both packages are read, and a
\* package of an input file has no repository to read it from.
ReadsNoRepository(disc, cand) ==
  \E p \in cand :
    /\ Key(p) \in DOMAIN disc \/ \E q \in cand \ {p} : Key(q) = Key(p)
    /\ \/ ~packages[p].hasRepository
       \/ Key(p) \in DOMAIN disc /\ ~packages[disc[Key(p)]].hasRepository

MatchRequest_AllMatches ==   \* mutant: candidates is not reset for a shorter name
  /\ pc = "match" /\ i <= Len(requests)
  /\ Matching(requests[i]) # {}
  /\ ~ReadsNoRepository(discovered, Matching(requests[i]))
  /\ discovered' = AddCandidates(discovered, Matching(requests[i]))
  /\ matched' = Append(matched, Name(FirstShortest(requests[i])))
  /\ i' = i + 1
  /\ UNCHANGED <<input, pc, pinned, current, todo, provides>>

MatchRequest ==
  /\ pc = "match" /\ i <= Len(requests)
  /\ Matching(requests[i]) # {}
  /\ ~ReadsNoRepository(discovered, Candidates(requests[i]))
  /\ discovered' = AddCandidates(discovered, Candidates(requests[i]))
  /\ matched' = Append(matched, Name(FirstShortest(requests[i])))
  /\ i' = i + 1
  /\ UNCHANGED <<input, pc, pinned, current, todo, provides>>

PanicRequest ==
  /\ pc = "match" /\ i <= Len(requests)
  /\ ReadsNoRepository(discovered, Candidates(requests[i]))
  /\ pc' = "panicked"
  /\ UNCHANGED <<input, i, discovered, matched, pinned, current, todo, provides>>

SkipRequest_Always ==   \* mutant: ignoreMissing is not consulted
  /\ pc = "match" /\ i <= Len(requests)
  /\ Matching(requests[i]) = {}
  /\ i' = i + 1
  /\ UNCHANGED <<input, pc, discovered, matched, pinned, current, todo, provides>>

SkipRequest ==
  /\ pc = "match" /\ i <= Len(requests)
  /\ Matching(requests[i]) = {}
  /\ input.ignoreMissing
  /\ i' = i + 1
  /\ UNCHANGED <<input, pc, discovered, matched, pinned, current, todo, provides>>

FailRequest ==
  /\ pc = "match" /\ i <= Len(requests)
  /\ Matching(requests[i]) = {}
  /\ ~input.ignoreMissing
  /\ pc' = "failed"
  /\ UNCHANGED <<input, i, discovered, matched, pinned, current, todo, provides>>

Pin ==
  /\ pc = "match" /\ i > Len(requests)
  /\ pinned' = {Name(p) : p \in Involved}
  /\ pc' = "round"
  /\ UNCHANGED <<input, i, discovered, matched, current, todo, provides>>

BeginRound ==
  /\ pc = "round"
  /\ current' = DOMAIN discovered
  /\ todo' = DOMAIN discovered
  /\ pc' = "visit"
  /\ UNCHANGED <<input, i, discovered, matched, pinned, provides>>

VisitPackage(k) ==
  /\ pc = "visit" /\ k \in todo
  /\ discovered' = Visit(discovered, discovered[k])
  /\ todo' = todo \ {k}
  /\ UNCHANGED <<input, pc, i, matched, pinned, current, provides>>

EndRound_Once ==   \* mutant: one round and no fixpoint
  /\ pc = "visit" /\ todo = {}
  /\ pc' = "strip"
  /\ UNCHANGED <<input, i, discovered, matched, pinned, current, todo, provides>>

EndRound_Todo ==   \* mutant: the length of the wrong list
  /\ pc = "visit" /\ todo = {}
  /\ pc' = IF Cardinality(todo) = Cardinality(DOMAIN discovered)
             THEN "strip" ELSE "round"
  /\ UNCHANGED <<input, i, discovered, matched, pinned, current, todo, provides>>

\* len(current) == len(discovered) is how the code detects the fixpoint.
EndRound ==
  /\ pc = "visit" /\ todo = {}
  /\ pc' = IF Cardinality(current) = Cardinality(DOMAIN discovered)
             THEN "strip" ELSE "round"
  /\ UNCHANGED <<input, i, discovered, matched, pinned, current, todo, provides>>

StripProvides ==
  /\ pc = "strip"
  /\ provides' = [p \in Involved |->
                    {c \in packages[p].provides : c \in RequiredNames \/ c = Name(p)}]
  /\ pc' = "done"
  /\ UNCHANGED <<input, i, discovered, matched, pinned, current, todo>>

Terminated ==
  /\ pc \in {"done", "failed", "panicked"}
  /\ UNCHANGED vars

Next ==
  \/ MatchRequest \/ SkipRequest \/ FailRequest \/ PanicRequest
  \/ Pin \/ BeginRound \/ EndRound \/ StripProvides
  \/ \E k \in todo : VisitPackage(k)
  \/ Terminated

\* Resolve is one goroutine that never blocks: it keeps taking steps.
Spec == Init /\ [][Next]_vars /\ WF_vars(Next)
----------------------------------------------------------------------------
\* Every variable has the shape the code gives it; `discovered` is a map from
\* keys to packages with that key.
TypeOK ==
  /\ input \in Input
  /\ pc \in {"match", "round", "visit", "strip", "done", "failed", "panicked"}
  /\ i \in 1..(Len(requests) + 1)
  /\ discovered \in [DOMAIN discovered -> Packages]
  /\ \A k \in DOMAIN discovered : Key(discovered[k]) = k
  /\ pinned \subseteq {Name(p) : p \in Packages}
  /\ todo \subseteq current
  /\ current \subseteq DOMAIN discovered
  /\ matched \in Seq({Name(p) : p \in Packages})

\* PackageKey is "equal iff. we believe two packages are the same, and would
\* have the same effect once installed" (api.go:331).
CopiesAgree ==
  \A p, q \in Packages : Key(p) = Key(q) =>
    /\ requires(p) = requires(q)
    /\ packages[p].provides = packages[q].provides
    /\ packages[p].files = packages[q].files

\* A requirement some package of the repositories satisfies is, after the
\* reduction, still satisfied by an involved package that still says so in
\* the provides it kept, unless every package that satisfies it bears a
\* pinned name (reducer.go:87-124).
RequirementsSurvive ==
  pc = "done" /\ CopiesAgree =>
    \A p \in Involved : \A n \in DOMAIN packages[p].requires :
      LET cap == packages[p].requires[n]
      IN  (\E q \in Packages : Provides(q, cap) /\ Name(q) \notin pinned)
          => \E q \in Involved : cap \in provides[q] \/ cap \in packages[q].files

\* Nothing with "0 chance to be involved" (doc.go) is kept, in whatever order
\* the maps are iterated: every set of packages that holds the candidates of
\* the requests and the unpinned packages its members require holds all that
\* was discovered.
Requested == UNION {Candidates(requests[n]) : n \in DOMAIN requests}
NothingUnneeded ==
  LET names == {Name(p) : p \in Requested}
  IN  \A S \in SUBSET Packages :
        /\ Requested \subseteq S
        /\ \A p \in S : {q \in requires(p) : Name(q) \notin names} \subseteq S
        => Involved \subseteq S

\* A version asked for stays asked for: no dependency brings in another
\* package of a name that was requested explicitly (reducer.go:82-99).
PinnedHonoured ==
  \A p \in Involved :
    (\E n \in 1..(i - 1) : Matching(requests[n]) # {}
                            /\ Name(FirstShortest(requests[n])) = Name(p))
    => \E n \in 1..(i - 1) : p \in Candidates(requests[n])

\* Of the copies of a requested package the one of the best repository is
\* used, whatever order requests and copies come in (reducer.go:67-76).
BestRepository ==
  \A n \in 1..(i - 1) : \A p \in Candidates(requests[n]) :
    Key(p) \in DOMAIN discovered
    /\ Priority(discovered[Key(p)]) <= Priority(p)

\* When the copies of a package agree, the result does not depend on the order
\* in which Go iterates the map: the keys are the least set of keys that is
\* closed.
ClosedKeys(K) ==
  LET names == {Name(p) : p \in Requested}
  IN  /\ {Key(p) : p \in Requested} \subseteq K
      /\ \A p \in Packages : Key(p) \in K =>
           \A q \in requires(p) : Name(q) \in names \/ Key(q) \in K
MapOrderIrrelevant ==
  pc = "done" /\ CopiesAgree =>
    /\ ClosedKeys(DOMAIN discovered)
    /\ \A K \in SUBSET Keys : ClosedKeys(K) => DOMAIN discovered \subseteq K

\* Once the names are pinned a key is never bound to another package: the
\* requirements of the first binding were, or will be, visited.
NeverRebound ==
  [][pc # "match" => \A k \in DOMAIN discovered :
                        k \in DOMAIN discovered' /\ discovered'[k] = discovered[k]]_vars

\* Resolve returns, with a result or an error, or panics: the search for a
\* fixpoint ends (reducer.go:87-106).
Terminates == <>(pc \in {"done", "failed", "panicked"})

\* The forms of a request that the comment of packageMatchesString lists:
\* "<package name>-<version>.<arch> (needs full version)" is one of them, so
\* no such request fails for a package that exists (reducer.go:32-37).
FullVersionFormMatches ==
  pc = "failed" =>
    \A p \in Packages :
      requests[i] # Name(p) \o <<"-">> \o packages[p].ver \o <<".", packages[p].arch>>
============================================================================

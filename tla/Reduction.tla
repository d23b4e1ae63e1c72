----------------------------- MODULE Reduction -----------------------------
(***************************************************************************)
(* What RepoReducer.Resolve promises, in one step: for some choice of one   *)
(* package per key (the copies of a package in several repositories count   *)
(* as one) the least set of packages that holds the chosen copies of the    *)
(* requested packages and, for every member, all it can require except      *)
(* packages of a requested name.  A requested package is represented by a   *)
(* copy of the best repository.  Reducer implements this specification.     *)
(***************************************************************************)
EXTENDS PackageInfo

VARIABLES
  status,   \* "running", "done", "failed" or "panicked"
  result    \* the involved packages

absVars == <<input, status, result>>

Roots == UNION {Candidates(requests[n]) : n \in DOMAIN requests}
RootNames == {Name(p) : p \in Roots}

\* A copy of every root is in S, and of all that a member can require.
Closed(S) ==
  LET keys  == {Key(p) : p \in S}
      names == RootNames
  IN  /\ {Key(p) : p \in Roots} \subseteq keys
      /\ \A p \in S : \A q \in requires(p) : Name(q) \in names \/ Key(q) \in keys

Least(S) == Closed(S) /\ \A T \in SUBSET S : Closed(T) => T = S

OnePerKey(S) == \A p, q \in S : Key(p) = Key(q) => p = q

BestCopies(S) ==
  \A p \in Roots : \E q \in S \cap Roots : Key(p) = Key(q) /\ Priority(q) <= Priority(p)

AbsInit == input \in Input /\ status = "running" /\ result = {}

Finish ==
  /\ status = "running"
  /\ input.ignoreMissing \/ \A n \in DOMAIN requests : Matching(requests[n]) # {}
  /\ result' \subseteq Packages
  /\ OnePerKey(result') /\ BestCopies(result') /\ Least(result')
  /\ status' = "done"
  /\ UNCHANGED input

Fail ==
  /\ status = "running"
  /\ ~input.ignoreMissing
  /\ \E n \in DOMAIN requests : Matching(requests[n]) = {}
  /\ status' = "failed"
  /\ UNCHANGED <<input, result>>

\* Only a call with a package of an input file can panic.
Panic ==
  /\ status = "running"
  /\ \E p \in Packages : ~packages[p].hasRepository
  /\ status' = "panicked"
  /\ UNCHANGED <<input, result>>

AbsNext == Finish \/ Fail \/ Panic
AbsSpec == AbsInit /\ [][AbsNext]_absVars
============================================================================

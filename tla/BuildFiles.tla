----------------------------- MODULE BuildFiles -----------------------------
(***************************************************************************)
(* The files `bazeldnf rpmtree` and `bazeldnf prune` edit (cmd/rpmtree.go,  *)
(* cmd/prune.go, pkg/bazel/bazel.go): the rpmtree rules of the BUILD files, *)
(* and the targets that declare the RPMs: the rpm rules of a WORKSPACE, the *)
(* rpm rules of a macro (a def of a .bzl file), or a lock file.             *)
(*                                                                          *)
(* A command loads the files, edits what it loaded, writes the target and   *)
(* then the BUILD file, and may be killed before either. The rules of a     *)
(* target are a function from names to a checksum and addresses; a target   *)
(* without rules is empty, a def that does not exist yet as well. Other     *)
(* rules and attributes of the files, and their order, are left out. An     *)
(* install is what resolve returns: a function from names (pkgName: name,   *)
(* version and architecture) to the checksum and addresses of a repository. *)
(***************************************************************************)

CONSTANTS
  Trees,      \* the rpmtree rules
  FileOf,     \* the BUILD file of each, --buildfile
  TargetOf,   \* where its RPMs are declared, --workspace, --to-macro or --lockfile
  Kind,       \* what a target is: "workspace", "macro" or "lockfile"
  Prunes,     \* the pairs <<BUILD file, target>> that prune is called with
  Installs,   \* what the repositories may offer a tree
  Written,    \* what the targets may hold by hand: the rules each starts with
  NoURLs,     \* no addresses
  BadURLs,    \* addresses that url.Parse refuses
  BadSum      \* a checksum that Integrity refuses

VARIABLES
  rules,      \* the rpm rules of each target
  trees,      \* the labels of each tree, {} while there is no such rule
  command,    \* the command under way
  last,       \* the call that has ended last
  torn        \* the trees whose RPMs have been written, but not they themselves

vars == <<rules, trees, command, last, torn>>

Targets == DOMAIN Kind

ASSUME FilesAssumption ==
  /\ DOMAIN FileOf = Trees
  /\ TargetOf \in [Trees -> Targets]
  /\ \A p \in Prunes : p[2] \in Targets

\* A rule has a checksum and addresses, and nobody writes addresses by hand but
\* those of a file with its checksum.
ASSUME RulesAssumption ==
  \A defined \in Installs \cup Written : \A n \in DOMAIN defined :
    /\ defined[n] = [sha |-> defined[n].sha, urls |-> defined[n].urls]
    /\ defined[n].urls = NoURLs \/ \E install \in Installs :
                                     n \in DOMAIN install /\ install[n] = defined[n]
NoCall == [name |-> "none"]
Idle == [call |-> NoCall, written |-> FALSE]

\* The label of an RPM in a tree: "@n//rpm", or "@configname//n" of a lock file.
Label(g, n) == IF Kind[g] = "lockfile" THEN <<g, n>> ELSE <<n, "rpm">>

\* AddTree: the rule of the tree t is made or replaced, the others stay.
AddTree_Only(t, install) ==   \* mutant: the other trees of the file are lost
  [s \in Trees |-> IF s = t THEN {Label(TargetOf[t], n) : n \in DOMAIN install} ELSE {}]

AddTree_Plain(t, install) ==   \* mutant: a lock file's labels are written as a WORKSPACE's
  [trees EXCEPT ![t] = {<<n, "rpm">> : n \in DOMAIN install}]

AddTree(t, install) ==
  [trees EXCEPT ![t] = {Label(TargetOf[t], n) : n \in DOMAIN install}]

\* The packages whose addresses are set: a rule has none yet, or, in a WORKSPACE,
\* its checksum changes.
Readdressed_OnceOnly(g, install) ==   \* mutant: addresses once set are kept
  {n \in DOMAIN install : n \notin DOMAIN rules[g] \/ rules[g][n].urls = NoURLs}

Readdressed(g, install) ==
  {n \in DOMAIN install :
     \/ Kind[g] = "lockfile"
     \/ n \notin DOMAIN rules[g]
     \/ rules[g][n].urls = NoURLs
     \/ Kind[g] = "workspace" /\ rules[g][n].sha # install[n].sha}

SetURLsFails(g, install) == \E n \in Readdressed(g, install) : install[n].urls = BadURLs

\* Only a lock file holds the checksum in another form (AddConfigRPMs).
AddRPMsFails(g, install) ==
  \/ SetURLsFails(g, install)
  \/ Kind[g] = "lockfile" /\ \E n \in DOMAIN install : install[n].sha = BadSum

\* AddWorkspaceRPMs and AddBzlfileRPMs keep the rules there are, AddConfigRPMs
\* starts from an empty lock file.
AddRPMs(g, install) ==
  [n \in (IF Kind[g] = "lockfile" THEN {} ELSE DOMAIN rules[g]) \cup DOMAIN install |->
     IF n \notin DOMAIN install THEN rules[g][n]
     ELSE [sha  |-> install[n].sha,
           urls |-> IF n \in Readdressed(g, install) THEN install[n].urls ELSE rules[g][n].urls]]

\* PruneWorkspaceRPMs and PruneBzlfileRPMs: what no tree of the file refers to goes.
Referenced(b, labels) == UNION {labels[t] : t \in {s \in Trees : FileOf[s] = b}}

PruneRPMs(b, labels, defined) ==
  [n \in {m \in DOMAIN defined : <<m, "rpm">> \in Referenced(b, labels)} |-> defined[n]]

\* Handler.Process: a lock file is not pruned.
Process_Stale(t, install) ==   \* mutant: pruned against the BUILD file as it was
  LET added == AddRPMs(TargetOf[t], install)
  IN  IF Kind[TargetOf[t]] = "lockfile" THEN added ELSE PruneRPMs(FileOf[t], trees, added)

Process(t, install) ==
  LET added == AddRPMs(TargetOf[t], install)
  IN  IF Kind[TargetOf[t]] = "lockfile" THEN added
      ELSE PruneRPMs(FileOf[t], AddTree(t, install), added)
----------------------------------------------------------------------------
Init ==
  /\ rules \in [Targets -> Written]
  /\ \A g \in Targets : Kind[g] = "lockfile" => rules[g] = <<>>
  /\ trees = [t \in Trees |-> {}]
  /\ command = Idle /\ last = NoCall /\ torn = {}

Call(t, install) == [name |-> "rpmtree", tree |-> t, target |-> TargetOf[t],
                     file |-> FileOf[t], install |-> install]

\* bazeldnf rpmtree, up to the first write.
RpmTree(t, install) ==
  /\ command = Idle
  /\ ~AddRPMsFails(TargetOf[t], install)
  /\ command' = [call |-> Call(t, install), rules |-> Process(t, install),
                 trees |-> AddTree(t, install), written |-> FALSE]
  /\ UNCHANGED <<rules, trees, last, torn>>

RpmTreeFails(t, install) ==
  /\ command = Idle
  /\ AddRPMsFails(TargetOf[t], install)
  /\ last' = NoCall
  /\ UNCHANGED <<rules, trees, command, torn>>

\* bazeldnf prune, up to the first write.
Prune(b, g) ==
  /\ command = Idle
  /\ command' = [call |-> [name |-> "prune", target |-> g, file |-> b],
                 rules |-> PruneRPMs(b, trees, rules[g]), trees |-> trees, written |-> FALSE]
  /\ UNCHANGED <<rules, trees, last, torn>>

Own(call) == IF call.name = "rpmtree" THEN {call.tree} ELSE {}

\* Handler.Write, or the write of WORKSPACE or macro in prune.
WriteRules ==
  /\ command # Idle /\ ~command.written
  /\ rules' = [rules EXCEPT ![command.call.target] = command.rules]
  /\ command' = [command EXCEPT !.written = TRUE]
  /\ torn' = torn \cup Own(command.call)
  /\ UNCHANGED <<trees, last>>

WriteBuild ==
  /\ command.written
  /\ trees' = [t \in Trees |-> IF FileOf[t] = command.call.file THEN command.trees[t] ELSE trees[t]]
  /\ last' = command.call
  /\ torn' = torn \ Own(command.call)
  /\ command' = Idle
  /\ UNCHANGED rules

\* The process ends before a write.
Killed ==
  /\ command # Idle
  /\ command' = Idle /\ last' = NoCall
  /\ UNCHANGED <<rules, trees, torn>>

Next ==
  \/ \E t \in Trees, install \in Installs : RpmTree(t, install) \/ RpmTreeFails(t, install)
  \/ \E p \in Prunes : Prune(p[1], p[2])
  \/ WriteRules \/ WriteBuild \/ Killed

Spec == Init /\ [][Next]_vars
----------------------------------------------------------------------------
Names == UNION {DOMAIN install : install \in Installs}
LabelsOf(t) == {Label(TargetOf[t], n) : n \in Names}

TypeOK ==
  /\ DOMAIN rules = Targets
  /\ DOMAIN trees = Trees /\ \A t \in Trees : trees[t] \subseteq LabelsOf(t)
  /\ torn \subseteq Trees
  /\ command # Idle =>
       /\ command.call.target \in Targets /\ command.written \in BOOLEAN
       /\ DOMAIN command.trees = Trees
       /\ \A t \in Trees : command.trees[t] \subseteq LabelsOf(t)

Declares(g, defined, labels) == \A label \in labels : \E n \in DOMAIN defined : label = Label(g, n)

\* The RPMs of a tree are declared where it expects them, whatever commands have
\* been called for it, for the other trees and for the target; a command killed
\* between its two writes (rpmtree.go:172, 177) harms no tree but its own, and
\* that one only until it is called for again.
TreesDeclared ==
  \A t \in Trees \ torn : Declares(TargetOf[t], rules[TargetOf[t]], trees[t])

\* The addresses of a rule of a WORKSPACE are those of the file with its checksum:
\* a repository offers both together (bazel.go:136-138).
Offered(n, rule) ==
  \E install \in Installs : n \in DOMAIN install /\ install[n] = rule
AddressesFit(g) ==
  \A n \in DOMAIN rules[g] : rules[g][n].urls # NoURLs => Offered(n, rules[g][n])
WorkspaceAddressesFit == \A g \in Targets : Kind[g] = "workspace" => AddressesFit(g)

\* Who calls the same command again, after it has ended, changes nothing.
RepeatChangesNothing ==
  [][command # Idle /\ command.call = last => UNCHANGED <<rules, trees>>]_vars

\* "prunes unused RPM dependencies" (prune.go:21): no write removes a rule that a
\* tree on disk refers to, but for the tree the command is about.
PrunesOnlyUnused ==
  [][\A g \in Targets : Kind[g] # "lockfile" =>
       \A n \in DOMAIN rules[g] \ DOMAIN rules'[g] : \A t \in Trees :
         TargetOf[t] = g /\ <<n, "rpm">> \in trees[t] => t \in Own(command.call)]_vars

\* The sibling of AddWorkspaceRPMs says of a rule: "Configure/re-configure the URLs
\* when 1) no URLs are set, or 2) the checksum changed" (bazel.go:136-138); a macro
\* is to hold the same rules (rpmtree.go:192).
MacroAddressesFit == \A g \in Targets : Kind[g] = "macro" => AddressesFit(g)

\* A lock file serves as "the source of RPMs in lieu of using the WORKSPACE file"
\* and is made "similarly to how WORKSPACE files work" (README.md:239-240): with the
\* RPMs of all its trees.
LockedTreesDeclared ==
  \A t \in Trees \ torn : Kind[TargetOf[t]] = "lockfile" =>
    Declares(TargetOf[t], rules[TargetOf[t]], trees[t])

\* The labels of a tree are of the kind its target has, and the rules of a
\* WORKSPACE hold the checksum and addresses of one file.
RulesFit == TypeOK /\ WorkspaceAddressesFit
=============================================================================

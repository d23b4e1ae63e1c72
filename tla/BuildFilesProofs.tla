-------------------------- MODULE BuildFilesProofs --------------------------
(***************************************************************************)
(* What rpmtree and prune keep true of the files they edit, for any number  *)
(* of trees, files and calls and whatever the repositories offer.           *)
(***************************************************************************)
EXTENDS BuildFiles, TLAPS

\* The command under way is one that has been called, on files of the project.
CommandOK ==
  command # Idle =>
    /\ \/ \E t \in Trees, install \in Installs : command.call = Call(t, install)
       \/ \E p \in Prunes : command.call = [name |-> "prune", target |-> p[2], file |-> p[1]]
    /\ command.written \in BOOLEAN
    /\ DOMAIN command.trees = Trees
    /\ \A t \in Trees : command.trees[t] \subseteq LabelsOf(t)

FilesOK ==
  /\ DOMAIN rules = Targets
  /\ DOMAIN trees = Trees /\ \A t \in Trees : trees[t] \subseteq LabelsOf(t)
  /\ torn \subseteq Trees

Types == FilesOK /\ CommandOK

\* Who owns what, by the two kinds of calls.
LEMMA CallFields ==
  ASSUME NEW t \in Trees, NEW install \in Installs
  PROVE  /\ Call(t, install).target = TargetOf[t] /\ Call(t, install).file = FileOf[t]
         /\ Own(Call(t, install)) = {t} /\ TargetOf[t] \in Targets
BY FilesAssumption DEF Call, Own

LEMMA PruneFields ==
  ASSUME NEW p \in Prunes, NEW call, call = [name |-> "prune", target |-> p[2], file |-> p[1]]
  PROVE  /\ call.target = p[2] /\ call.file = p[1] /\ Own(call) = {} /\ p[2] \in Targets
BY FilesAssumption DEF Own

LEMMA OwnTarget ==
  ASSUME CommandOK, command # Idle
  PROVE  command.call.target \in Targets /\ Own(command.call) \subseteq Trees
<1>1. CASE \E t \in Trees, install \in Installs : command.call = Call(t, install)
  BY <1>1, CallFields
<1>2. CASE \E p \in Prunes : command.call = [name |-> "prune", target |-> p[2], file |-> p[1]]
  BY <1>2, PruneFields
<1> QED BY <1>1, <1>2 DEF CommandOK

LEMMA CallIsNamed ==
  ASSUME CommandOK, command # Idle
  PROVE  command.call # NoCall
<1>1. NoCall.name = "none"
  BY DEF NoCall
<1>2. \A t \in Trees, install \in Installs : Call(t, install).name = "rpmtree"
  BY DEF Call
<1>3. \A p \in Prunes : [name |-> "prune", target |-> p[2], file |-> p[1]].name = "prune"
  OBVIOUS
<1>4. CASE \E t \in Trees, install \in Installs : command.call = Call(t, install)
  <2>1. command.call.name = "rpmtree"
    BY <1>2, <1>4
  <2> QED BY <1>1, <2>1
<1>5. CASE \E p \in Prunes : command.call = [name |-> "prune", target |-> p[2], file |-> p[1]]
  <2>1. command.call.name = "prune"
    BY <1>3, <1>5
  <2> QED BY <1>1, <2>1
<1> QED BY <1>4, <1>5 DEF CommandOK

\* The trees of AddTree have labels of their targets.
LEMMA AddTreeLabels ==
  ASSUME FilesOK, NEW t \in Trees, NEW install \in Installs
  PROVE  /\ DOMAIN AddTree(t, install) = Trees
         /\ \A s \in Trees : AddTree(t, install)[s] \subseteq LabelsOf(s)
         /\ AddTree(t, install)[t] = {Label(TargetOf[t], n) : n \in DOMAIN install}
         /\ \A s \in Trees \ {t} : AddTree(t, install)[s] = trees[s]
BY DEF FilesOK, AddTree, LabelsOf, Names

LEMMA WrittenIsNotIdle == command.written => command # Idle
BY DEF Idle

LEMMA TypesInductive == Types /\ [Next]_vars => Types'
<1> SUFFICES ASSUME Types, [Next]_vars PROVE Types'
  OBVIOUS
<1> USE DEF Types
<1>1. ASSUME NEW t \in Trees, NEW install \in Installs, RpmTree(t, install) PROVE Types'
  <2>1. FilesOK'
    BY <1>1 DEF RpmTree, FilesOK, LabelsOf
  <2>2. command' = [call |-> Call(t, install), rules |-> Process(t, install),
                    trees |-> AddTree(t, install), written |-> FALSE]
    BY <1>1 DEF RpmTree
  <2>3. CommandOK'
    BY <2>2, AddTreeLabels DEF CommandOK, LabelsOf
  <2> QED BY <2>1, <2>3
<1>2. ASSUME NEW t \in Trees, NEW install \in Installs, RpmTreeFails(t, install) PROVE Types'
  BY <1>2 DEF RpmTreeFails, FilesOK, CommandOK, LabelsOf
<1>3. ASSUME NEW p \in Prunes, Prune(p[1], p[2]) PROVE Types'
  <2>1. FilesOK'
    BY <1>3 DEF Prune, FilesOK, LabelsOf
  <2>2. CommandOK'
    BY <1>3 DEF Prune, FilesOK, CommandOK, LabelsOf
  <2> QED BY <2>1, <2>2
<1>4. CASE WriteRules
  <2>1. command.call.target \in Targets /\ Own(command.call) \subseteq Trees
    BY <1>4, OwnTarget DEF WriteRules
  <2>2. FilesOK'
    BY <1>4, <2>1 DEF WriteRules, FilesOK, LabelsOf
  <2>3. CommandOK'
    BY <1>4 DEF WriteRules, CommandOK, LabelsOf
  <2> QED BY <2>2, <2>3
<1>5. CASE WriteBuild
  <2>1. command # Idle
    BY <1>5, WrittenIsNotIdle DEF WriteBuild
  <2>2. FilesOK'
    BY <1>5, <2>1 DEF WriteBuild, FilesOK, CommandOK, LabelsOf
  <2>3. CommandOK'
    BY <1>5 DEF WriteBuild, CommandOK
  <2> QED BY <2>2, <2>3
<1>6. CASE Killed
  BY <1>6 DEF Killed, FilesOK, CommandOK, LabelsOf
<1>7. CASE UNCHANGED vars
  BY <1>7 DEF vars, FilesOK, CommandOK, LabelsOf
<1> QED BY <1>1, <1>2, <1>3, <1>4, <1>5, <1>6, <1>7 DEF Next

LEMMA TypesAlways == Spec => []Types
<1>1. Init => Types
  BY DEF Init, Types, FilesOK, CommandOK
<1> QED BY <1>1, TypesInductive, PTL DEF Spec

\* The trees hold labels of the kind their targets have, and a command edits a
\* target of the project (TypeOK of BuildFiles).
THEOREM TypeCorrect == Spec => []TypeOK
<1>1. Types => TypeOK
  BY OwnTarget DEF Types, FilesOK, CommandOK, TypeOK
<1> QED BY <1>1, TypesAlways, PTL
-----------------------------------------------------------------------------
\* The rules of a WORKSPACE. What a command is about to write fits as well, but
\* only until it is written: afterwards the file counts.

Fits(defined) == \A n \in DOMAIN defined : defined[n].urls # NoURLs => Offered(n, defined[n])

PendingFits ==
  command # Idle /\ ~command.written /\ Kind[command.call.target] = "workspace" => Fits(command.rules)

Addresses == WorkspaceAddressesFit /\ PendingFits

\* An address is only kept beside the checksum it came with.
LEMMA AddRPMsFits ==
  ASSUME NEW g \in Targets, Kind[g] = "workspace", Fits(rules[g]), NEW install \in Installs
  PROVE  Fits(AddRPMs(g, install))
<1> DEFINE added == AddRPMs(g, install)
<1>1. DOMAIN added = DOMAIN rules[g] \cup DOMAIN install
  BY DEF AddRPMs
<1>2. ASSUME NEW n \in DOMAIN added, added[n].urls # NoURLs PROVE Offered(n, added[n])
  <2>1. CASE n \notin DOMAIN install
    <3>1. n \in DOMAIN rules[g] /\ added[n] = rules[g][n]
      BY <1>1, <2>1 DEF AddRPMs
    <3> QED BY <3>1, <1>2 DEF Fits
  <2>2. CASE n \in Readdressed(g, install)
    <3>1. n \in DOMAIN install
      BY <2>2 DEF Readdressed
    <3>2. added[n] = [sha |-> install[n].sha, urls |-> install[n].urls]
      BY <1>1, <2>2, <3>1 DEF AddRPMs
    <3>3. added[n] = install[n]
      BY <3>1, <3>2, RulesAssumption
    <3> QED BY <3>1, <3>3 DEF Offered
  <2>3. CASE n \in DOMAIN install /\ n \notin Readdressed(g, install)
    <3>1. n \in DOMAIN rules[g] /\ rules[g][n].urls # NoURLs /\ rules[g][n].sha = install[n].sha
      BY <2>3 DEF Readdressed
    <3>2. PICK j \in Installs : n \in DOMAIN j /\ j[n] = rules[g][n]
      BY <3>1 DEF Fits, Offered
    <3>3. rules[g][n] = [sha |-> rules[g][n].sha, urls |-> rules[g][n].urls]
      <4>1. j[n] = [sha |-> j[n].sha, urls |-> j[n].urls]
        BY <3>2, RulesAssumption
      <4> QED BY <4>1, <3>2
    <3>4. added[n] = [sha |-> install[n].sha, urls |-> rules[g][n].urls]
      BY <1>1, <2>3 DEF AddRPMs
    <3>5. added[n] = rules[g][n]
      BY <3>1, <3>3, <3>4
    <3> QED BY <3>2, <3>5 DEF Offered
  <2> QED BY <2>1, <2>2, <2>3
<1> HIDE DEF added
<1>3. Fits(added)
  BY <1>2 DEF Fits
<1> QED BY <1>3 DEF added

LEMMA PruneRPMsFits ==
  ASSUME NEW b, NEW labels, NEW defined, Fits(defined)
  PROVE  Fits(PruneRPMs(b, labels, defined))
BY DEF Fits, PruneRPMs

LEMMA ProcessFits ==
  ASSUME NEW t \in Trees, Kind[TargetOf[t]] = "workspace", Fits(rules[TargetOf[t]]),
         NEW install \in Installs
  PROVE  Fits(Process(t, install))
<1>1. Fits(AddRPMs(TargetOf[t], install))
  BY AddRPMsFits, FilesAssumption
<1>2. Process(t, install) = PruneRPMs(FileOf[t], AddTree(t, install), AddRPMs(TargetOf[t], install))
  BY DEF Process
<1> QED BY <1>1, <1>2, PruneRPMsFits

LEMMA AddressesInductive == Types /\ Addresses /\ [Next]_vars => Addresses'
<1> SUFFICES ASSUME Types, Addresses, [Next]_vars PROVE Addresses'
  OBVIOUS
<1>0. \A g \in Targets : Kind[g] = "workspace" => Fits(rules[g])
  BY DEF Addresses, WorkspaceAddressesFit, AddressesFit, Fits
<1>1. ASSUME UNCHANGED rules, PendingFits' PROVE Addresses'
  BY <1>1 DEF Addresses, WorkspaceAddressesFit, AddressesFit, Offered, Fits
<1>2. ASSUME NEW t \in Trees, NEW install \in Installs, RpmTree(t, install) PROVE Addresses'
  <2>1. /\ command'.call = Call(t, install) /\ command'.rules = Process(t, install)
        /\ UNCHANGED rules
    BY <1>2 DEF RpmTree
  <2>2. Kind[TargetOf[t]] = "workspace" => Fits(Process(t, install))
    BY <1>0, ProcessFits, FilesAssumption
  <2>3. PendingFits'
    BY <2>1, <2>2, CallFields DEF PendingFits, Fits
  <2> QED BY <1>1, <2>1, <2>3
<1>3. ASSUME NEW t \in Trees, NEW install \in Installs, RpmTreeFails(t, install) PROVE Addresses'
  <2>1. UNCHANGED <<rules, command>>
    BY <1>3 DEF RpmTreeFails
  <2> QED BY <1>1, <2>1 DEF Addresses, PendingFits, Fits
<1>4. ASSUME NEW p \in Prunes, Prune(p[1], p[2]) PROVE Addresses'
  <2>1. /\ command'.call = [name |-> "prune", target |-> p[2], file |-> p[1]]
        /\ command'.rules = PruneRPMs(p[1], trees, rules[p[2]])
        /\ UNCHANGED rules
    BY <1>4 DEF Prune
  <2>2. Kind[p[2]] = "workspace" => Fits(PruneRPMs(p[1], trees, rules[p[2]]))
    BY <1>0, PruneRPMsFits, FilesAssumption
  <2>3. PendingFits'
    BY <2>1, <2>2 DEF PendingFits, Fits
  <2> QED BY <1>1, <2>1, <2>3
<1>5. CASE WriteRules
  <2>1. command # Idle /\ ~command.written
    BY <1>5 DEF WriteRules
  <2> DEFINE g == command.call.target
  <2>2. g \in Targets
    BY <2>1, OwnTarget DEF Types
  <2>3. rules' = [rules EXCEPT ![g] = command.rules] /\ DOMAIN rules = Targets
    BY <1>5 DEF WriteRules, Types, FilesOK
  <2>4. Kind[g] = "workspace" => Fits(command.rules)
    BY <2>1 DEF Addresses, PendingFits
  <2>5. \A h \in Targets : Kind[h] = "workspace" => Fits(rules'[h])
    BY <1>0, <2>2, <2>3, <2>4
  <2>6. WorkspaceAddressesFit'
    BY <2>5 DEF WorkspaceAddressesFit, AddressesFit, Offered, Fits
  <2>7. command' = [command EXCEPT !.written = TRUE]
    BY <1>5 DEF WriteRules
  <2>8. PendingFits'
    BY <2>7 DEF PendingFits
  <2> QED BY <2>6, <2>8 DEF Addresses
<1>6. CASE WriteBuild \/ Killed
  <2>1. UNCHANGED rules /\ command' = Idle
    BY <1>6 DEF WriteBuild, Killed
  <2> QED BY <1>1, <2>1 DEF PendingFits
<1>7. CASE UNCHANGED vars
  BY <1>1, <1>7 DEF vars, Addresses, PendingFits, Fits
<1> QED BY <1>2, <1>3, <1>4, <1>5, <1>6, <1>7 DEF Next

\* The rules of every WORKSPACE hold the checksum and the addresses of one file,
\* after any calls, however often a package changes under its name, and whatever
\* has been written by hand without addresses (RulesFit of BuildFiles;
\* bazel.go:134-147).
THEOREM WorkspaceRulesFit == Spec => []RulesFit
<1>1. Init => Addresses
  <2> SUFFICES ASSUME Init PROVE Addresses
    OBVIOUS
  <2>1. ASSUME NEW g \in Targets, NEW n \in DOMAIN rules[g], rules[g][n].urls # NoURLs
        PROVE  Offered(n, rules[g][n])
    BY <2>1, RulesAssumption DEF Init, Offered
  <2> QED BY <2>1 DEF Init, Addresses, WorkspaceAddressesFit, AddressesFit, PendingFits
<1>2. Spec => []Addresses
  BY <1>1, TypesAlways, AddressesInductive, PTL DEF Spec
<1>3. TypeOK /\ Addresses => RulesFit
  BY DEF Addresses, RulesFit
<1> QED BY <1>2, <1>3, TypeCorrect, PTL
-----------------------------------------------------------------------------
\* The use of the commands for which trees keep their RPMs: the trees that share
\* a WORKSPACE or a macro are rules of one BUILD file, with which prune is called
\* as well, and every lock file belongs to one tree.
Separate ==
  /\ \A s, t \in Trees : TargetOf[s] = TargetOf[t] =>
       IF Kind[TargetOf[t]] = "lockfile" THEN s = t ELSE FileOf[s] = FileOf[t]
  /\ \A p \in Prunes : \A t \in Trees : TargetOf[t] = p[2] =>
       Kind[p[2]] # "lockfile" /\ FileOf[t] = p[1]

\* What the rules of the target are when the command has written them.
Outcome == IF command.written THEN rules[command.call.target] ELSE command.rules

\* A command under way replaces no tree but its own, and its target will declare
\* what its own tree needs and what the others have now.
PendingDeclared ==
  command # Idle =>
    /\ \A t \in Trees \ Own(command.call) : command.trees[t] = trees[t]
    /\ \A t \in Own(command.call) : TargetOf[t] = command.call.target /\ FileOf[t] = command.call.file
    /\ command.written => Own(command.call) \subseteq torn
    /\ \A t \in Trees :
         TargetOf[t] = command.call.target /\ (t \notin torn \/ t \in Own(command.call))
         => Declares(TargetOf[t], Outcome, command.trees[t])

Declared == TreesDeclared /\ PendingDeclared

\* A rule stays while a tree of the BUILD file has its label.
LEMMA PruneRPMsKeeps ==
  ASSUME NEW g \in Targets, Kind[g] # "lockfile", NEW b, NEW labels, NEW defined,
         NEW t \in Trees, FileOf[t] = b, Declares(g, defined, labels[t])
  PROVE  Declares(g, PruneRPMs(b, labels, defined), labels[t])
<1> SUFFICES ASSUME NEW label \in labels[t]
             PROVE  \E n \in DOMAIN PruneRPMs(b, labels, defined) : label = Label(g, n)
  BY DEF Declares
<1>1. PICK n \in DOMAIN defined : label = Label(g, n)
  BY DEF Declares
<1>2. label = <<n, "rpm">>
  BY <1>1 DEF Label
<1>3. <<n, "rpm">> \in Referenced(b, labels)
  BY <1>2 DEF Referenced
<1> QED BY <1>1, <1>3 DEF PruneRPMs

LEMMA AddRPMsDeclares ==
  ASSUME NEW g \in Targets, NEW install \in Installs
  PROVE  /\ Declares(g, AddRPMs(g, install), {Label(g, n) : n \in DOMAIN install})
         /\ \A labels : Kind[g] # "lockfile" /\ Declares(g, rules[g], labels)
                        => Declares(g, AddRPMs(g, install), labels)
<1>1. DOMAIN install \subseteq DOMAIN AddRPMs(g, install)
  BY DEF AddRPMs
<1>2. Kind[g] # "lockfile" => DOMAIN rules[g] \subseteq DOMAIN AddRPMs(g, install)
  BY DEF AddRPMs
<1> QED BY <1>1, <1>2 DEF Declares

\* What rpmtree will write declares what its own tree and the others need.
LEMMA ProcessDeclares ==
  ASSUME Separate, FilesOK, TreesDeclared, NEW t \in Trees, NEW install \in Installs,
         NEW s \in Trees, TargetOf[s] = TargetOf[t], s \notin torn \/ s = t
  PROVE  Declares(TargetOf[s], Process(t, install), AddTree(t, install)[s])
<1> DEFINE g == TargetOf[t]
           added == AddRPMs(g, install)
           labels == AddTree(t, install)
<1>1. g \in Targets
  BY FilesAssumption
<1>2. labels[t] = {Label(g, n) : n \in DOMAIN install}
  BY AddTreeLabels
<1>3. CASE Kind[g] = "lockfile"
  <2>1. s = t /\ Process(t, install) = added
    BY <1>3 DEF Separate, Process
  <2> QED BY <1>1, <1>2, <2>1, AddRPMsDeclares
<1>4. CASE Kind[g] # "lockfile"
  <2>1. FileOf[s] = FileOf[t]
    BY <1>4 DEF Separate
  <2>2. Process(t, install) = PruneRPMs(FileOf[t], labels, added)
    BY <1>4 DEF Process
  <2>3. Declares(g, added, labels[s])
    <3>1. CASE s = t
      BY <1>1, <1>2, <3>1, AddRPMsDeclares
    <3>2. CASE s # t
      <4>1. labels[s] = trees[s]
        BY <3>2, AddTreeLabels
      <4>2. Declares(g, rules[g], trees[s])
        BY <3>2 DEF TreesDeclared
      <4> QED BY <1>1, <1>4, <4>1, <4>2, AddRPMsDeclares
    <3> QED BY <3>1, <3>2
  <2> HIDE DEF labels, added
  <2>4. Declares(g, PruneRPMs(FileOf[t], labels, added), labels[s])
    BY <1>1, <1>4, <2>1, <2>3, PruneRPMsKeeps
  <2> QED BY <2>2, <2>4 DEF labels
<1> QED BY <1>3, <1>4

LEMMA DeclaredInductive ==
  ASSUME Separate
  PROVE  Types /\ Declared /\ [Next]_vars => Declared'
<1> SUFFICES ASSUME Types, Declared, [Next]_vars PROVE Declared'
  OBVIOUS
<1> USE DEF Declared
<1>1. ASSUME NEW t \in Trees, NEW install \in Installs, RpmTree(t, install) PROVE Declared'
  <2>1. /\ command'.call = Call(t, install) /\ command'.rules = Process(t, install)
        /\ command'.trees = AddTree(t, install) /\ command'.written = FALSE
        /\ UNCHANGED <<rules, trees, torn>>
    BY <1>1 DEF RpmTree
  <2>2. TreesDeclared'
    BY <2>1 DEF TreesDeclared, Declares
  <2>3. \A s \in Trees : TargetOf[s] = TargetOf[t] /\ (s \notin torn \/ s = t)
          => Declares(TargetOf[s], Process(t, install), AddTree(t, install)[s])
    BY ProcessDeclares DEF Types
  <2>4. \A s \in Trees \ {t} : AddTree(t, install)[s] = trees[s]
    BY AddTreeLabels DEF Types
  <2>5. /\ command'.call.target = TargetOf[t] /\ command'.call.file = FileOf[t]
        /\ Own(command'.call) = {t}
    BY <2>1, CallFields
  <2>6. PendingDeclared'
    BY <2>1, <2>3, <2>4, <2>5 DEF PendingDeclared, Outcome
  <2> QED BY <2>2, <2>6
<1>2. ASSUME NEW t \in Trees, NEW install \in Installs, RpmTreeFails(t, install) PROVE Declared'
  BY <1>2 DEF RpmTreeFails, TreesDeclared, PendingDeclared, Outcome
<1>3. ASSUME NEW p \in Prunes, Prune(p[1], p[2]) PROVE Declared'
  <2>1. /\ command'.call = [name |-> "prune", target |-> p[2], file |-> p[1]]
        /\ command'.rules = PruneRPMs(p[1], trees, rules[p[2]])
        /\ command'.trees = trees /\ command'.written = FALSE
        /\ UNCHANGED <<rules, trees, torn>>
    BY <1>3 DEF Prune
  <2>2. TreesDeclared'
    BY <2>1 DEF TreesDeclared, Declares
  <2>3. /\ command'.call.target = p[2] /\ command'.call.file = p[1]
        /\ Own(command'.call) = {}
    BY <2>1, PruneFields
  <2>4. ASSUME NEW s \in Trees, TargetOf[s] = p[2], s \notin torn
        PROVE  Declares(TargetOf[s], PruneRPMs(p[1], trees, rules[p[2]]), trees[s])
    <3>1. Kind[p[2]] # "lockfile" /\ FileOf[s] = p[1] /\ p[2] \in Targets
      BY <2>4, FilesAssumption DEF Separate
    <3>2. Declares(p[2], rules[p[2]], trees[s])
      BY <2>4 DEF TreesDeclared
    <3> QED BY <2>4, <3>1, <3>2, PruneRPMsKeeps
  <2>5. PendingDeclared'
    BY <2>1, <2>3, <2>4 DEF PendingDeclared, Outcome
  <2> QED BY <2>2, <2>5
<1>4. CASE WriteRules
  <2> DEFINE g == command.call.target
             own == Own(command.call)
  <2>1. command # Idle /\ ~command.written
    BY <1>4 DEF WriteRules
  <2>2. g \in Targets /\ own \subseteq Trees
    BY <2>1, OwnTarget DEF Types
  <2>3. /\ rules' = [rules EXCEPT ![g] = command.rules] /\ DOMAIN rules = Targets
        /\ torn' = torn \cup own /\ UNCHANGED trees
    BY <1>4 DEF WriteRules, Types, FilesOK
  <2>4. command' = [command EXCEPT !.written = TRUE]
    BY <1>4 DEF WriteRules
  <2>5. command'.call = command.call /\ command'.trees = command.trees
    BY <2>4
  <2>6. rules'[g] = command.rules
    BY <2>2, <2>3
  <2>7. \A t \in Trees : TargetOf[t] = g /\ (t \notin torn \/ t \in own)
                         => Declares(g, command.rules, command.trees[t])
    BY <2>1 DEF PendingDeclared, Outcome
  <2>8. ASSUME NEW t \in Trees \ torn' PROVE Declares(TargetOf[t], rules'[TargetOf[t]], trees'[t])
    <3>1. t \notin torn /\ t \notin own /\ command.trees[t] = trees[t]
      BY <2>1, <2>3, <2>8 DEF PendingDeclared
    <3>2. CASE TargetOf[t] = g
      BY <2>3, <2>6, <2>7, <3>1, <3>2
    <3>3. CASE TargetOf[t] # g
      <4>1. rules'[TargetOf[t]] = rules[TargetOf[t]]
        BY <2>3, <3>3, FilesAssumption
      <4> QED BY <2>3, <3>1, <4>1 DEF TreesDeclared
    <3> QED BY <3>2, <3>3
  <2>9. TreesDeclared'
    BY <2>8 DEF TreesDeclared, Declares
  <2>10. Outcome' = command.rules
    <3>1. CASE command'.written
      BY <2>5, <2>6, <3>1 DEF Outcome
    <3>2. CASE ~command'.written
      <4>1. command'.rules = command.rules
        BY <2>4
      <4> QED BY <3>2, <4>1 DEF Outcome
    <3> QED BY <3>1, <3>2
  <2>11. \A t \in Trees : TargetOf[t] = g /\ (t \notin torn' \/ t \in own)
                          => Declares(TargetOf[t], Outcome', command'.trees[t])
    BY <2>3, <2>5, <2>7, <2>10
  <2>12. /\ \A t \in Trees \ own : command'.trees[t] = trees'[t]
         /\ \A t \in own : TargetOf[t] = g /\ FileOf[t] = command.call.file
         /\ own \subseteq torn'
    BY <2>1, <2>3, <2>5 DEF PendingDeclared
  <2>13. PendingDeclared'
    BY <2>5, <2>11, <2>12 DEF PendingDeclared, Declares
  <2> QED BY <2>9, <2>13
<1>5. CASE WriteBuild
  <2> DEFINE own == Own(command.call)
  <2>1. command # Idle /\ command.written
    BY <1>5, WrittenIsNotIdle DEF WriteBuild
  <2>2. /\ trees' = [t \in Trees |-> IF FileOf[t] = command.call.file
                                     THEN command.trees[t] ELSE trees[t]]
        /\ torn' = torn \ own /\ command' = Idle /\ UNCHANGED rules
    BY <1>5 DEF WriteBuild
  <2>3. ASSUME NEW t \in Trees \ torn' PROVE Declares(TargetOf[t], rules[TargetOf[t]], trees'[t])
    <3>1. CASE t \in own
      <4>1. TargetOf[t] = command.call.target /\ trees'[t] = command.trees[t]
        BY <2>1, <2>2, <3>1 DEF PendingDeclared
      <4> QED BY <2>1, <3>1, <4>1 DEF PendingDeclared, Outcome
    <3>2. CASE t \notin own
      <4>1. t \notin torn /\ trees'[t] = trees[t]
        BY <2>1, <2>2, <2>3, <3>2 DEF PendingDeclared
      <4> QED BY <4>1 DEF TreesDeclared
    <3> QED BY <3>1, <3>2
  <2>4. TreesDeclared'
    BY <2>2, <2>3 DEF TreesDeclared, Declares
  <2> QED BY <2>2, <2>4 DEF PendingDeclared
<1>6. CASE Killed
  BY <1>6 DEF Killed, TreesDeclared, PendingDeclared
<1>7. CASE UNCHANGED vars
  BY <1>7 DEF vars, TreesDeclared, PendingDeclared, Outcome
<1> QED BY <1>1, <1>2, <1>3, <1>4, <1>5, <1>6, <1>7 DEF Next

\* However the calls follow each other, and wherever they are killed, the RPMs of
\* every tree that is not torn are declared in its target, as long as the trees of
\* a target are kept together (TreesDeclared of BuildFiles; rpmtree.go:58-118,
\* 165-180, prune.go:22-52).
THEOREM TreesStayDeclared ==
  ASSUME Separate
  PROVE  Spec => []TreesDeclared
<1>1. Init => Declared
  BY DEF Init, Declared, TreesDeclared, PendingDeclared, Declares
<1>2. Spec => []Declared
  BY <1>1, TypesAlways, DeclaredInductive, PTL DEF Spec
<1>3. Declared => TreesDeclared
  BY DEF Declared
<1> QED BY <1>2, <1>3, PTL
-----------------------------------------------------------------------------
\* What a command is about to write holds every rule that another tree refers to.
PendingKeeps ==
  command # Idle /\ ~command.written /\ Kind[command.call.target] # "lockfile" =>
    \A n \in DOMAIN rules[command.call.target] : \A t \in Trees \ Own(command.call) :
      TargetOf[t] = command.call.target /\ <<n, "rpm">> \in trees[t] => n \in DOMAIN command.rules

LEMMA PruneRPMsDomain ==
  ASSUME NEW b, NEW labels, NEW defined, NEW t \in Trees, FileOf[t] = b,
         NEW n \in DOMAIN defined, <<n, "rpm">> \in labels[t]
  PROVE  n \in DOMAIN PruneRPMs(b, labels, defined)
BY DEF PruneRPMs, Referenced

LEMMA KeepsInductive ==
  ASSUME Separate
  PROVE  Types /\ PendingKeeps /\ [Next]_vars => PendingKeeps'
<1> SUFFICES ASSUME Types, PendingKeeps, [Next]_vars PROVE PendingKeeps'
  OBVIOUS
<1>1. ASSUME NEW t \in Trees, NEW install \in Installs, RpmTree(t, install) PROVE PendingKeeps'
  <2> DEFINE g == TargetOf[t]
             labels == AddTree(t, install)
             added == AddRPMs(g, install)
  <2>1. /\ command'.call = Call(t, install) /\ command'.rules = Process(t, install)
        /\ UNCHANGED <<rules, trees>>
    BY <1>1 DEF RpmTree
  <2>2. ASSUME Kind[g] # "lockfile", NEW n \in DOMAIN rules[g], NEW s \in Trees \ {t},
               TargetOf[s] = g, <<n, "rpm">> \in trees[s]
        PROVE  n \in DOMAIN Process(t, install)
    <3>1. n \in DOMAIN added
      BY <2>2 DEF AddRPMs
    <3>2. <<n, "rpm">> \in labels[s]
      BY <2>2, AddTreeLabels DEF Types
    <3>3. FileOf[s] = FileOf[t]
      BY <2>2 DEF Separate
    <3>4. Process(t, install) = PruneRPMs(FileOf[t], labels, added)
      BY <2>2 DEF Process
    <3> HIDE DEF labels, added
    <3> QED BY <3>1, <3>2, <3>3, <3>4, PruneRPMsDomain
  <2>3. /\ command'.call.target = g /\ Own(command'.call) = {t}
    BY <2>1, CallFields
  <2> QED BY <2>1, <2>2, <2>3 DEF PendingKeeps
<1>2. ASSUME NEW t \in Trees, NEW install \in Installs, RpmTreeFails(t, install) PROVE PendingKeeps'
  BY <1>2 DEF RpmTreeFails, PendingKeeps
<1>3. ASSUME NEW p \in Prunes, Prune(p[1], p[2]) PROVE PendingKeeps'
  <2>1. /\ command'.call = [name |-> "prune", target |-> p[2], file |-> p[1]]
        /\ command'.rules = PruneRPMs(p[1], trees, rules[p[2]])
        /\ UNCHANGED <<rules, trees>>
    BY <1>3 DEF Prune
  <2>2. ASSUME NEW n \in DOMAIN rules[p[2]], NEW s \in Trees, TargetOf[s] = p[2],
               <<n, "rpm">> \in trees[s]
        PROVE  n \in DOMAIN PruneRPMs(p[1], trees, rules[p[2]])
    BY <2>2, PruneRPMsDomain DEF Separate
  <2>3. command'.call.target = p[2] /\ Own(command'.call) = {}
    BY <2>1, PruneFields
  <2> QED BY <2>1, <2>2, <2>3 DEF PendingKeeps
<1>4. CASE WriteRules
  <2>1. command' = [command EXCEPT !.written = TRUE]
    BY <1>4 DEF WriteRules
  <2> QED BY <2>1 DEF PendingKeeps
<1>5. CASE WriteBuild \/ Killed
  BY <1>5 DEF WriteBuild, Killed, PendingKeeps
<1>6. CASE UNCHANGED vars
  BY <1>6 DEF vars, PendingKeeps
<1> QED BY <1>1, <1>2, <1>3, <1>4, <1>5, <1>6 DEF Next

\* No command takes a rule away that another tree on disk refers to, as long as
\* the trees of a target are kept together (PrunesOnlyUnused of BuildFiles;
\* bazel.go:323-366).
THEOREM PrunedIsUnused ==
  ASSUME Separate
  PROVE  Spec => PrunesOnlyUnused
<1> DEFINE Keeps ==
      \A g \in Targets : Kind[g] # "lockfile" =>
        \A n \in DOMAIN rules[g] \ DOMAIN rules'[g] : \A t \in Trees :
          TargetOf[t] = g /\ <<n, "rpm">> \in trees[t] => t \in Own(command.call)
<1>1. Init => PendingKeeps
  BY DEF Init, PendingKeeps
<1>2. Types /\ PendingKeeps /\ [Next]_vars => [Keeps]_vars
  <2> SUFFICES ASSUME Types, PendingKeeps, Next PROVE Keeps
    BY DEF Types
  <2>1. CASE UNCHANGED rules
    BY <2>1
  <2>2. CASE WriteRules
    <3>1. command # Idle /\ ~command.written
      BY <2>2 DEF WriteRules
    <3>2. command.call.target \in Targets
      BY <3>1, OwnTarget DEF Types
    <3>3. rules' = [rules EXCEPT ![command.call.target] = command.rules] /\ DOMAIN rules = Targets
      BY <2>2 DEF WriteRules, Types, FilesOK
    <3> QED BY <3>1, <3>2, <3>3 DEF PendingKeeps
  <2> QED BY <2>1, <2>2 DEF Next, RpmTree, RpmTreeFails, Prune, WriteBuild, Killed
<1>3. Spec => []PendingKeeps
  BY <1>1, TypesAlways, KeepsInductive, PTL DEF Spec
<1>4. Spec => [][Keeps]_vars
  BY <1>2, <1>3, TypesAlways, PTL DEF Spec
<1> QED BY <1>4 DEF PrunesOnlyUnused
-----------------------------------------------------------------------------
\* What a call makes of the files as they are.
NewRules(call) ==
  IF call.name = "rpmtree" THEN Process(call.tree, call.install)
  ELSE PruneRPMs(call.file, trees, rules[call.target])
NewTrees(call) == IF call.name = "rpmtree" THEN AddTree(call.tree, call.install) ELSE trees

Functional == rules = [g \in Targets |-> rules[g]] /\ trees = [t \in Trees |-> trees[t]]
PendingFixed == command # Idle => command.trees = NewTrees(command.call) /\ Outcome = NewRules(command.call)
LastFixed ==
  last # NoCall /\ (command = Idle \/ command.call = last)
  => NewTrees(last) = trees /\ NewRules(last) = rules[last.target]

Settled == Functional /\ PendingFixed /\ LastFixed

\* A command is an rpmtree or a prune, and looks the same to the operators above.
LEMMA RpmTreeCall ==
  ASSUME NEW t \in Trees, NEW install \in Installs
  PROVE  /\ NewRules(Call(t, install)) = Process(t, install)
         /\ NewTrees(Call(t, install)) = AddTree(t, install)
BY DEF Call, NewRules, NewTrees

LEMMA PruneCall ==
  ASSUME NEW p \in Prunes, NEW call, call = [name |-> "prune", target |-> p[2], file |-> p[1]]
  PROVE  NewRules(call) = PruneRPMs(p[1], trees, rules[p[2]]) /\ NewTrees(call) = trees
BY DEF NewRules, NewTrees

\* The rules of an install are added once and for all: adding them to what they
\* were added to, and what has lost rules of other packages, changes nothing.
AddedTo(g, install, defined) ==
  \A n \in DOMAIN install :
    /\ n \in DOMAIN defined
    /\ defined[n] = [sha |-> install[n].sha, urls |-> defined[n].urls]
    /\ defined[n].urls = NoURLs \/ Kind[g] = "lockfile" => defined[n].urls = install[n].urls

LEMMA AddRPMsAdds ==
  ASSUME NEW g \in Targets, NEW install \in Installs
  PROVE  AddedTo(g, install, AddRPMs(g, install))
<1> SUFFICES ASSUME NEW n \in DOMAIN install
             PROVE  LET added == AddRPMs(g, install) IN
                    /\ n \in DOMAIN added
                    /\ added[n] = [sha |-> install[n].sha, urls |-> added[n].urls]
                    /\ added[n].urls = NoURLs \/ Kind[g] = "lockfile" => added[n].urls = install[n].urls
  BY DEF AddedTo
<1> DEFINE added == AddRPMs(g, install)
<1>1. n \in DOMAIN added
  BY DEF AddRPMs
<1>2. added[n] = [sha |-> install[n].sha,
                  urls |-> IF n \in Readdressed(g, install) THEN install[n].urls ELSE rules[g][n].urls]
  BY <1>1 DEF AddRPMs
<1>3. n \notin Readdressed(g, install) => rules[g][n].urls # NoURLs /\ Kind[g] # "lockfile"
  BY DEF Readdressed
<1> QED BY <1>1, <1>2, <1>3

LEMMA AddRPMsOnce ==
  ASSUME NEW g \in Targets, NEW install \in Installs,
         rules'[g] = [n \in DOMAIN rules'[g] |-> rules'[g][n]],
         AddedTo(g, install, rules'[g]),
         Kind[g] = "lockfile" => DOMAIN rules'[g] = DOMAIN install
  PROVE  AddRPMs(g, install)' = rules'[g]
<1> DEFINE R == rules'[g]
           added == AddRPMs(g, install)'
<1>1. DOMAIN added = DOMAIN R
  BY DEF AddRPMs, AddedTo
<1>2. ASSUME NEW n \in DOMAIN R PROVE added[n] = R[n]
  <2>1. CASE n \notin DOMAIN install
    BY <1>1, <2>1 DEF AddRPMs
  <2>2. CASE n \in DOMAIN install
    <3>1. /\ R[n] = [sha |-> install[n].sha, urls |-> R[n].urls]
          /\ R[n].urls = NoURLs \/ Kind[g] = "lockfile" => R[n].urls = install[n].urls
      BY <2>2 DEF AddedTo
    <3>2. n \in Readdressed(g, install)' => R[n].urls = install[n].urls
      BY <2>2, <3>1 DEF Readdressed
    <3>3. added[n] = [sha |-> install[n].sha,
                      urls |-> IF n \in Readdressed(g, install)' THEN install[n].urls ELSE R[n].urls]
      BY <1>1, <2>2 DEF AddRPMs
    <3> QED BY <3>1, <3>2, <3>3
  <2> QED BY <2>1, <2>2
<1>3. added = [n \in DOMAIN added |-> added[n]]
  BY DEF AddRPMs
<1> QED BY <1>1, <1>2, <1>3

\* What Process makes can be processed again.
Processed(t, install, R, labels) ==
  /\ R = [n \in DOMAIN R |-> R[n]]
  /\ AddedTo(TargetOf[t], install, R)
  /\ Kind[TargetOf[t]] = "lockfile" => DOMAIN R = DOMAIN install
  /\ Kind[TargetOf[t]] # "lockfile" =>
       \A n \in DOMAIN R : <<n, "rpm">> \in Referenced(FileOf[t], labels)

LEMMA ProcessAdds ==
  ASSUME FilesOK, NEW t \in Trees, NEW install \in Installs
  PROVE  Processed(t, install, Process(t, install), AddTree(t, install))
<1> DEFINE g == TargetOf[t]
           added == AddRPMs(g, install)
           labels == AddTree(t, install)
<1>1. AddedTo(g, install, added)
  BY AddRPMsAdds, FilesAssumption
<1>2. added = [n \in DOMAIN added |-> added[n]] /\ (Kind[g] = "lockfile" => DOMAIN added = DOMAIN install)
  BY DEF AddRPMs
<1>3. CASE Kind[g] = "lockfile"
  BY <1>1, <1>2, <1>3 DEF Process, Processed
<1>4. CASE Kind[g] # "lockfile"
  <2> DEFINE R == PruneRPMs(FileOf[t], labels, added)
  <2>1. Process(t, install) = R
    BY <1>4 DEF Process
  <2>2. \A n \in DOMAIN install : <<n, "rpm">> \in labels[t]
    BY <1>4, AddTreeLabels DEF Label
  <2>3. \A n \in DOMAIN install : <<n, "rpm">> \in Referenced(FileOf[t], labels)
    BY <2>2 DEF Referenced
  <2> HIDE DEF labels, added
  <2>4. /\ R = [n \in DOMAIN R |-> R[n]]
        /\ DOMAIN R = {n \in DOMAIN added : <<n, "rpm">> \in Referenced(FileOf[t], labels)}
        /\ \A n \in DOMAIN R : R[n] = added[n]
    BY DEF PruneRPMs
  <2>5. AddedTo(g, install, R)
    BY <1>1, <2>3, <2>4 DEF AddedTo
  <2> HIDE DEF R
  <2> QED BY <1>4, <2>1, <2>4, <2>5 DEF labels, Processed
<1> QED BY <1>3, <1>4

LEMMA ProcessOnce ==
  ASSUME NEW t \in Trees, NEW install \in Installs,
         Processed(t, install, rules'[TargetOf[t]], AddTree(t, install)')
  PROVE  Process(t, install)' = rules'[TargetOf[t]]
<1> DEFINE g == TargetOf[t]
<1>1. AddRPMs(g, install)' = rules'[g]
  BY AddRPMsOnce, FilesAssumption DEF Processed
<1>2. CASE Kind[g] = "lockfile"
  BY <1>1, <1>2 DEF Process
<1>3. CASE Kind[g] # "lockfile"
  <2>1. Process(t, install)' = PruneRPMs(FileOf[t], AddTree(t, install)', rules'[g])
    BY <1>1, <1>3 DEF Process
  <2> QED BY <1>3, <2>1 DEF PruneRPMs, Processed
<1> QED BY <1>2, <1>3

LEMMA PruneOnce ==
  ASSUME NEW b, NEW labels, NEW defined
  PROVE  PruneRPMs(b, labels, PruneRPMs(b, labels, defined)) = PruneRPMs(b, labels, defined)
BY DEF PruneRPMs

\* A call makes the same of files that are the same.
LEMMA SameLast ==
  ASSUME UNCHANGED <<rules, trees, last>>
  PROVE  NewRules(last)' = NewRules(last) /\ NewTrees(last)' = NewTrees(last)
BY DEF NewRules, NewTrees, Process, AddTree, AddRPMs, Readdressed

\* What has been written is what the call makes of it again.
LEMMA WrittenOnce ==
  ASSUME Types, Settled, WriteRules
  PROVE  /\ rules'[command.call.target] = NewRules(command.call)
         /\ NewRules(command.call)' = NewRules(command.call)
         /\ NewTrees(command.call)' = NewTrees(command.call)
<1> DEFINE g == command.call.target
<1>1. command # Idle /\ ~command.written
  BY DEF WriteRules
<1>2. g \in Targets
  BY <1>1, OwnTarget DEF Types
<1>3. /\ rules' = [rules EXCEPT ![g] = command.rules] /\ DOMAIN rules = Targets /\ UNCHANGED trees
      /\ command' = [command EXCEPT !.written = TRUE]
  BY DEF WriteRules, Types, FilesOK
<1>4. rules'[g] = command.rules /\ command'.call = command.call
  BY <1>2, <1>3
<1>5. command.rules = NewRules(command.call)
  BY <1>1 DEF Settled, PendingFixed, Outcome
<1>6. NewTrees(command.call)' = NewTrees(command.call)
  BY <1>3, <1>4 DEF NewTrees, AddTree
<1>7. NewRules(command.call)' = NewRules(command.call)
  <2>1. ASSUME NEW t \in Trees, NEW install \in Installs, command.call = Call(t, install)
        PROVE  NewRules(command.call)' = NewRules(command.call)
    <3>1. rules'[TargetOf[t]] = Process(t, install)
      BY <1>4, <1>5, <2>1, RpmTreeCall, CallFields
    <3>2. AddTree(t, install)' = AddTree(t, install)
      BY <1>3 DEF AddTree
    <3>3. Processed(t, install, rules'[TargetOf[t]], AddTree(t, install)')
      BY <3>1, <3>2, ProcessAdds DEF Types
    <3>4. Process(t, install)' = Process(t, install)
      BY <3>1, <3>3, ProcessOnce
    <3>5. NewRules(command.call)' = Process(t, install)'
      BY <1>4, <2>1 DEF NewRules, Call
    <3> QED BY <2>1, <3>4, <3>5, RpmTreeCall
  <2>2. ASSUME NEW p \in Prunes, command.call = [name |-> "prune", target |-> p[2], file |-> p[1]]
        PROVE  NewRules(command.call)' = NewRules(command.call)
    <3>1. rules'[p[2]] = PruneRPMs(p[1], trees, rules[p[2]])
      BY <1>4, <1>5, <2>2, PruneCall
    <3>2. NewRules(command.call)' = PruneRPMs(p[1], trees', rules'[p[2]])
      BY <1>4, <2>2 DEF NewRules
    <3>3. PruneRPMs(p[1], trees', rules'[p[2]]) = PruneRPMs(p[1], trees, rules[p[2]])
      BY <1>3, <3>1, PruneOnce
    <3> QED BY <2>2, <3>2, <3>3, PruneCall
  <2> QED BY <1>1, <2>1, <2>2 DEF Types, CommandOK
<1> QED BY <1>4, <1>5, <1>6, <1>7

\* Once the BUILD file is written as well, the call would change neither file.
LEMMA EndedOnce ==
  ASSUME Types, Settled, WriteBuild
  PROVE  NewTrees(last)' = trees' /\ NewRules(last)' = rules'[last'.target]
<1>1. command # Idle /\ command.written
  BY WrittenIsNotIdle DEF WriteBuild
<1>2. /\ trees' = [s \in Trees |-> IF FileOf[s] = command.call.file THEN command.trees[s] ELSE trees[s]]
      /\ last' = command.call /\ UNCHANGED rules
  BY DEF WriteBuild
<1>3. command.trees = NewTrees(command.call) /\ rules[command.call.target] = NewRules(command.call)
  BY <1>1 DEF Settled, PendingFixed, Outcome
<1>4. trees = [s \in Trees |-> trees[s]]
  BY DEF Settled, Functional
<1>5. ASSUME NEW t \in Trees, NEW install \in Installs, command.call = Call(t, install)
      PROVE  NewTrees(last)' = trees' /\ NewRules(last)' = rules'[last'.target]
  <2>1. command.trees = AddTree(t, install) /\ rules[TargetOf[t]] = Process(t, install)
    BY <1>3, <1>5, RpmTreeCall, CallFields
  <2>2. /\ AddTree(t, install) = [s \in Trees |-> AddTree(t, install)[s]]
        /\ \A s \in Trees \ {t} : AddTree(t, install)[s] = trees[s]
    BY <1>4, AddTreeLabels DEF AddTree, Types
  <2>3. trees' = AddTree(t, install)
    <3> DEFINE labels == AddTree(t, install)
    <3>1. trees' = [s \in Trees |-> IF FileOf[s] = FileOf[t] THEN labels[s] ELSE trees[s]]
      BY <1>2, <1>5, <2>1, CallFields
    <3>2. labels = [s \in Trees |-> labels[s]] /\ \A s \in Trees \ {t} : labels[s] = trees[s]
      BY <2>2
    <3> HIDE DEF labels
    <3>3. \A s \in Trees : labels[s] = IF FileOf[s] = FileOf[t] THEN labels[s] ELSE trees[s]
      BY <3>2
    <3>4. trees' = labels
      BY <3>1, <3>2, <3>3
    <3> QED BY <3>4 DEF labels
  <2>4. AddTree(t, install)' = trees'
    <3>1. trees'[t] = {Label(TargetOf[t], n) : n \in DOMAIN install}
      BY <2>3, AddTreeLabels DEF Types
    <3>2. trees' = [s \in Trees |-> trees'[s]]
      BY <2>2, <2>3
    <3>3. AddTree(t, install)' = [trees' EXCEPT ![t] = {Label(TargetOf[t], n) : n \in DOMAIN install}]
      BY DEF AddTree
    <3> QED BY <3>1, <3>2, <3>3
  <2>5. Process(t, install)' = Process(t, install)
    <3>1. AddRPMs(TargetOf[t], install)' = AddRPMs(TargetOf[t], install)
      BY <1>2 DEF AddRPMs, Readdressed
    <3> QED BY <2>3, <2>4, <3>1 DEF Process
  <2>6. NewTrees(last)' = AddTree(t, install)' /\ NewRules(last)' = Process(t, install)'
    BY <1>2, <1>5 DEF NewTrees, NewRules, Call
  <2>7. rules'[last'.target] = Process(t, install)
    BY <1>2, <1>5, <2>1, CallFields
  <2> QED BY <2>4, <2>5, <2>6, <2>7
<1>6. ASSUME NEW p \in Prunes, command.call = [name |-> "prune", target |-> p[2], file |-> p[1]]
      PROVE  NewTrees(last)' = trees' /\ NewRules(last)' = rules'[last'.target]
  <2>1. command.trees = trees /\ rules[p[2]] = PruneRPMs(p[1], trees, rules[p[2]])
    BY <1>3, <1>6, PruneCall
  <2>2. trees' = trees
    BY <1>2, <1>4, <2>1
  <2>3. NewTrees(last)' = trees' /\ NewRules(last)' = PruneRPMs(p[1], trees', rules'[p[2]])
    BY <1>2, <1>6 DEF NewTrees, NewRules
  <2> QED BY <1>2, <1>6, <2>1, <2>2, <2>3
<1> QED BY <1>1, <1>5, <1>6 DEF Types, CommandOK

\* The command under way does what its call does, before its first write and after.
LEMMA SettledInductive == Types /\ Settled /\ [Next]_vars => Settled'
<1> SUFFICES ASSUME Types, Settled, [Next]_vars PROVE Settled'
  OBVIOUS
<1> USE DEF Settled
<1>1. ASSUME NEW t \in Trees, NEW install \in Installs, RpmTree(t, install) PROVE Settled'
  <2>1. /\ command = Idle /\ command'.call = Call(t, install) /\ command'.rules = Process(t, install)
        /\ command'.trees = AddTree(t, install) /\ command'.written = FALSE
        /\ UNCHANGED <<rules, trees, last>>
    BY <1>1 DEF RpmTree
  <2>2. Process(t, install)' = Process(t, install) /\ AddTree(t, install)' = AddTree(t, install)
    BY <2>1 DEF Process, AddTree, AddRPMs, Readdressed
  <2>3. /\ NewRules(command.call)' = Process(t, install)'
        /\ NewTrees(command.call)' = AddTree(t, install)'
    BY <2>1 DEF NewRules, NewTrees, Call
  <2>4. PendingFixed'
    BY <2>1, <2>2, <2>3 DEF PendingFixed, Outcome
  <2>5. Functional' /\ LastFixed'
    BY <2>1, SameLast DEF Functional, LastFixed
  <2> QED BY <2>4, <2>5
<1>2. ASSUME NEW p \in Prunes, Prune(p[1], p[2]) PROVE Settled'
  <2>1. /\ command = Idle /\ command'.call = [name |-> "prune", target |-> p[2], file |-> p[1]]
        /\ command'.rules = PruneRPMs(p[1], trees, rules[p[2]])
        /\ command'.trees = trees /\ command'.written = FALSE
        /\ UNCHANGED <<rules, trees, last>>
    BY <1>2 DEF Prune
  <2>2. /\ NewRules(command.call)' = PruneRPMs(p[1], trees', rules'[p[2]])
        /\ NewTrees(command.call)' = trees'
    BY <2>1 DEF NewRules, NewTrees
  <2>3. PendingFixed'
    BY <2>1, <2>2 DEF PendingFixed, Outcome
  <2>4. Functional' /\ LastFixed'
    BY <2>1, SameLast DEF Functional, LastFixed
  <2> QED BY <2>3, <2>4
<1>3. CASE WriteRules
  <2> DEFINE g == command.call.target
  <2>1. command # Idle /\ ~command.written
    BY <1>3 DEF WriteRules
  <2>2. g \in Targets
    BY <2>1, OwnTarget DEF Types
  <2>3. /\ rules' = [rules EXCEPT ![g] = command.rules] /\ DOMAIN rules = Targets
        /\ command' = [command EXCEPT !.written = TRUE] /\ UNCHANGED <<trees, last>>
    BY <1>3 DEF WriteRules, Types, FilesOK
  <2>4. command'.call = command.call /\ command'.trees = command.trees /\ command'.rules = command.rules
    BY <2>3
  <2>5. /\ rules'[g] = NewRules(command.call) /\ NewRules(command.call)' = NewRules(command.call)
        /\ NewTrees(command.call)' = NewTrees(command.call)
    BY <1>3, WrittenOnce
  <2>6. command.trees = NewTrees(command.call) /\ command.rules = NewRules(command.call)
    BY <2>1 DEF PendingFixed, Outcome
  <2>7. Functional'
    BY <2>2, <2>3 DEF Functional
  <2>8. PendingFixed'
    BY <2>4, <2>5, <2>6 DEF PendingFixed, Outcome
  <2>9. LastFixed'
    <3>0. command' # Idle
      BY <2>1, <2>4, CallIsNamed DEF Types, Idle
    <3>1. SUFFICES ASSUME last # NoCall, command'.call = last
                   PROVE  NewTrees(last)' = trees' /\ NewRules(last)' = rules'[last'.target]
      BY <3>0, <2>3 DEF LastFixed
    <3>2. NewTrees(last) = trees /\ NewRules(last) = rules[last.target]
      BY <2>4, <3>1 DEF LastFixed
    <3>3. rules' = rules
      BY <2>2, <2>3, <2>4, <2>6, <3>1, <3>2 DEF Functional
    <3> QED BY <2>3, <3>2, <3>3, SameLast
  <2> QED BY <2>7, <2>8, <2>9
<1>4. CASE WriteBuild
  <2>1. command' = Idle /\ UNCHANGED rules /\ trees' = [t \in Trees |-> trees'[t]]
    BY <1>4 DEF WriteBuild
  <2>2. Functional' /\ PendingFixed'
    BY <2>1 DEF Functional, PendingFixed
  <2>3. LastFixed'
    BY <1>4, EndedOnce DEF LastFixed
  <2> QED BY <2>2, <2>3
<1>5. ASSUME NEW t \in Trees, NEW install \in Installs, RpmTreeFails(t, install) PROVE Settled'
  BY <1>5 DEF RpmTreeFails, Functional, PendingFixed, LastFixed
<1>6. CASE Killed
  BY <1>6 DEF Killed, Functional, PendingFixed, LastFixed
<1>7. CASE UNCHANGED vars
  <2>1. UNCHANGED <<rules, trees, last, command>>
    BY <1>7 DEF vars
  <2>2. /\ NewRules(command.call)' = NewRules(command.call)
        /\ NewTrees(command.call)' = NewTrees(command.call)
    BY <2>1 DEF NewRules, NewTrees, Process, AddTree, AddRPMs, Readdressed
  <2> QED BY <2>1, <2>2, SameLast DEF Functional, PendingFixed, LastFixed, Outcome
<1> QED BY <1>1, <1>2, <1>3, <1>4, <1>5, <1>6, <1>7 DEF Next

\* A call that is repeated when it has ended writes both files as they are, for
\* any rules and trees (RepeatChangesNothing of BuildFiles; bazel.go:118-163,
\* rpmtree.go:165-180): what it adds has been added, what it prunes is gone.
THEOREM RepeatIsIdle == Spec => RepeatChangesNothing
<1> DEFINE Repeats == command # Idle /\ command.call = last => UNCHANGED <<rules, trees>>
<1>1. Init => Settled
  BY DEF Init, Settled, Functional, PendingFixed, LastFixed
<1>2. Types /\ Settled /\ [Next]_vars => [Repeats]_vars
  <2> SUFFICES ASSUME Types, Settled, Next, command # Idle, command.call = last
               PROVE  UNCHANGED <<rules, trees>>
    BY DEF Types
  <2>1. last # NoCall
    BY CallIsNamed DEF Types
  <2>2. /\ NewTrees(last) = trees /\ NewRules(last) = rules[last.target]
        /\ command.trees = NewTrees(last) /\ Outcome = NewRules(last)
    BY <2>1 DEF Settled, LastFixed, PendingFixed
  <2>3. CASE WriteRules
    BY <2>2, <2>3, OwnTarget DEF WriteRules, Types, FilesOK, Settled, Functional, Outcome
  <2>4. CASE WriteBuild
    BY <2>2, <2>4 DEF WriteBuild, Settled, Functional
  <2> QED BY <2>3, <2>4 DEF Next, RpmTree, RpmTreeFails, Prune, Killed
<1>3. Spec => []Settled
  BY <1>1, TypesAlways, SettledInductive, PTL DEF Spec
<1>4. Spec => [][Repeats]_vars
  BY <1>2, <1>3, TypesAlways, PTL DEF Spec
<1> QED BY <1>4 DEF RepeatChangesNothing
=============================================================================

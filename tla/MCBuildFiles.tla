---------------------------- MODULE MCBuildFiles ----------------------------
(* Small sets of files for BuildFiles.                                      *)
EXTENDS BuildFiles, TLC

CONSTANTS bash, libc, bashtree, libctree, macrotree, locked, other

\* bash and libc as offered first; libc built again, under the same name and at
\* another address; bash built again, at an address that is malformed and with a
\* checksum of an unknown kind.
Small == {
  bash :> [sha |-> "b1", urls |-> "b1"] @@ libc :> [sha |-> "l1", urls |-> "l1"],
  libc :> [sha |-> "l2", urls |-> "l2"],
  bash :> [sha |-> "unknown", urls |-> "bad"]}

\* Nothing, or a rule somebody has written without addresses.
Hand == {<<>>, libc :> [sha |-> "l1", urls |-> "none"]}

\* One BUILD file. Two of its trees share the WORKSPACE, the others have a macro
\* and a lock file of their own.
AllTrees == {bashtree, libctree, macrotree, locked}
OneFile == [t \in AllTrees |-> "rpm/BUILD.bazel"]
ThreeTargets == [t \in AllTrees |-> CASE t = locked -> "rpms.json" [] t = macrotree -> "rpms"
                                      [] OTHER -> "WORKSPACE"]
ThreeKinds == ("WORKSPACE" :> "workspace") @@ ("rpms" :> "macro") @@ ("rpms.json" :> "lockfile")
Prunable == {<<"rpm/BUILD.bazel", "WORKSPACE">>, <<"rpm/BUILD.bazel", "rpms">>}

\* Two BUILD files that share the WORKSPACE.
TwoFiles == (bashtree :> "rpm/BUILD.bazel") @@ (other :> "other/BUILD.bazel")
SharedTarget == [t \in {bashtree, other} |-> "WORKSPACE"]
WorkspaceKind == "WORKSPACE" :> "workspace"
BothPrunes == {<<"rpm/BUILD.bazel", "WORKSPACE">>, <<"other/BUILD.bazel", "WORKSPACE">>}

\* Two trees that share a lock file.
LockTwo == [t \in {bashtree, libctree} |-> "rpms.json"]
LockFile == [t \in {bashtree, libctree} |-> "rpm/BUILD.bazel"]
LockKind == "rpms.json" :> "lockfile"
NoPrune == {}
=============================================================================

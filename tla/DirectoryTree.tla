---------------------------- MODULE DirectoryTree ----------------------------
(***************************************************************************)
(* The tree of pkg/order/order.go, which puts the directories and symbolic  *)
(* links of several RPMs into an order in which an archive can be unpacked. *)
(*                                                                          *)
(* A path is a sequence of names, <<>> the root. A node of the tree is      *)
(* known by its path; `keys` gives the names below each, in the order in    *)
(* which they came, and `header` what has been said of a path, if anything  *)
(* has: a record with at least its `path` and its `kind`.                   *)
(***************************************************************************)
EXTENDS Naturals, Sequences, SequencesExt, Maps

NewDirectoryTree == [keys |-> [node \in {<<>>} |-> <<>>], header |-> <<>>]

Parent(path) == SubSeq(path, 1, Len(path) - 1)
Above(path) == {SubSeq(path, 1, n) : n \in 0..(Len(path) - 1)}

\* Add: the way down to the node is made where it is missing, without headers.
Grown(keys, path) ==
  [node \in DOMAIN keys \cup Above(path) \cup {path} |->
     LET below == IF node \in DOMAIN keys THEN keys[node] ELSE <<>>
     IN  IF node \in Above(path) /\ path[Len(node) + 1] \notin Range(below)
         THEN Append(below, path[Len(node) + 1]) ELSE below]

Add_LastWins(tree, h) ==   \* mutant: a directory takes the place of a link
  IF h.kind \notin {"dir", "symlink"} THEN tree
  ELSE [keys |-> Grown(tree.keys, h.path), header |-> With(tree.header, h.path, h)]

Add(tree, h) ==
  IF h.kind \notin {"dir", "symlink"} THEN tree
  ELSE [keys   |-> Grown(tree.keys, h.path),
        header |-> IF h.path \in DOMAIN tree.header /\ tree.header[h.path].kind # "dir"
                   THEN tree.header ELSE With(tree.header, h.path, h)]

AddAll(tree, headers) ==
  LET added[n \in 0..Len(headers)] == IF n = 0 THEN tree ELSE Add(added[n - 1], headers[n])
  IN  added[Len(headers)]

\* Traverse: breadth first, those below a node in the order in which they came.
Below(tree, nodes) ==
  FlattenSeq([n \in DOMAIN nodes |->
    [k \in DOMAIN tree.keys[nodes[n]] |-> Append(nodes[n], tree.keys[nodes[n]][k])]])

Headers(tree, nodes) ==
  FlattenSeq([n \in DOMAIN nodes |->
    IF nodes[n] \in DOMAIN tree.header THEN <<tree.header[nodes[n]]>> ELSE <<>>])

Traverse_Deepest(tree) ==   \* mutant: the queue is used as a stack, from the far end
  LET depth == Max({Len(node) : node \in DOMAIN tree.keys})
      level[d \in 0..depth] == IF d = 0 THEN << <<>> >> ELSE Below(tree, level[d - 1])
  IN  Headers(tree, Reverse(FlattenSeq([d \in 1..depth |-> level[d]])))

Traverse(tree) ==
  LET depth == Max({Len(node) : node \in DOMAIN tree.keys})
      level[d \in 0..depth] == IF d = 0 THEN << <<>> >> ELSE Below(tree, level[d - 1])
  IN  Headers(tree, FlattenSeq([d \in 1..depth |-> level[d]]))
=============================================================================

----------------------------- MODULE FileSystem -----------------------------
(***************************************************************************)
(* The calls by which pkg/rpm/tar.go unpacks archives, on a file system     *)
(* that is a function from paths (sequences of names) to nodes: a "dir", a  *)
(* "file" with its body, or a "symlink" with the names it leads along, ".." *)
(* among them. The root <<>> is the directory that is unpacked into; ".."   *)
(* stays there, as in a chroot.                                             *)
(***************************************************************************)
EXTENDS Naturals, Sequences, SequencesExt, Maps

CONSTANT MaxSteps   \* how many names and links are followed, as the kernel bounds it
ASSUME KernelAssumption == MaxSteps \in Nat

Directory == [kind |-> "dir"]
EmptyRoot == [path \in {<<>>} |-> Directory]
Dir(path) == Front(path)

\* How the kernel finds a path: `at` is where it has got to, `rest` what is left; a
\* name that is not there, or is below a file, is where it stays.
Follow(fs, w) ==
  IF w.rest = <<>> THEN w
  ELSE LET name == Head(w.rest)
           next == Append(w.at, name)
       IN  CASE name = ".." -> [at |-> IF w.at = <<>> THEN <<>> ELSE Dir(w.at), rest |-> Tail(w.rest)]
             [] name # ".." /\ next \notin DOMAIN fs -> w
             [] name # ".." /\ next \in DOMAIN fs /\ fs[next].kind = "symlink" ->
                  [at |-> w.at, rest |-> fs[next].to \o Tail(w.rest)]
             [] OTHER -> [at |-> next, rest |-> Tail(w.rest)]
Walk(fs, path) ==
  LET walk[n \in 0..MaxSteps] ==
        IF n = 0 THEN [at |-> <<>>, rest |-> path] ELSE Follow(fs, walk[n - 1])
  IN  walk[MaxSteps]

\* A path that the kernel follows to its end by its names, and on to another one if that is
\* where a link leads.
Plain(path) == ".." \notin Range(path) /\ 3 * Len(path) <= MaxSteps

Found(fs, path) == Walk(fs, path).rest = <<>>
Node(fs, path) == fs[Walk(fs, path).at]
IsDir(fs, path) == Found(fs, path) /\ Node(fs, path).kind = "dir"
Place(fs, path) == Append(Walk(fs, Dir(path)).at, Last(path))   \* of a new name

\* The calls: the file system after them, and whether they fail.
Try(fs, can, place, node) == [fs |-> IF can THEN With(fs, place, node) ELSE fs, failed |-> ~can]

Mkdir(fs, path) ==
  Try(fs, IsDir(fs, Dir(path)) /\ Place(fs, path) \notin DOMAIN fs, Place(fs, path), Directory)
MkdirAll_Leaf(fs, path) ==   \* mutant: what is above is not made
  IF IsDir(fs, path) THEN [fs |-> fs, failed |-> FALSE] ELSE Mkdir(fs, path)
MkdirAll(fs, path) ==
  LET made[n \in 0..Len(path)] ==
        IF n = 0 THEN [fs |-> fs, failed |-> FALSE]
        ELSE IF made[n - 1].failed \/ IsDir(made[n - 1].fs, SubSeq(path, 1, n)) THEN made[n - 1]
        ELSE Mkdir(made[n - 1].fs, SubSeq(path, 1, n))
  IN  made[Len(path)]
Create(fs, path, body) ==
  LET w == Walk(fs, path)
      place == w.at \o w.rest
  IN  Try(fs, /\ Len(w.rest) <= 1 /\ place # <<>> /\ fs[Dir(place)].kind = "dir"
              /\ place \in DOMAIN fs => fs[place].kind = "file",
          place, [kind |-> "file", body |-> body])
Symlink(fs, names, path) ==
  Try(fs, IsDir(fs, Dir(path)) /\ Place(fs, path) \notin DOMAIN fs, Place(fs, path),
      [kind |-> "symlink", to |-> names])
Link(fs, source, path) ==
  LET can == /\ IsDir(fs, Dir(source)) /\ Place(fs, source) \in DOMAIN fs
             /\ fs[Place(fs, source)].kind # "dir"
             /\ IsDir(fs, Dir(path)) /\ Place(fs, path) \notin DOMAIN fs
  IN  Try(fs, can, Place(fs, path), fs[Place(fs, source)])

\* filepath.Rel: the names that lead from one directory to a path, lexically.
Shared(p, q) == CHOOSE n \in 0..Len(p) :
  /\ n <= Len(q) /\ SubSeq(p, 1, n) = SubSeq(q, 1, n)
  /\ n < Len(p) /\ n < Len(q) => p[n + 1] # q[n + 1]
Rel(dir, path) ==
  [n \in 1..(Len(dir) - Shared(dir, path)) |-> ".."] \o SubSeq(path, Shared(dir, path) + 1, Len(path))
=============================================================================

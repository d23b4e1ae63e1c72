-------------------------------- MODULE Ldd --------------------------------
(***************************************************************************)
(* Resolve of pkg/ldd/ldd.go: the shared libraries some ELF objects need,   *)
(* found breadth first in a list of directories, with the symbolic links    *)
(* that lead to them.  `bazeldnf ldd` lists them in a tar2files rule.       *)
(*                                                                          *)
(* A path is <<directory, name>>.  A file is <<"none">>, an ELF file with   *)
(* the names of the libraries it needs <<"elf", names>>, or a link          *)
(* <<"link", target>>, whose target is in directory "." when it is relative.*)
(* No links of an input lead round in a circle: such a link cannot be       *)
(* opened, and where followSymlinks alone sees a circle, because it takes   *)
(* relative links from another directory, it would not return.             *)
(***************************************************************************)
EXTENDS Integers, Sequences, SequencesExt

CONSTANTS
  Dirs,   \* directories, "." not being one of them
  Names,  \* names of files
  Inputs  \* [objects: paths, libraryPath: directories, fs: path -> file]

Paths == Dirs \X Names
File == {<<"none">>} \cup ({"elf"} \X Seq(Names)) \cup ({"link"} \X ((Dirs \cup {"."}) \X Names))

VARIABLES
  input,      \* the input of this call
  obj,        \* the object it is at
  next,       \* the files still to be looked into, the first one now
  processed,  \* the files found from this object
  finalFiles, \* the files of the answer
  status      \* "running", "done" or "failed"

vars == <<input, obj, next, processed, finalFiles, status>>

\* The file system as ldd.go sees it: what a link leads to, what elf.Open and os.Stat
\* accept, and the first directory that has a library.

Links(fs) == {p \in DOMAIN fs : fs[p][1] = "link"}

\* Where a link leads, a relative one being taken from directory dir.
Target(fs, dir, p) ==
  LET target == fs[p][2] IN IF target[1] = "." THEN <<dir, target[2]>> ELSE target

\* The files from a path on, if a link p leads to `to[p]`: what is behind each link, and
\* once more the file at the end.
Chain(fs, to) ==
  LET chain[p \in DOMAIN fs] ==
        IF p \in DOMAIN to THEN <<to[p]>> \o chain[to[p]] ELSE <<p>>
  IN chain

\* The operating system takes a relative link from its own directory, followSymlinks
\* every one from that of the first.
OwnTargets(fs) == [p \in Links(fs) |-> Target(fs, p[1], p)]
TargetsFrom(fs, dir) == [p \in Links(fs) |-> Target(fs, dir, p)]

Real(fs, p) == Last(Chain(fs, OwnTargets(fs))[p])
followSymlinks(fs, file) == Chain(fs, TargetsFrom(fs, file[1]))[file]

\* No links lead round in a circle.
Straight(to) == \A S \in SUBSET DOMAIN to : S # {} => \E p \in S : to[p] \notin S

ASSUME InputsAssumption ==
  \A i \in Inputs :
    /\ i.fs \in [Paths -> File]
    /\ i.objects \in Seq(Paths) \ {<<>>} /\ i.libraryPath \in Seq(Dirs)
    /\ Straight(OwnTargets(i.fs)) /\ \A dir \in Dirs : Straight(TargetsFrom(i.fs, dir))

Exists(fs, p) == fs[Real(fs, p)][1] # "none"
Opens(fs, p)  == fs[Real(fs, p)][1] = "elf"

\* bin.ImportedLibraries of an ELF file.
Needed(fs, p) == IF Opens(fs, p) THEN fs[Real(fs, p)][2] ELSE <<>>

LinksFail(fs, p) == \E q \in Range(followSymlinks(fs, p)) : fs[q][1] = "none"

Found(fs, dirs, name) == \E i \in DOMAIN dirs : Exists(fs, <<dirs[i], name>>)

Located(fs, dirs, name) ==
  LET i == CHOOSE i \in DOMAIN dirs :
             /\ Exists(fs, <<dirs[i], name>>)
             /\ \A j \in 1..(i - 1) : ~Exists(fs, <<dirs[j], name>>)
  IN <<dirs[i], name>>
----------------------------------------------------------------------------
object == input.objects[obj]

\* A list without the members known, and each of the others once.
Earlier(list, m) == {list[x] : x \in 1..(m - 1)}
Without(list, known) ==
  FlattenSeq([m \in DOMAIN list |->
    IF list[m] \in known \cup Earlier(list, m) THEN <<>> ELSE <<list[m]>>])

\* Mutant: the file looked into is queued again.
Rest_Forever(queue) == Append(Tail(queue), Head(queue))

\* The queue after its first file was looked into: the slice also ends one short.
Rest(queue) == SubSeq(queue, 2, Len(queue) - 1)

\* Mutant: a library is listed in every directory that has it.
ldd_AllDirs(fs, dirs, p) ==
  FlattenSeq([i \in DOMAIN Needed(fs, p) |->
    FlattenSeq([j \in DOMAIN dirs |-> <<<<dirs[j], Needed(fs, p)[i]>>>>])])

\* What ldd finds, in the order in which the file names its libraries.
ldd(fs, dirs, p) ==
  FlattenSeq([i \in DOMAIN Needed(fs, p) |->
    LET file == Located(fs, dirs, Needed(fs, p)[i])
    IN <<file>> \o followSymlinks(fs, file)])

\* The file is an ELF file, and each library is in one of the directories.
lddSucceeds(fs, dirs, p) ==
  /\ Opens(fs, p)
  /\ \A i \in DOMAIN Needed(fs, p) :
       /\ Found(fs, dirs, Needed(fs, p)[i])
       /\ ~LinksFail(fs, Located(fs, dirs, Needed(fs, p)[i]))
----------------------------------------------------------------------------
Init ==
  /\ input \in Inputs
  /\ obj = 1 /\ next = <<object>> /\ processed = {} /\ finalFiles = <<>>
  /\ status = "running"

\* Mutant: a file is listed when it is looked into.
LookInto_ListedLater ==
  /\ status = "running" /\ next # <<>>
  /\ lddSucceeds(input.fs, input.libraryPath, Head(next))
  /\ \E found \in {Without(ldd(input.fs, input.libraryPath, Head(next)), processed)} :
       /\ processed' = processed \cup Range(found)
       /\ finalFiles' = finalFiles \o Without(<<Head(next)>>, Range(finalFiles))
       /\ next' = Rest(next \o found)
  /\ UNCHANGED <<input, obj, status>>

LookInto ==
  /\ status = "running" /\ next # <<>>
  /\ lddSucceeds(input.fs, input.libraryPath, Head(next))
  /\ \E found \in {Without(ldd(input.fs, input.libraryPath, Head(next)), processed)} :
       /\ processed' = processed \cup Range(found)
       /\ finalFiles' = finalFiles \o Without(found, Range(finalFiles))
       /\ next' = Rest(next \o found)
  /\ UNCHANGED <<input, obj, status>>

Fail ==
  /\ status = "running"
  /\ IF next # <<>> THEN ~lddSucceeds(input.fs, input.libraryPath, Head(next))
     ELSE LinksFail(input.fs, object)
  /\ status' = "failed"
  /\ UNCHANGED <<input, obj, next, processed, finalFiles>>

\* Mutant: the object's own links are not listed.
EndObject_NoLinks ==
  /\ status = "running" /\ next = <<>> /\ ~LinksFail(input.fs, object)
  /\ finalFiles' = finalFiles \o Without(<<object>>, Range(finalFiles))
  /\ processed' = {}
  /\ IF obj < Len(input.objects)
     THEN obj' = obj + 1 /\ next' = <<input.objects[obj + 1]>> /\ UNCHANGED status
     ELSE status' = "done" /\ UNCHANGED <<obj, next>>
  /\ UNCHANGED input

\* The object itself and its links, and on to the next object.
EndObject ==
  /\ status = "running" /\ next = <<>> /\ ~LinksFail(input.fs, object)
  /\ finalFiles' = finalFiles
       \o Without(<<object>> \o followSymlinks(input.fs, object), Range(finalFiles))
  /\ processed' = {}
  /\ IF obj < Len(input.objects)
     THEN obj' = obj + 1 /\ next' = <<input.objects[obj + 1]>> /\ UNCHANGED status
     ELSE status' = "done" /\ UNCHANGED <<obj, next>>
  /\ UNCHANGED input

Next == LookInto \/ Fail \/ EndObject

Spec == Init /\ [][Next]_vars /\ WF_vars(Next)
----------------------------------------------------------------------------
TypeOK ==
  LET paths == DOMAIN input.fs IN
    /\ obj \in DOMAIN input.objects
    /\ next \in Seq(paths) /\ processed \subseteq paths /\ finalFiles \in Seq(paths)
    /\ status \in {"running", "done", "failed"}
    /\ Range(next) \subseteq processed \cup {object}
    /\ processed \subseteq Range(finalFiles)

\* A file leads to a library it needs, where the loader would find it, and a
\* link to its target.
Leads(f, g) ==
  LET fs == input.fs IN
    \/ fs[f][1] = "link" /\ g = Target(fs, f[1], f)
    \/ \E i \in DOMAIN Needed(fs, f) :
         /\ Found(fs, input.libraryPath, Needed(fs, f)[i])
         /\ g = Located(fs, input.libraryPath, Needed(fs, f)[i])

\* A link that leads to another place than its own directory does not lead to a relative
\* link: what followSymlinks and the operating system make of it is the same.
Agree(fs) ==
  \A p \in Links(fs) : fs[p][2][1] # "." =>
    ~(fs[fs[p][2]][1] = "link" /\ fs[fs[p][2]][2][1] = ".")

\* Nothing is listed twice, and only what an object leads to: an object, or what
\* an object or a file listed earlier leads to (ldd.go:10-63).
OnlyNeeded ==
  \A j \in DOMAIN finalFiles :
    LET f == finalFiles[j]
        earlier == Earlier(finalFiles, j)
        objects == Range(input.objects)
    IN /\ f \notin earlier
       /\ f \in objects \/ \E g \in objects \cup earlier : Leads(g, f)

\* No link is listed without its target: a library extracted from the list can
\* be opened (ldd.go:85-89, 56-60).
LinksComplete ==
  status = "done" => \A f \in Range(finalFiles) :
    input.fs[f][1] = "link" => Target(input.fs, f[1], f) \in Range(finalFiles)

\* Every library the objects themselves need was found and is listed, in
\* whatever order the queue is worked off (ldd.go:40-51, 93-95).
DirectComplete ==
  status = "done" => \A o \in Range(input.objects) : \A i \in DOMAIN Needed(input.fs, o) :
    LET name == Needed(input.fs, o)[i] IN
      /\ Found(input.fs, input.libraryPath, name)
      /\ Located(input.fs, input.libraryPath, name) \in Range(finalFiles)

\* "the `tar2files` target will be updated with all transitive library
\* dependencies" (README.md:194).
TransitiveComplete ==
  status = "done" => \A f \in Range(finalFiles) : \A g \in DOMAIN input.fs :
    Leads(f, g) => g \in Range(finalFiles)

\* The search ends, even when libraries need each other (ldd.go:33-53).
Ends == <>(status # "running")

\* The list grows with what has been looked into: each file once, in the queue or
\* done with, and none without a file before it that leads there.
ListSound == TypeOK /\ OnlyNeeded
============================================================================

------------------------------ MODULE Rpm2Tar ------------------------------
(***************************************************************************)
(* `bazeldnf rpm2tar` (cmd/rpm2tar.go, pkg/rpm/tar.go, pkg/rpm/cpio2tar.go): *)
(* it writes the directories and symbolic links of all RPMs, ordered, and   *)
(* then the files of one RPM after the other, each path once; or, without   *)
(* --input, everything of the one RPM on its standard input.                *)
(*                                                                          *)
(* An RPM is a sequence of entries: path, kind ("dir", "symlink", "file",   *)
(* "special" for devices and pipes, "socket"), where a link leads, inode,   *)
(* whether the inode has several names, and a body, <<>> if it is empty.    *)
(* One of the names of an inode comes with the body, the others without.    *)
(* The names in an RPM start with "./"; options may spell a path otherwise. *)
(***************************************************************************)
EXTENDS DirectoryTree, FiniteSets

CONSTANT Commands  \* sets of commands: records of rpms, the RPMs they are given, most,
                   \* how many at once, and options: whether stdin is read, symlinks in
                   \* the order of their names (headers), capabilities and labels (sets
                   \* of form and path), which of these are unsupported or empty

IsLink_Empty(e) == e.kind = "file" /\ e.body = <<>>   \* mutant: any empty file
IsLink(e) == e.kind = "file" /\ e.linked /\ e.body = <<>>

Name == STRING
Path == Seq(Name) \ {<<>>}
RpmEntry ==
  [path: Path, kind: {"dir", "symlink", "file", "special", "socket"}, to: Seq(Name),
   ino: Nat, linked: BOOLEAN, body: Seq(STRING)]
TarHeader ==
  [path: Path, kind: {"dir", "symlink", "file", "special", "link"}, to: Seq(Name),
   body: Seq(STRING), attributes: SUBSET {"capability", "selinux"}]

\* An RPM has a path once, and the body of an inode with one of its names.
IsRpm(r) ==
  /\ r \in Seq(RpmEntry)
  /\ \A m, n \in DOMAIN r : m # n =>
       /\ r[m].path # r[n].path
       /\ r[m].kind = "file" /\ r[n].kind = "file" /\ r[m].ino = r[n].ino =>
            IsLink(r[m]) \/ IsLink(r[n])

ASSUME CommandsAssumption ==
  \A c \in Commands :
    /\ c.most \in Nat /\ \A r \in c.rpms : IsRpm(r)
    /\ \A o \in c.options : /\ o.stdin \in BOOLEAN /\ o.symlinks \in Seq(TarHeader)
                             /\ \A h \in Range(o.symlinks) : h.kind = "symlink"
                             /\ o.unsupported \subseteq o.capabilities /\ o.empty \subseteq o.labels

VARIABLES
  options,      \* the options of the command
  rpms,         \* its RPMs
  tree,         \* directoryTree
  archive,      \* what has been written, in order
  createdPaths, \* of the collector: the paths of all RPMs so far
  inodes,       \* of the RPM under way: the path with the body of an inode
  hardLinks,    \* of the RPM under way: the other names of an inode
  rpm, entry,   \* the RPM and the entry of it that come next
  pc            \* "tree", "files", "done" or "failed"

vars == <<options, rpms, tree, archive, createdPaths, inodes, hardLinks, rpm, entry, pc>>

\* The name of an entry, and the keys under which the attributes are looked up.
FileName(e) == [form |-> "./", path |-> e.path]
CapabilityKey_AsGiven(file) == file   \* mutant: the leading slash stays
CapabilityKey(file) ==
  IF file.form \in {"/", ""} THEN [file EXCEPT !.form = "./"] ELSE [file EXCEPT !.form = "././"]
HasCapabilities(e, spellings) == FileName(e) \in {CapabilityKey(f) : f \in spellings}
Attributes(e) ==
  (IF HasCapabilities(e, options.capabilities) THEN {"capability"} ELSE {})
    \cup (IF FileName(e) \in options.labels THEN {"selinux"} ELSE {})

\* AddCapabilities refuses all but five capabilities, SetSELinuxLabel an empty label.
\* Of two spellings of a file the map of capabilities holds either.
Refused(e) == HasCapabilities(e, options.unsupported) \/ FileName(e) \in options.empty
Granted(e) ==
  /\ HasCapabilities(e, options.unsupported) =>
       HasCapabilities(e, options.capabilities \ options.unsupported)
  /\ FileName(e) \notin options.empty

Header(e, kind, attributes) ==
  [path |-> e.path, kind |-> kind, to |-> e.to, body |-> e.body, attributes |-> attributes]
CPIOToTarHeader(e) == Header(e, e.kind, {})

Start(c) ==
  /\ options \in c.options
  /\ rpms \in UNION {[1..n -> c.rpms] : n \in 1..(IF options.stdin THEN 1 ELSE c.most)}
  /\ tree = NewDirectoryTree
  /\ archive = <<>> /\ createdPaths = {} /\ inodes = <<>> /\ hardLinks = <<>>
  /\ rpm = 1 /\ entry = 1
  /\ pc = IF options.stdin THEN "files" ELSE "tree"

Init == \E c \in Commands : Start(c)

\* TreeFromRPMs, one RPM after the other.
AddRPM ==
  /\ pc = "tree" /\ rpm <= Len(rpms)
  /\ IF \E e \in Range(rpms[rpm]) : e.kind = "socket"
     THEN pc' = "failed" /\ UNCHANGED <<tree, rpm>>
     ELSE /\ tree' = AddAll(tree, [n \in DOMAIN rpms[rpm] |-> CPIOToTarHeader(rpms[rpm][n])])
          /\ rpm' = rpm + 1 /\ pc' = pc
  /\ UNCHANGED <<options, rpms, archive, createdPaths, inodes, hardLinks, entry>>

\* The links of the command line come last into the tree, which is then written.
WriteTree ==
  /\ pc = "tree" /\ rpm > Len(rpms)
  /\ tree' = AddAll(tree, options.symlinks)
  /\ archive' = Traverse(tree')
  /\ rpm' = 1 /\ pc' = "files"
  /\ UNCHANGED <<options, rpms, createdPaths, inodes, hardLinks, entry>>

Entry == rpms[rpm][entry]
Reading == pc = "files" /\ rpm <= Len(rpms) /\ entry <= Len(rpms[rpm])

Duplicate_Never(e) == FALSE   \* mutant: a path is written for each RPM that has it
Duplicate(e) == e.path \in createdPaths

SkipDuplicate ==
  /\ Reading /\ Duplicate(Entry)
  /\ entry' = entry + 1
  /\ UNCHANGED <<options, rpms, tree, archive, createdPaths, inodes, hardLinks, rpm, pc>>

InTree(e) == ~options.stdin /\ e.kind \in {"dir", "symlink"}

AttributesFail ==
  /\ Reading /\ ~Duplicate(Entry) /\ Refused(Entry)
  /\ pc' = "failed"
  /\ UNCHANGED <<options, rpms, tree, archive, createdPaths, inodes, hardLinks, rpm, entry>>

CopyEntry ==
  /\ Reading /\ ~Duplicate(Entry) /\ Granted(Entry)
  /\ ~InTree(Entry) /\ ~IsLink(Entry) /\ Entry.kind # "socket"
  /\ archive' = Append(archive, Header(Entry, Entry.kind, Attributes(Entry)))
  /\ inodes' = IF Entry.kind = "file" THEN With(inodes, Entry.ino, Entry.path) ELSE inodes
  /\ createdPaths' = createdPaths \cup {Entry.path}
  /\ entry' = entry + 1
  /\ UNCHANGED <<options, rpms, tree, hardLinks, rpm, pc>>

PassOver ==   \* it is in the tree, or it is a name to be written later
  /\ Reading /\ ~Duplicate(Entry) /\ Granted(Entry) /\ (InTree(Entry) \/ IsLink(Entry))
  /\ hardLinks' = IF ~IsLink(Entry) THEN hardLinks
                  ELSE LET known == IF Entry.ino \in DOMAIN hardLinks
                                    THEN hardLinks[Entry.ino] ELSE <<>>
                       IN  With(hardLinks, Entry.ino,
                                Append(known, Header(Entry, "link", Attributes(Entry))))
  /\ createdPaths' = createdPaths \cup {Entry.path}
  /\ entry' = entry + 1
  /\ UNCHANGED <<options, rpms, tree, archive, inodes, rpm, pc>>

UnknownMode ==
  /\ Reading /\ ~Duplicate(Entry) /\ Granted(Entry) /\ Entry.kind = "socket"
  /\ pc' = "failed"
  /\ UNCHANGED <<options, rpms, tree, archive, createdPaths, inodes, hardLinks, rpm, entry>>

\* The hard links are written when all else of the RPM has been, in the order of the
\* inodes; one that has no path with the body ends the command.
LinksTo(node) == [n \in DOMAIN hardLinks[node] |-> [hardLinks[node][n] EXCEPT !.to = inodes[node]]]

NextMaps_Kept(maps) == maps   \* mutant: the maps are not made anew for each RPM
NextMaps(maps) == [inodes |-> <<>>, hardLinks |-> <<>>]

Sorted(S) == {s \in [1..Cardinality(S) -> S] : \A m, n \in DOMAIN s : m < n => s[m] < s[n]}

WriteHardLinks ==
  /\ pc = "files" /\ rpm <= Len(rpms) /\ entry > Len(rpms[rpm])
  /\ LET lost == DOMAIN hardLinks \ DOMAIN inodes
         ready == {node \in DOMAIN hardLinks : \A l \in lost : node < l}
         next == NextMaps([inodes |-> inodes, hardLinks |-> hardLinks])
     IN  /\ \E sortedNodes \in Sorted(ready) :
              archive' = archive \o FlattenSeq([n \in DOMAIN sortedNodes |-> LinksTo(sortedNodes[n])])
         /\ inodes' = next.inodes /\ hardLinks' = next.hardLinks
         /\ rpm' = rpm + 1 /\ entry' = 1
         /\ pc' = IF lost # {} THEN "failed" ELSE IF rpm = Len(rpms) THEN "done" ELSE pc
  /\ UNCHANGED <<options, rpms, tree, createdPaths>>

Terminated == pc \in {"done", "failed"} /\ UNCHANGED vars

Next ==
  \/ AddRPM \/ WriteTree
  \/ SkipDuplicate \/ AttributesFail \/ CopyEntry \/ PassOver \/ UnknownMode \/ WriteHardLinks
  \/ Terminated

Spec == Init /\ [][Next]_vars
----------------------------------------------------------------------------
TypeOK ==
  /\ pc \in {"tree", "files", "done", "failed"}
  /\ rpm \in 1..(Len(rpms) + 1) /\ entry \in Nat \ {0}
  /\ DOMAIN tree.header \subseteq DOMAIN tree.keys
  /\ createdPaths \subseteq UNION {{e.path : e \in Range(r)} : r \in Range(rpms)}
  /\ \A node \in DOMAIN inodes :
       /\ inodes[node] \in createdPaths
       /\ rpm \in DOMAIN rpms
       /\ \E e \in Range(rpms[rpm]) : e.path = inodes[node] /\ e.ino = node

\* What an RPM has to say of its own files, and the archive of its.
Body(r, e) ==
  IF ~IsLink(e) THEN {e.body}
  ELSE {o.body : o \in {o \in Range(r) : o.kind = "file" /\ o.ino = e.ino /\ ~IsLink(o)}}
BodyInArchive(a) ==
  IF a.kind = "file" THEN {a.body}
  ELSE {o.body : o \in {o \in Range(archive) : o.path = a.to /\ o.kind = "file"}}

\* Each file of an RPM is in the archive under its name and with its content, whatever
\* else bears the same inode number; of two RPMs with one path, the first one counts
\* (cpio2tar.go:49-54, 113-121, 132-152).
FilesKept ==
  pc = "done" => \A n \in DOMAIN rpms : \A e \in Range(rpms[n]) :
    e.kind = "file" /\ (\A m \in 1..(n - 1) : \A o \in Range(rpms[m]) : o.path # e.path) =>
      \E a \in Range(archive) : /\ a.path = e.path /\ a.kind \in {"file", "link"}
                                /\ BodyInArchive(a) = Body(rpms[n], e)

\* Each directory and symbolic link is in the archive once, a link rather than a
\* directory, and of the links of several RPMs the first (order.go:34-38). Where the
\* command line asks for a link, too, it is one of those.
Claims == FlattenSeq(rpms)
TreeKept ==
  pc = "done" /\ ~options.stdin =>
    \A c \in Range(Claims) \cup Range(options.symlinks) : c.kind \in {"dir", "symlink"} =>
      LET links == {k \in DOMAIN Claims : Claims[k].path = c.path /\ Claims[k].kind = "symlink"}
          first == IF links = {} THEN {} ELSE {Claims[Min(links)].to}
          asked == {h.to : h \in {h \in Range(options.symlinks) : h.path = c.path}}
          found == {n \in DOMAIN archive : archive[n].path = c.path
                                             /\ archive[n].kind \in {"dir", "symlink"}}
      IN  /\ Cardinality(found) = 1
          /\ \A n \in found :
               IF first \cup asked = {} THEN archive[n].kind = "dir"
               ELSE archive[n].kind = "symlink" /\ archive[n].to \in first \cup asked

\* No path is written twice, unless it is a file for one and a directory or a link for
\* another (cpio2tar.go:49-54).
OncePerPath ==
  \A m, n \in DOMAIN archive : m < n /\ archive[m].path = archive[n].path =>
    archive[m].kind \in {"dir", "symlink"} /\ archive[n].kind \notin {"dir", "symlink"}

\* What unpacks the archive meets a directory or link before anything below it, and the
\* name with the body before the other names of a file (order.go:47-67, rpm2tar.go:77).
BeforeWhatIsBelow ==
  \A m, n \in DOMAIN archive : m < n =>
    /\ ~options.stdin /\ archive[n].kind \in {"dir", "symlink"} =>
         archive[n].path \notin Above(archive[m].path)
    /\ archive[m].kind = "link" => archive[m].to # archive[n].path

\* The command only gives up if an entry has an unknown mode, the first RPM with a path
\* is to give it an unsupported capability or an empty label, or no name of an inode
\* comes with a body under a path that is not in an earlier RPM.
FailsForAReason ==
  pc = "failed" => \E n \in DOMAIN rpms : \E e \in Range(rpms[n]) :
    \/ e.kind = "socket"
    \/ Refused(e) /\ \A m \in 1..(n - 1) : \A p \in Range(rpms[m]) : p.path # e.path
    \/ e.linked /\ \A o \in Range(rpms[n]) :
         o.kind = "file" /\ o.ino = e.ino /\ o.body # <<>> =>
           \E m \in 1..(n - 1) : \E p \in Range(rpms[m]) : p.path = o.path

\* A file that --capabilities names, as the documentation does, has them; a label needs
\* the form the names have in the RPM (rpm2tar.go:40-51, cpio2tar.go:57-67).
AttributesSet ==
  \A a \in Range(archive) : a.kind \in {"file", "link"} =>
    /\ (\E form \in {"/", ""} : [form |-> form, path |-> a.path] \in options.capabilities)
         => "capability" \in a.attributes
    /\ FileName(a) \in options.labels => "selinux" \in a.attributes

\* A finished archive holds every file, directory and link once, with what belongs to
\* it; there is none only for what is wrong with the RPMs or the attributes asked for.
ArchiveSound == TypeOK /\ FilesKept /\ TreeKept /\ OncePerPath /\ AttributesSet /\ FailsForAReason
=============================================================================

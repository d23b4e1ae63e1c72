------------------------------ MODULE TarFiles ------------------------------
(***************************************************************************)
(* `bazeldnf tar2files`: PrefixFilter of pkg/rpm/tar.go copies the files a  *)
(* build target declares from an archive that rpm2tar has written to where  *)
(* Bazel expects them. The rule gives it the prefix, a directory of the     *)
(* archive, and the outputs, whose parents Bazel makes. An output may have  *)
(* the prefix in its path or not; here all lie where they do in the         *)
(* archive, as those of the targets of one tar2files macro do.              *)
(***************************************************************************)
EXTENDS Rpm2Tar, FileSystem

CONSTANTS
  Requests,   \* records of prefix and files, the paths given on the command line
  Longer      \* pairs of names of which the second starts with the first

VARIABLES
  request,    \* the command line of tar2files
  fileMap,    \* for each path that has not been found yet, its output
  out,        \* the directory of the outputs
  position,   \* the next entry of the archive
  filter      \* "idle", "reading", "done" or "failed"

filtering == <<request, fileMap, out, position, filter>>

\* The prefix is put before a file unless its text occurs in that of the file.
Starts(name, text) == name = text \/ <<text, name>> \in Longer
Occurs(p, q) ==
  p = <<>> \/ \E n \in 0..(Len(q) - Len(p)) :
    SubSeq(q, n + 1, n + Len(p) - 1) = Front(p) /\ Starts(q[n + Len(p)], Last(p))
Key_Always(prefix, file) == prefix \o file   \* mutant: also where it is there
Key(prefix, file) == IF Occurs(prefix, file) THEN file ELSE prefix \o file

\* What is meant by a file, and the directories that Bazel makes for it.
Meant(prefix, file) == IF IsPrefix(prefix, file) THEN file ELSE prefix \o file
Declared(r) == {Meant(r.prefix, file) : file \in r.files}
\* The text of the prefix is nowhere in the files but at their start.
Straight(r) == \A file \in r.files : Occurs(r.prefix, file) => IsPrefix(r.prefix, file)
Prepared(r) == [p \in UNION {Above(q) : q \in Declared(r)} |-> Directory]

NoRequest == [prefix |-> <<>>, files |-> {}]
FilterInit ==
  request = NoRequest /\ fileMap = <<>> /\ out = EmptyRoot /\ position = 1 /\ filter = "idle"

PrefixFilter(r) ==
  /\ pc = "done" /\ filter = "idle"
  /\ request' = r
  /\ fileMap' = [key \in {Key(r.prefix, file) : file \in r.files} |->
                   Meant(r.prefix, CHOOSE file \in r.files : Key(r.prefix, file) = key)]
  /\ out' = Prepared(r)
  /\ filter' = "reading"
  /\ UNCHANGED <<vars, position>>

\* The test of the name, with its exception.
Begins(p, q) ==
  p # <<>> => Len(p) <= Len(q) /\ Front(p) = SubSeq(q, 1, Len(p) - 1) /\ Starts(q[Len(p)], Last(p))
InPrefix(prefix, path) ==
  Begins(prefix, path) \/ (prefix = <<"usr", "lib64">> /\ Begins(<<"lib64">>, path))

Wanted == filter = "reading" /\ position <= Len(archive) /\ fileMap # <<>>
FilterEntry == archive[position]
Mapped_Anywhere == FilterEntry.path \in DOMAIN fileMap   \* mutant: no test of the name
Mapped == InPrefix(request.prefix, FilterEntry.path) /\ FilterEntry.path \in DOMAIN fileMap

Skip ==
  /\ Wanted /\ ~Mapped
  /\ position' = position + 1
  /\ UNCHANGED <<vars, request, fileMap, out, filter>>

\* A hard link becomes a symbolic one, relative to where it is.
LinkNames_Plain(e) == e.to   \* mutant: the name in the archive
LinkNames(e) == IF e.kind = "link" THEN Rel(Dir(e.path), e.to) ELSE e.to

Copied(e, output) ==
  CASE e.kind = "file" -> Create(out, output, e.body)
    [] e.kind \in {"symlink", "link"} -> Symlink(out, LinkNames(e), output)
    [] e.kind = "dir" -> MkdirAll(out, output)
    [] e.kind = "special" -> [fs |-> out, failed |-> TRUE]

Remaining_All(path) == fileMap   \* mutant: what was found is still waited for
Remaining(path) == Without(fileMap, path)

Extract ==
  /\ Wanted /\ Mapped
  /\ \E r \in {Copied(FilterEntry, fileMap[FilterEntry.path])} :
       /\ out' = r.fs
       /\ filter' = IF r.failed THEN "failed" ELSE filter
  /\ fileMap' = Remaining(FilterEntry.path)
  /\ position' = position + 1
  /\ UNCHANGED <<vars, request>>

EndFilter ==
  /\ filter = "reading" /\ (position > Len(archive) \/ fileMap = <<>>)
  /\ filter' = IF fileMap = <<>> THEN "done" ELSE "failed"
  /\ UNCHANGED <<vars, request, fileMap, out, position>>

FilterNext == (\E r \in Requests : PrefixFilter(r)) \/ Skip \/ Extract \/ EndFilter
----------------------------------------------------------------------------
FilesTypeOK ==
  /\ filter \in {"idle", "reading", "done", "failed"} /\ position \in Nat \ {0}
  /\ Range(fileMap) \subseteq Declared(request)
  /\ \A n \in DOMAIN archive : n < position /\ InPrefix(request.prefix, archive[n].path) =>
       archive[n].path \notin DOMAIN fileMap
  /\ \A p \in DOMAIN out : p = <<>> \/ (Dir(p) \in DOMAIN out /\ out[Dir(p)].kind = "dir")

\* A file whose text starts with that of the prefix lies below it.
Distinct(r) ==
  \A file \in r.files : Occurs(r.prefix, file) /\ InPrefix(r.prefix, file) => IsPrefix(r.prefix, file)

\* When the command succeeds, each declared file is what the archive has under its
\* name, and leads to the content of another if it was a name of that and both are
\* declared (tar.go:83-141).
First(path) ==
  archive[CHOOSE n \in DOMAIN archive :
            archive[n].path = path /\ \A m \in 1..(n - 1) : archive[m].path # path]
FilesExtracted ==
  filter = "done" /\ Distinct(request) => \A path \in Declared(request) :
    /\ \E a \in Range(archive) : a.path = path
    /\ LET e == First(path)
       IN  CASE e.kind = "dir" -> IsDir(out, path)
             [] e.kind = "symlink" -> out[path] = [kind |-> "symlink", to |-> e.to]
             [] e.kind = "link" /\ (e.to \in Declared(request) => First(e.to).kind # "file") ->
                  out[path].kind = "symlink"
             [] OTHER -> Found(out, path) /\ {Node(out, path).body} = BodyInArchive(e)

\* The command only fails if a file is not in the archive, is neither file, link nor
\* directory, or is a link where Bazel has made a directory (tar.go:52-148); or if the
\* text of the prefix is in its path but not at its start (tar.go:63).
FilterFailsForAReason ==
  filter = "failed" /\ Straight(request) => \E path \in Declared(request) :
    \/ \A a \in Range(archive) : a.path # path
    \/ \E a \in Range(archive) : a.path = path /\ a.kind = "special"
    \/ \E q \in Declared(request) : path \in Above(q)

\* The outputs are what the archive holds.
ExtractedSound == FilesTypeOK /\ FilesExtracted
=============================================================================

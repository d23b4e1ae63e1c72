------------------------------ MODULE Sandbox ------------------------------
(***************************************************************************)
(* `bazeldnf sandbox` and the first step of `bazeldnf ldd`: Untar of        *)
(* pkg/rpm/tar.go unpacks an archive that rpm2tar has written into an empty *)
(* directory. Where a symbolic link leads is a sequence of names, which     *)
(* starts with "/" if it is absolute; hard links are made at the end, in    *)
(* the order of a map.                                                      *)
(***************************************************************************)
EXTENDS Rpm2Tar, FileSystem

VARIABLES
  fs,        \* below tmpRoot
  links,     \* hardLinks of Untar: for each target, the source
  at,        \* the next entry of the archive
  untar      \* "idle", "reading", "linking", "done" or "failed"

unpacking == <<fs, links, at, untar>>

UntarInit == fs = EmptyRoot /\ links = <<>> /\ at = 1 /\ untar = "idle"

\* The action that built the archive has to succeed.
Untar ==
  /\ pc = "done" /\ untar = "idle"
  /\ untar' = "reading"
  /\ UNCHANGED <<vars, fs, links, at>>

UntarEntry == archive[at]
ReadingEntry == untar = "reading" /\ at <= Len(archive)

\* What a call leaves behind, and whether Untar goes on.
Did(r) ==
  /\ fs' = r.fs
  /\ untar' = IF r.failed THEN "failed" ELSE untar
  /\ at' = at + 1
  /\ UNCHANGED vars

UntarDir ==
  /\ ReadingEntry /\ UntarEntry.kind = "dir"
  /\ Did(MkdirAll(fs, UntarEntry.path))
  /\ UNCHANGED links

UntarFile ==
  /\ ReadingEntry /\ UntarEntry.kind = "file"
  /\ \E dir \in {MkdirAll(fs, Dir(UntarEntry.path))} :
       Did(IF dir.failed THEN dir ELSE Create(dir.fs, UntarEntry.path, UntarEntry.body))
  /\ UNCHANGED links

\* An absolute link is to stay below the root: it is made relative to where it is.
Absolute(to) == to # <<>> /\ Head(to) = "/"
Linkname_FromRoot(e) == IF Absolute(e.to) THEN Tail(e.to) ELSE e.to   \* mutant
Linkname(e) == IF Absolute(e.to) THEN Rel(Dir(e.path), Tail(e.to)) ELSE e.to

UntarSymlink ==
  /\ ReadingEntry /\ UntarEntry.kind = "symlink"
  /\ \E dir \in {MkdirAll(fs, Dir(UntarEntry.path))} :
       Did(IF dir.failed THEN dir ELSE Symlink(dir.fs, Linkname(UntarEntry), UntarEntry.path))
  /\ UNCHANGED links

UntarLink ==
  /\ ReadingEntry /\ UntarEntry.kind = "link"
  /\ \E dir \in {MkdirAll(fs, Dir(UntarEntry.path))} :
       /\ Did(dir)
       /\ links' = IF dir.failed THEN links ELSE With(links, UntarEntry.path, UntarEntry.to)

UntarOther ==
  /\ ReadingEntry /\ UntarEntry.kind = "special"
  /\ at' = at + 1
  /\ UNCHANGED <<vars, fs, links, untar>>

EndOfArchive ==
  /\ untar = "reading" /\ at > Len(archive)
  /\ untar' = "linking"
  /\ UNCHANGED <<vars, fs, links, at>>

MakeLink ==
  /\ untar = "linking"
  /\ \E target \in DOMAIN links : \E r \in {Link(fs, links[target], target)} :
       /\ fs' = r.fs
       /\ untar' = IF r.failed THEN "failed" ELSE untar
       /\ links' = Without(links, target)
  /\ UNCHANGED <<vars, at>>

EndUntar ==
  /\ untar = "linking" /\ links = <<>>
  /\ untar' = "done"
  /\ UNCHANGED <<vars, fs, links, at>>

UntarNext ==
  \/ Untar \/ UntarDir \/ UntarFile \/ UntarSymlink \/ UntarLink \/ UntarOther
  \/ EndOfArchive \/ MakeLink \/ EndUntar
----------------------------------------------------------------------------
SandboxTypeOK ==
  /\ untar \in {"idle", "reading", "linking", "done", "failed"} /\ at \in Nat \ {0}
  /\ \A p \in DOMAIN fs : p = <<>> \/ (Dir(p) \in DOMAIN fs /\ fs[Dir(p)].kind = "dir")
  /\ \A target \in DOMAIN links : Found(fs, Dir(target))

\* Two entries of the archive may be one place, if links lead there.
Alone(n) == \A m \in DOMAIN archive : m # n /\ archive[m].kind \in {"file", "link", "symlink"} =>
              Walk(fs, archive[m].path) # Walk(fs, archive[n].path)
\* What the archive holds, is found below the root under the same name: a directory, or
\* a file with its content, unless another entry has its place (tar.go:179-235).
FilesUnpacked ==
  untar = "done" => \A n \in DOMAIN archive :
    /\ archive[n].kind = "dir" => IsDir(fs, archive[n].path)
    /\ /\ archive[n].kind \in {"file", "link"}
       /\ \A m \in DOMAIN archive : archive[m].path \in {archive[n].path, archive[n].to} => Alone(m)
       => Found(fs, archive[n].path)
            /\ {Node(fs, archive[n].path).body} = BodyInArchive(archive[n])

\* A link with an absolute target leads there below the root, not in the system that
\* unpacks (tar.go:208-211). One that is itself reached through a link may not.
AbsoluteLinksLead ==
  untar = "done" => \A a \in Range(archive) :
    a.kind = "symlink" /\ Absolute(a.to) /\ Place(fs, a.path) = a.path
        /\ Found(fs, Tail(a.to)) =>
      Walk(fs, a.path) = Walk(fs, Tail(a.to))

\* Unpacking only fails if two entries of the archive are in each other's way: one that is
\* not a directory is above the other or has its path (tar.go:173-235). The directories
\* are made as they are needed, and what a hard link is made from is there.
InTheWay(m, n) ==
  m # n /\ archive[m].kind \in {"file", "symlink", "link"}
    /\ archive[m].path \in Above(archive[n].path) \cup {archive[n].path}
UntarFailsForAReason == untar = "failed" => \E m, n \in DOMAIN archive : InTheWay(m, n)

\* What has been unpacked is what the archive holds.
UnpackedSound == SandboxTypeOK /\ FilesUnpacked /\ AbsoluteLinksLead
=============================================================================

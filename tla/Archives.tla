------------------------------ MODULE Archives ------------------------------
(***************************************************************************)
(* The life of an archive: rpm2tar writes it, and either sandbox unpacks it *)
(* as a whole or tar2files takes some files out of it. Bazel runs the one   *)
(* action when the other has succeeded.                                     *)
(***************************************************************************)
EXTENDS Sandbox, TarFiles

\* The paths are those of files of a system: no ".." in them, and names enough.
ASSUME PathsAssumption ==
  /\ \A c \in Commands :
       /\ \A r \in c.rpms : \A e \in Range(r) : Plain(e.path)
       /\ \A o \in c.options : \A h \in Range(o.symlinks) : Plain(h.path)
  /\ \A r \in Requests : /\ r.prefix \in Seq(Name) /\ r.files \subseteq Path
                         /\ \A path \in Declared(r) : Plain(path)

VARIABLE use   \* what the archive is for: "none", "sandbox" or "tar2files"

ArchivesInit ==
  /\ \E c \in Commands : Start(c) /\ use = c.use
  /\ UntarInit /\ FilterInit

Write == Next /\ UNCHANGED <<unpacking, filtering, use>>
Unpack == use = "sandbox" /\ UntarNext /\ UNCHANGED <<filtering, use>>
TakeOut == use = "tar2files" /\ FilterNext /\ UNCHANGED <<unpacking, use>>

ArchivesNext == Write \/ Unpack \/ TakeOut
ArchivesSpec == ArchivesInit /\ [][ArchivesNext]_<<vars, unpacking, filtering, use>>
----------------------------------------------------------------------------
\* Who reads the archive only gives up for entries that are in each other's way, or a
\* file that is not there (tar.go:159-235, 84-147).
FailuresJustified == UntarFailsForAReason /\ FilterFailsForAReason
=============================================================================

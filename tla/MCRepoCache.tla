---------------------------- MODULE MCRepoCache ----------------------------
(***************************************************************************)
(* An instance of RepoCache: a repository with a metalink and up to two     *)
(* mirrors, and one with a base URL, of two releases each.                  *)
(***************************************************************************)
EXTENDS RepoCache

MCReleases == 1..2
MCRepos  == <<"fedora", "local">>
MCSource == [n \in {"fedora", "local"} |-> IF n = "fedora" THEN "metalink" ELSE "baseurl"]

\* Named after the checksum, as createrepo does today, and as it once did.
MCPrimaryName == [n \in {"fedora", "local"} |-> [r \in MCReleases |->
  CASE n = "local" -> "primary.xml.gz"
    [] r = 1 -> "1-primary.xml.gz" [] r = 2 -> "2-primary.xml.gz"]]

\* The second metalink lists an older release as an alternate.
MCMetalinks ==
  {[sums |-> {2}, urls |-> 1], [sums |-> {1, 2}, urls |-> 2]}
============================================================================

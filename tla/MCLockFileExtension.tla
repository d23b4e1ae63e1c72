------------------------ MODULE MCLockFileExtension ------------------------
(* Small lock files and tags for LockFileExtension.                         *)
EXTENDS LockFileExtension, TLC

bash == <<"bash">>
glibc == <<"glibc">>
cpp == <<"libstdc++">>
extra == <<"extra">>
Plus == cpp :> <<"libstdcplusplus">>

Rpm(id, dependencies, url) ==
  [id |-> id, dependencies |-> dependencies, url |-> url, named |-> TRUE, mirrored |-> TRUE]
Lock_(rpms, targets) == [exists |-> TRUE, rpms |-> rpms, targets |-> targets]

\* bash needs two packages that need each other; the same in newer files; a chain
\* as long as the search, with a dependency that is ignored; an RPM without name,
\* one without mirrors, and no file.
Circle(url) ==
  Lock_(<<Rpm(bash, <<glibc, cpp>>, url), Rpm(glibc, <<cpp>>, url), Rpm(cpp, <<glibc>>, url)>>,
        <<bash, extra>>)
Chain == Lock_(<<Rpm(extra, <<bash>>, "c"), Rpm(bash, <<cpp>>, "c"), Rpm(cpp, <<glibc>>, "c"),
                 Rpm(glibc, <<<<"ignored">>>>, "c")>>, <<extra>>)
Unnamed == Lock_(<<Rpm(bash, <<>>, "u"), [Rpm(extra, <<>>, "u") EXCEPT !.named = FALSE]>>, <<>>)
Unmirrored == Lock_(<<[Rpm(bash, <<>>, "m") EXCEPT !.mirrored = FALSE]>>, <<>>)
NoFile == [exists |-> FALSE, rpms |-> <<>>, targets |-> <<>>]

Tag(module, prefix, rpms, lock) ==
  [module |-> module, prefix |-> prefix, rpms |-> rpms, lock |-> lock, ignoreMissing |-> module = 1]

Requests == {<<>>, <<bash>>, <<glibc, bash>>, <<extra, bash>>}
Locks == {Circle("1"), Chain, Unnamed, Unmirrored, NoFile}
Tags(modules, prefixes) ==
  {Tag(m, p, r, l) : m \in modules, p \in prefixes, r \in Requests, l \in Locks}

SmallWorkspaces ==
  {ws \in {<<c, d>> : c \in Tags({1}, {<<>>, <<"p">>}), d \in Tags({1, 2}, {<<>>, <<"q">>})} :
     Separate(ws)}

\* One lock file with all its RPMs and with a request; two lock files of two modules.
OneModule == {<<Tag(1, <<>>, <<>>, Circle("1")), Tag(1, <<>>, <<bash>>, Circle("1"))>>}
TwoModules == {<<Tag(1, <<>>, <<bash>>, Circle("1")), Tag(2, <<>>, <<glibc>>, Circle("2"))>>}
\* A prefix, and nothing requested.
Prefixed == {<<Tag(1, <<"p">>, <<>>, Circle("1"))>>}
=============================================================================

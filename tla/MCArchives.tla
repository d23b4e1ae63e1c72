----------------------------- MODULE MCArchives -----------------------------
(***************************************************************************)
(* Small command lines for Archives: pairs of RPMs of up to three entries,  *)
(* whose archive is only written, and single RPMs whose archive is used.    *)
(***************************************************************************)
EXTENDS Archives

d == <<"d">>  df == <<"d", "f">>  dg == <<"d", "g">>  ds == <<"d", "s">>  dsf == <<"d", "s", "f">>
l == <<"l">>  lf == <<"l", "f">>  lh == <<"l", "h">>  lib == <<"l", "lib">>
sd == <<"s", "d">>   \* has the text of d, but not at its start

Of(path, kind) ==
  [path |-> path, kind |-> kind, to |-> <<>>, ino |-> 0, linked |-> FALSE, body |-> <<>>]
AtDir(path) == Of(path, "dir")
AtLink(path, to) == [Of(path, "symlink") EXCEPT !.to = to]
AtFile(path, ino, linked, body) ==
  [Of(path, "file") EXCEPT !.ino = ino, !.linked = linked, !.body = body]

NoOptions == [stdin |-> FALSE, symlinks |-> <<>>, capabilities |-> {}, labels |-> {},
              unsupported |-> {}, empty |-> {}]
SomeOptions ==
  [NoOptions EXCEPT
     !.symlinks = <<Header(AtLink(d, <<"x">>), "symlink", {}),
                    Header(AtLink(l, <<"y">>), "symlink", {})>>,
     !.capabilities = {[form |-> "/", path |-> df], [form |-> "", path |-> dg]},
     !.labels = {[form |-> "./", path |-> lf], [form |-> "/", path |-> df]}]
\* d/f is spelt in two ways, with and without an unsupported capability.
BadOptions ==
  [NoOptions EXCEPT
     !.capabilities = {[form |-> form, path |-> df] : form \in {"/", ""}},
     !.unsupported = {[form |-> "/", path |-> df]},
     !.labels = {[form |-> "./", path |-> l]}, !.empty = {[form |-> "./", path |-> l]}]
Stdin(o) == [o EXCEPT !.stdin = TRUE]

\* RPMs that overlap: d/f and d/g may be two names of inode 1, or of their own; l is a
\* directory or a link.
Overlapping ==
  {AtDir(d), AtDir(ds), AtDir(l), AtLink(l, d), AtLink(l, ds), AtDir(lf), AtLink(lf, d),
   AtFile(df, 1, TRUE, <<"one">>), AtFile(df, 1, TRUE, <<>>), AtFile(df, 1, FALSE, <<"alone">>),
   AtFile(dg, 1, TRUE, <<"one">>), AtFile(dg, 1, TRUE, <<>>), AtFile(dg, 2, FALSE, <<>>),
   AtFile(lf, 1, FALSE, <<"other">>), Of(ds, "special"), Of(lf, "socket")}
Wellformed(S) ==
  /\ \A e, o \in S : e.path = o.path => e = o
  /\ \A e, o \in S : e.kind = "file" /\ o.kind = "file" /\ e.ino = o.ino /\ e # o =>
       e.linked /\ o.linked /\ (IsLink(e) \/ IsLink(o))
Pairs == {s \in Overlapping \X Overlapping : s[1] # s[2] /\ Wellformed(Range(s))}
Triples == {<<p[1], e, p[2]>> : p \in {q \in Pairs : q[1].ino = 1 /\ q[2].ino = 1}, e \in Overlapping}
Small == {<<e>> : e \in Overlapping} \cup Pairs
           \cup {r \in Triples : Cardinality(Range(r)) = 3 /\ Wellformed(Range(r))}
Written ==
  [use |-> "none", rpms |-> Small, most |-> 2,
   options |-> {NoOptions, SomeOptions, BadOptions, Stdin(SomeOptions)}]

\* RPMs in both orders of some entries, among them links and links through links.
OneHasTheBody(S) ==
  /\ \A e, o \in S : e.path = o.path => e = o
  /\ \A e \in S : IsLink(e) => AtFile(df, 1, TRUE, <<"one">>) \in S
InBothOrders(sets) == {SetToSeq(S) : S \in sets} \cup {Reverse(SetToSeq(S)) : S \in sets}

Links ==
  {AtDir(d), AtDir(ds), AtDir(lf), AtLink(l, d), AtLink(l, <<"/", "d", "s">>),
   AtLink(ds, <<"..", "l">>), AtLink(ds, <<"/", "l">>), AtLink(lh, <<"/", "d">>),
   AtFile(df, 1, TRUE, <<"one">>), AtFile(dg, 1, TRUE, <<>>), AtFile(lf, 1, TRUE, <<>>),
   AtFile(lf, 2, FALSE, <<"other">>), AtFile(dsf, 3, FALSE, <<"deep">>), Of(dg, "special")}
Unpacked ==
  [use |-> "sandbox", most |-> 1,
   rpms |-> InBothOrders({S \in SUBSET Links : S # {} /\ Cardinality(S) <= 4 /\ OneHasTheBody(S)}),
   options |-> {NoOptions, Stdin(NoOptions),
                [NoOptions EXCEPT !.symlinks = <<Header(AtLink(l, d), "symlink", {})>>]}]

Files ==
  {AtDir(d), AtLink(l, d), AtLink(ds, <<"..", "l">>), AtFile(df, 1, TRUE, <<"one">>),
   AtFile(dg, 1, TRUE, <<>>), AtFile(dsf, 1, TRUE, <<>>), AtFile(dsf, 3, FALSE, <<"deep">>),
   Of(dg, "special")}
Taken ==
  [use |-> "tar2files", most |-> 1,
   rpms |-> InBothOrders({S \in SUBSET Files : S # {} /\ OneHasTheBody(S)})
              \cup {<<AtFile(lib, 1, FALSE, <<"one">>)>>, <<AtFile(sd, 1, FALSE, <<"one">>)>>},
   options |-> {NoOptions, Stdin(NoOptions)}]
MCCommands == {Written, Unpacked, Taken}

Request(prefix, files) == [prefix |-> prefix, files |-> files]
MCRequests ==
  {Request(d, S) : S \in (SUBSET {<<"f">>, <<"g">>, <<"s">>, <<"s", "f">>}) \ {{}}}
    \cup {Request(d, S) : S \in (SUBSET {df, dg, dsf}) \ {{}}}
    \cup {Request(<<>>, {l, df}), Request(<<>>, {d, l}), Request(ds, {<<"f">>}),
          Request(l, {<<"lib">>}), Request(d, {sd})}
\* "lib" starts with "l".
MCLonger == {<<"l", "lib">>}
=============================================================================

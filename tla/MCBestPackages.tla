--------------------------- MODULE MCBestPackages ---------------------------
(* Small pools of packages for BestPackages. An int ends at 50.             *)
EXTENDS BestPackages

\* "", "0", "1", "01", "10", "1.0", "1.1", "1..1", "1.a", "1a", "a", "ab", "a1",
\* ".", "1.", "~", "~1", "~~", "1~1", and 60 and 70, too large for an int.
Vers == {<<>>, <<48>>, <<49>>, <<48, 49>>, <<49, 48>>, <<49, 46, 48>>, <<49, 46, 49>>,
         <<49, 46, 46, 49>>, <<49, 46, 97>>, <<49, 97>>, <<97>>, <<97, 98>>, <<97, 49>>,
         <<46>>, <<49, 46>>, <<126>>, <<126, 49>>, <<126, 126>>, <<49, 126, 49>>,
         <<54, 48>>, <<55, 48>>}

Pkg(epoch, ver, rel, arch, priority) ==
  [name |-> 1, version |-> [epoch |-> epoch, ver |-> ver, rel |-> rel],
   arch |-> arch, priority |-> priority]
Null == <<48>>
One == <<49>>
\* All versions with one release of one architecture, and some packages that
\* differ in the rest.
Plainest == {Pkg(Null, v, One, "x86_64", 1) : v \in Vers}
Others ==
  {Pkg(e, One, r, "x86_64", 1) : e \in {<<>>, Null, One}, r \in {<<>>, One, <<50>>}}
  \cup {Pkg(Null, One, One, a, p) : a \in {"x86_64", "noarch", "src"}, p \in {1, 2}}
SmallPools == {{p, q, r} : p, q, r \in Plainest} \cup {{p, q, r} : p, q, r \in Others}
Archs == <<"x86_64", "noarch">>
=============================================================================

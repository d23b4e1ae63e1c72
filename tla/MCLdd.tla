-------------------------------- MODULE MCLdd --------------------------------
(***************************************************************************)
(* Inputs of Ldd: libraries a to d that need each other in many ways, in    *)
(* circles too, with d in either directory, missing, or behind a link.      *)
(***************************************************************************)
EXTENDS Ldd

MCNames == {"a", "b", "c", "d", "d1"}
MCDirs  == {"lib64", "lib"}
None    == <<"none">>
Elf(needed) == <<"elf", needed>>

Place(file, at) == [p \in MCDirs \X MCNames |-> IF p \in DOMAIN at THEN at[p] ELSE file]

\* d as a file of lib64, of lib, of both; a link to d1; a link across to lib; gone.
Ds ==
  {[p \in {<<"lib64", "d">>} |-> Elf(<<>>)],
   [p \in {<<"lib", "d">>} |-> Elf(<<"a">>)],
   [p \in {<<"lib64", "d">>, <<"lib", "d">>} |-> Elf(<<"c">>)],
   [p \in {<<"lib64", "d">>, <<"lib64", "d1">>} |->
      IF p[2] = "d" THEN <<"link", <<".", "d1">>>> ELSE Elf(<<"b">>)],
   [p \in {<<"lib64", "d">>, <<"lib", "d1">>} |->
      IF p[2] = "d" THEN <<"link", <<"lib", "d1">>>> ELSE Elf(<<>>)],
   [p \in {<<"lib64", "d">>} |-> <<"link", <<".", "d1">>>>],
   [p \in {} |-> None]}

Libraries(na, nb, nc, d) ==
  [p \in {<<"lib64", n>> : n \in {"a", "b", "c"}} \cup DOMAIN d |->
     CASE p = <<"lib64", "a">> -> Elf(na)
       [] p = <<"lib64", "b">> -> Elf(nb)
       [] p = <<"lib64", "c">> -> Elf(nc)
       [] OTHER -> d[p]]

MCInputs ==
  {[objects |-> objects, libraryPath |-> <<"lib64", "lib">>,
    fs |-> Place(None, Libraries(na, nb, nc, d))] :
     objects \in {<<<<"lib64", "a">>>>, <<<<"lib64", "b">>, <<"lib64", "d">>>>},
     na \in {<<"b">>, <<"b", "c">>, <<"d", "b", "c">>}, nb \in {<<>>, <<"c">>, <<"d">>},
     nc \in {<<>>, <<"b">>, <<"d">>}, d \in Ds}
============================================================================

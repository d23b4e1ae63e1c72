--------------------------- MODULE MCSatPipeline ---------------------------
(***************************************************************************)
(* Instances of SatPipeline: packages a (three versions) and b (more        *)
(* versions than there are weights), problems of a few clauses, one of      *)
(* them with a line longer than a scanner's buffer.                         *)
(***************************************************************************)
EXTENDS SatPipeline

CONSTANT Many   \* the number of versions of package b

MCNames == {"a", "b"}
MCVersions == [n \in MCNames |-> [k \in 1..(IF n = "a" THEN 3 ELSE Many) |-> <<n, k>>]]
MCVars == {<<"a", k>> : k \in 1..3} \cup {<<"b", k>> : k \in 1..Many}

Line(kind, v, long) == [kind |-> kind, var |-> v, long |-> long]
Clause == Line("clause", None, FALSE)
VarLines ==
  [k \in 1..(3 + Many) |-> Line("var", IF k <= 3 THEN <<"a", k>> ELSE <<"b", k - 3>>, FALSE)]
Heading == <<Line("problem", None, FALSE)>> \o VarLines

\* Dimacs prints the variables before the clauses.
MCProblems ==
  {Heading \o clauses : clauses \in
     {<<>>, <<Clause>>, <<Clause, Clause>>,
      <<Line("clause", None, TRUE)>>,
      <<Clause, Line("clause", None, TRUE), Clause>>}}
============================================================================

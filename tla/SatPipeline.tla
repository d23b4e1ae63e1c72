---------------------------- MODULE SatPipeline ----------------------------
(***************************************************************************)
(* sat.Resolve of pkg/sat/sat.go: how the formula reaches the MAXSAT        *)
(* solver.  One goroutine (D) prints the formula as a DIMACS problem, line  *)
(* by line, into a pipe; a second (T) scans that pipe, rewrites every line  *)
(* as one of a weighted problem into a second pipe and adds the soft        *)
(* clauses; the caller (M) parses the second pipe, collects the results of  *)
(* both goroutines from three channels, and only then solves.               *)
(*                                                                          *)
(* An io.Pipe has no buffer, and neither Dimacs nor Fprintln writes more or *)
(* less than a line: a line leaves its writer in the step in which it is    *)
(* read.  No reader is ever closed, so no write fails.  The three channels  *)
(* have room for the one value sent to each.  bufio.Scanner gives up on a   *)
(* line longer than its buffer and its error is not looked at.              *)
(***************************************************************************)
EXTENDS Integers, Sequences, FiniteSets

CONSTANTS
  Vars,      \* the package variables of the formula
  Problems,  \* what bf.Dimacs may print: sequences of [kind, var, long]
  Names,     \* the package names of the model
  Versions,  \* name -> the variables of its packages, the best last
  None       \* not a variable

Kinds == {"problem", "var", "clause"}

ASSUME ProblemsAssumption ==
  /\ Problems \subseteq Seq([kind: Kinds, var: Vars \cup {None}, long: BOOLEAN])
  /\ None \notin Vars
ASSUME VersionsAssumption ==
  /\ Versions \in [Names -> Seq(Vars)] /\ \A n \in Names : Versions[n] # <<>>
  /\ \A a, b \in Names : \A j \in DOMAIN Versions[a], k \in DOMAIN Versions[b] :
       Versions[a][j] = Versions[b][k] => a = b /\ j = k

\* Dimacs prints the variables before the clauses, in lines that are not long, and
\* the packages of a name that has several exclude each other: they are variables
\* of the formula.
ASSUME DimacsAssumption ==
  \A p \in Problems :
    /\ \A m, l \in DOMAIN p : p[l].kind = "var" /\ m <= l => ~p[m].long
    /\ \A a \in Names : \A k \in 1..(Len(Versions[a]) - 1) :
         \E m \in DOMAIN p : p[m].kind = "var" /\ p[m].var = Versions[a][k]

VARIABLES
  lines,    \* the problem of this call
  d,        \* D: the line it is writing
  pcD,      \* D: "write", "close", "closeChan", "done"
  pcT,      \* T: "scan", "soft", "close", "closeChan", "done"
  pcM,      \* M: "parse", "recvSat", "recvPw", "recvVars", "solved", "failed"
  out,      \* T: the lines it has still to write before it goes on
  vars,     \* T: the keys of pkgToSat
  left,     \* T: the names whose soft clauses are not written
  parsed,   \* M: the clauses the parser has read
  satErr,   \* what is in satErrChan: "empty", "sent" or "received"
  varsChan, \* what is in varsChan: a set of variables, in a sequence
  satVars   \* M: the variables received

pipeline == <<lines, d, pcD, pcT, pcM, out, vars, left, parsed, satErr, varsChan, satVars>>

Top == 2000
Comment == <<"comment", None, 0>>

\* The clause a line becomes; comments stay comments.
Hard(n) == <<lines[n].kind, n, Top>>
Translation(n) ==
  IF lines[n].kind = "var" THEN <<Comment, Comment>> ELSE <<Hard(n)>>

\* The weight of the k-th package of a name, the worst being the first.
Weight == [k \in Nat |-> IF k <= 20 THEN 1901 - 100 * (k - 1) ELSE -99]

\* An unmapped variable prints as nothing.
Soft(v, known, k) == <<"soft", IF v \in known THEN v ELSE None, Weight[k]>>

\* Mutant: the packages are taken from the best to the worst.
SoftLines_BestFirst(n, known) ==
  [m \in 1..(2 * Len(Versions[n]) - 1) |->
     IF m % 2 = 1 THEN Comment
     ELSE Soft(Versions[n][Len(Versions[n]) - m \div 2], known, m \div 2)]

\* "c prefer", and a comment and a clause for each package but the best.
SoftLines(n, known) ==
  [m \in 1..(2 * Len(Versions[n]) - 1) |->
     IF m % 2 = 1 THEN Comment ELSE Soft(Versions[n][m \div 2], known, m \div 2)]

Rejected(line) == line[1] = "soft" /\ (line[2] = None \/ line[3] <= 0)
----------------------------------------------------------------------------
Init ==
  /\ lines \in Problems
  /\ d = 1 /\ pcD = "write" /\ pcT = "scan" /\ pcM = "parse"
  /\ out = <<>> /\ vars = {} /\ left = Names /\ parsed = {}
  /\ satErr = "empty" /\ varsChan = <<>> /\ satVars = {}

D_Return ==
  /\ pcD = "write" /\ d > Len(lines)
  /\ satErr' = "sent"
  /\ pcD' = "close"
  /\ UNCHANGED <<lines, d, pcT, pcM, out, vars, left, parsed, varsChan, satVars>>

D_Close ==
  /\ pcD = "close"
  /\ pcD' = "closeChan"
  /\ UNCHANGED <<lines, d, pcT, pcM, out, vars, left, parsed, satErr, varsChan, satVars>>

D_CloseChan ==
  /\ pcD = "closeChan"
  /\ pcD' = "done"
  /\ UNCHANGED <<lines, d, pcT, pcM, out, vars, left, parsed, satErr, varsChan, satVars>>

\* Mutant: a line is dropped after each line scanned.
T_Scan_SkipsLine ==
  /\ pcT = "scan" /\ out = <<>>
  /\ pcD = "write" /\ d <= Len(lines) /\ ~lines[d].long
  /\ d' = d + 2
  /\ out' = Translation(d)
  /\ vars' = IF lines[d].kind = "var" THEN vars \cup {lines[d].var} ELSE vars
  /\ UNCHANGED <<lines, pcD, pcT, pcM, left, parsed, satErr, varsChan, satVars>>

\* A line goes from D to T.
T_Scan ==
  /\ pcT = "scan" /\ out = <<>>
  /\ pcD = "write" /\ d <= Len(lines) /\ ~lines[d].long
  /\ d' = d + 1
  /\ out' = Translation(d)
  /\ vars' = IF lines[d].kind = "var" THEN vars \cup {lines[d].var} ELSE vars
  /\ UNCHANGED <<lines, pcD, pcT, pcM, left, parsed, satErr, varsChan, satVars>>

\* The scanner stops on a line too long; D stays where it is, in its write.
T_ScanTooLong ==
  /\ pcT = "scan" /\ out = <<>>
  /\ pcD = "write" /\ d <= Len(lines) /\ lines[d].long
  /\ pcT' = "soft"
  /\ UNCHANGED <<lines, d, pcD, pcM, out, vars, left, parsed, satErr, varsChan, satVars>>

\* Mutant: the soft rules are written before the end of the problem.
T_ScanEnd_Early ==
  /\ pcT = "scan" /\ out = <<>>
  /\ pcT' = "soft"
  /\ UNCHANGED <<lines, d, pcD, pcM, out, vars, left, parsed, satErr, varsChan, satVars>>

T_ScanEnd ==
  /\ pcT = "scan" /\ out = <<>>
  /\ pcD \in {"closeChan", "done"}
  /\ pcT' = "soft"
  /\ UNCHANGED <<lines, d, pcD, pcM, out, vars, left, parsed, satErr, varsChan, satVars>>

T_SoftRules(n) ==
  /\ pcT = "soft" /\ out = <<>> /\ n \in left
  /\ out' = SoftLines(n, vars)
  /\ left' = left \ {n}
  /\ UNCHANGED <<lines, d, pcD, pcT, pcM, vars, parsed, satErr, varsChan, satVars>>

\* Mutant: a channel with no room for the variables.
T_Return_Unbuffered ==
  /\ pcT = "soft" /\ out = <<>> /\ left = {} /\ pcM = "recvVars"
  /\ varsChan' = <<vars>>
  /\ pcT' = "close"
  /\ UNCHANGED <<lines, d, pcD, pcM, out, vars, left, parsed, satErr, satVars>>

\* Mutant: the variables as they were when the send was deferred.
T_Return_Evaluated ==
  /\ pcT = "soft" /\ out = <<>> /\ left = {}
  /\ varsChan' = <<{}>>
  /\ pcT' = "close"
  /\ UNCHANGED <<lines, d, pcD, pcM, out, vars, left, parsed, satErr, satVars>>

\* The deferred calls, last first: send the variables, close the pipe, close
\* the channel.
T_Return ==
  /\ pcT = "soft" /\ out = <<>> /\ left = {}
  /\ varsChan' = <<vars>>
  /\ pcT' = "close"
  /\ UNCHANGED <<lines, d, pcD, pcM, out, vars, left, parsed, satErr, satVars>>

T_Close ==
  /\ pcT = "close"
  /\ pcT' = "closeChan"
  /\ UNCHANGED <<lines, d, pcD, pcM, out, vars, left, parsed, satErr, varsChan, satVars>>

T_CloseChan ==
  /\ pcT = "closeChan"
  /\ pcT' = "done"
  /\ UNCHANGED <<lines, d, pcD, pcM, out, vars, left, parsed, satErr, varsChan, satVars>>

\* A line goes from T to the parser, which skips comments.
M_Parse ==
  /\ pcM = "parse" /\ out # <<>>
  /\ parsed' = IF Head(out) = Comment THEN parsed ELSE parsed \cup {Head(out)}
  /\ out' = Tail(out)
  /\ UNCHANGED <<lines, d, pcD, pcT, pcM, vars, left, satErr, varsChan, satVars>>

\* The parser may refuse a clause that is no weighted clause.
M_ParseError ==
  /\ pcM = "parse" /\ out # <<>> /\ Rejected(Head(out))
  /\ pcM' = "failed"
  /\ UNCHANGED <<lines, d, pcD, pcT, out, vars, left, parsed, satErr, varsChan, satVars>>

M_ParseEnd ==
  /\ pcM = "parse" /\ out = <<>> /\ pcT \in {"closeChan", "done"}
  /\ pcM' = "recvSat"
  /\ UNCHANGED <<lines, d, pcD, pcT, out, vars, left, parsed, satErr, varsChan, satVars>>

\* Mutant: the result of Dimacs is not waited for.
M_RecvSat_NoWait ==
  /\ pcM = "recvSat"
  /\ satErr' = "received"
  /\ pcM' = "recvPw"
  /\ UNCHANGED <<lines, d, pcD, pcT, out, vars, left, parsed, varsChan, satVars>>

M_RecvSat ==
  /\ pcM = "recvSat" /\ satErr = "sent"
  /\ satErr' = "received"
  /\ pcM' = "recvPw"
  /\ UNCHANGED <<lines, d, pcD, pcT, out, vars, left, parsed, varsChan, satVars>>

\* Nothing is sent to pwMaxSatErrChan: the receive returns when it is closed.
M_RecvPw ==
  /\ pcM = "recvPw" /\ pcT = "done"
  /\ pcM' = "recvVars"
  /\ UNCHANGED <<lines, d, pcD, pcT, out, vars, left, parsed, satErr, varsChan, satVars>>

M_RecvVars ==
  /\ pcM = "recvVars" /\ varsChan # <<>>
  /\ satVars' = Head(varsChan)
  /\ varsChan' = Tail(varsChan)
  /\ pcM' = "solved"
  /\ UNCHANGED <<lines, d, pcD, pcT, out, vars, left, parsed, satErr>>

D_Next == D_Return \/ D_Close \/ D_CloseChan
T_Next == T_Scan \/ T_ScanTooLong \/ T_ScanEnd \/ T_Return \/ T_Close \/ T_CloseChan
          \/ \E n \in left : T_SoftRules(n)
M_Next == M_Parse \/ M_ParseError \/ M_ParseEnd \/ M_RecvSat \/ M_RecvPw \/ M_RecvVars

Next == D_Next \/ T_Next \/ M_Next

\* The Go scheduler runs every goroutine that can go on.
Spec == /\ Init /\ [][Next]_pipeline
        /\ WF_pipeline(D_Next) /\ WF_pipeline(T_Next) /\ WF_pipeline(M_Next)
----------------------------------------------------------------------------
TypeOK ==
  /\ d \in 1..(Len(lines) + 1)
  /\ pcD \in {"write", "close", "closeChan", "done"}
  /\ pcT \in {"scan", "soft", "close", "closeChan", "done"}
  /\ pcM \in {"parse", "recvSat", "recvPw", "recvVars", "solved", "failed"}
  /\ vars \subseteq Vars \cup {None} /\ satVars \subseteq Vars \cup {None}
  /\ left \subseteq Names
  /\ satErr \in {"empty", "sent", "received"}
  /\ Len(varsChan) <= 1

\* The problem the code means to solve: all that Dimacs prints, as hard
\* clauses, and a soft clause for each package that is not the best of its name.
HardClauses == {Hard(n) : n \in {m \in DOMAIN lines : lines[m].kind # "var"}}
SoftClauses ==
  UNION {{<<"soft", Versions[n][k], Weight[k]>> : k \in 1..(Len(Versions[n]) - 1)} : n \in Names}
Mapped == {lines[n].var : n \in {m \in DOMAIN lines : lines[m].kind = "var"}}

\* The solver never runs on a truncated problem, whichever goroutine is ahead
\* and even when the scanner gives up (sat.go:84-160).
SolvesWholeProblem == pcM = "solved" => parsed = HardClauses \cup SoftClauses

\* The variables by which the solution is read are all there (sat.go:157,172).
SolutionReadable == pcM = "solved" => satVars = Mapped

\* A soft clause names a variable of the formula: the table is complete before
\* the first is written (sat.go:134).
SoftClausesNamed == \A c \in parsed : c[1] = "soft" => c[2] # None

\* "We don't want to install any package" (sat.go:127): every soft clause says
\* that leaving a package out is worth something.
SoftClausesPenalise == \A c \in parsed : c[1] = "soft" => c[3] > 0

\* "Newest packages will have the higest weight" (README.md): to install a
\* better version of a package never costs more than a worse one.
Weights(v) == {c[3] : c \in {b \in parsed : b[1] = "soft" /\ b[2] = v}}
BetterIsCheaper ==
  \A n \in Names : LET weights == [k \in DOMAIN Versions[n] |-> Weights(Versions[n][k])] IN
    \A j, k \in 1..(Len(Versions[n]) - 1) :
      j < k => \A worse \in weights[j], better \in weights[k] : better <= worse

\* Resolve always comes to an end, and no goroutine is left behind when it has
\* solved the problem, unless a line is too long for the scanner: three
\* channels and two pipes, and nobody waits for anybody who waits (sat.go:84-157).
Ends ==
  (\A n \in DOMAIN lines : ~lines[n].long)
  => <>(pcM = "failed" \/ (pcM = "solved" /\ pcD = "done" /\ pcT = "done"))

\* What the goroutines hand over can be used: the answer can be read back, soft
\* clauses name packages, and their weights grow with the age of a version.
HandedOver == TypeOK /\ SolutionReadable /\ SoftClausesNamed /\ BetterIsCheaper
============================================================================

----------------------------- MODULE SatProofs -----------------------------
(***************************************************************************)
(* Package sat: the packages Load finds, and what Resolve gives the solver. *)
(*                                                                          *)
(* Versions.  The order of versions and packages is a total preorder, for   *)
(* texts of any length and numbers of any size, and so Load finds the best  *)
(* packages of any pool.  All comparisons of rpm.go, down to that of two    *)
(* texts, take the first that is not 0 of some results (Or).  What makes an *)
(* order is therefore shown once, of Or: it is one if its results are.      *)
(* Versions that are equal in this order are also written alike.            *)
(*                                                                          *)
(* Pipeline.  What the solver is given, for any problem, any number of      *)
(* packages and every way in which the three goroutines of sat.Resolve can  *)
(* interleave.  A clause is in one of three places: not yet printed,        *)
(* between the pipes, or parsed.  The invariant says that none is ever      *)
(* anywhere else, and which goroutines must have ended before another goes  *)
(* on.                                                                      *)
(***************************************************************************)
EXTENDS BestPackages, SatPipeline, TLAPS, FiniteSetTheorems, SequenceTheorems, WellFoundedInduction

\* A set of naturals that is not empty has a least element.
LEMMA NatMinimum ==
  ASSUME NEW S \in SUBSET Nat, S # {}
  PROVE  \E x \in S : \A y \in S : x <= y
<1> DEFINE Less == {ss \in Nat \X Nat : ss[1] < ss[2]}
<1>1. IsWellFoundedOn(Less, Nat)
  BY NatLessThanWellFounded, Zenon DEF OpToRel
<1>2. PICK x \in S : \A y \in S : <<y, x>> \notin Less
  BY <1>1, WFMin, Zenon
<1>3. \A y \in S : ~(y < x)
  BY <1>2
<1> QED
  BY <1>3
-----------------------------------------------------------------------------
(* Results of comparisons.                                                  *)

\* Two results of which one compares x with y and the other y with x.
Opposed(u, v) == u \in Int /\ v \in Int /\ (u < 0 <=> v > 0) /\ (u > 0 <=> v < 0)

\* Three of which they compare x with y, y with z and x with z.
Follows(u, v, w) == u <= 0 /\ v <= 0 => w <= 0 /\ (w = 0 <=> u = 0 /\ v = 0)

\* The n-th result of a list, 0 after its end.
Nth(results, n) == IF n \in DOMAIN results THEN results[n] ELSE 0

LEMMA SignOrders ==
  ASSUME NEW x \in Int, NEW y \in Int, NEW z \in Int
  PROVE  Opposed(Sign(x - y), Sign(y - x)) /\ Follows(Sign(x - y), Sign(y - z), Sign(x - z))
BY DEF Opposed, Follows, Sign

\* Or is the first result that is not 0, if there is one.
LEMMA OrDecides ==
  ASSUME NEW k \in Nat, NEW r \in [1..k -> Int]
  PROVE  /\ \A n \in Nat \ {0} : Nth(r, n) \in Int
         /\ (\A n \in Nat \ {0} : Nth(r, n) = 0) => Or(r) = 0
         /\ \A n \in Nat \ {0} :
              Nth(r, n) # 0 /\ (\A m \in 1..(n - 1) : Nth(r, m) = 0) => Or(r) = Nth(r, n)
<1>1. \A n \in Nat \ {0} : Nth(r, n) \in Int
  BY DEF Nth
<1>2. ASSUME \A n \in Nat \ {0} : Nth(r, n) = 0 PROVE Or(r) = 0
  BY <1>2 DEF Nth, Or
<1>3. ASSUME NEW n \in Nat \ {0}, Nth(r, n) # 0, \A m \in 1..(n - 1) : Nth(r, m) = 0
      PROVE  Or(r) = Nth(r, n)
  <2>1. n \in 1..k /\ r[n] # 0 /\ Nth(r, n) = r[n]
    BY <1>3 DEF Nth
  <2>2. \A m \in 1..(n - 1) : r[m] = 0
    BY <1>3, <2>1 DEF Nth
  <2> DEFINE first == CHOOSE i \in 1..k : r[i] # 0 /\ \A m \in 1..(i - 1) : r[m] = 0
  <2>3. first \in 1..k /\ r[first] # 0 /\ \A m \in 1..(first - 1) : r[m] = 0
    BY <2>1, <2>2
  <2>4. Or(r) = r[first]
    BY <2>1 DEF Or
  <2> HIDE DEF first
  <2>5. first = n
    <3>1. ~(first < n)
      <4>1. first < n => first \in 1..(n - 1)
        BY <2>3
      <4> QED BY <2>2, <2>3, <4>1
    <3>2. ~(n < first)
      <4>1. n < first => n \in 1..(first - 1)
        BY <2>1, <2>3
      <4> QED BY <2>1, <2>3, <4>1
    <3> QED BY <2>3, <3>1, <3>2
  <2> QED BY <2>1, <2>4, <2>5
<1> QED BY <1>1, <1>2, <1>3

\* Either two lists are 0 throughout, or there is a first place where one of them is not.
Decided(r, s) ==
  \/ \A n \in Nat \ {0} : Nth(r, n) = 0 /\ Nth(s, n) = 0
  \/ \E i \in Nat \ {0} : /\ Nth(r, i) # 0 \/ Nth(s, i) # 0
                          /\ \A m \in 1..(i - 1) : Nth(r, m) = 0 /\ Nth(s, m) = 0

LEMMA FirstPlace == ASSUME NEW r, NEW s PROVE Decided(r, s)
<1> DEFINE S == {n \in Nat \ {0} : Nth(r, n) # 0 \/ Nth(s, n) # 0}
<1>1. CASE S = {}
  BY <1>1 DEF Decided
<1>2. CASE S # {}
  <2>1. PICK i \in S : \A y \in S : i <= y
    <3>1. S \in SUBSET Nat
      OBVIOUS
    <3> HIDE DEF S
    <3> QED BY <1>2, <3>1, NatMinimum
  <2>2. i \in Nat \ {0} /\ (Nth(r, i) # 0 \/ Nth(s, i) # 0)
    OBVIOUS
  <2>3. ASSUME NEW m \in 1..(i - 1) PROVE Nth(r, m) = 0 /\ Nth(s, m) = 0
    <3>1. m \in Nat \ {0} /\ ~(i <= m)
      BY <2>2
    <3>2. m \notin S
      <4> HIDE DEF S
      <4> QED BY <2>1, <3>1
    <3> QED BY <3>1, <3>2
  <2> QED BY <2>2, <2>3 DEF Decided
<1> QED BY <1>1, <1>2

LEMMA OrOpposed ==
  ASSUME NEW k \in Nat, NEW r \in [1..k -> Int], NEW l \in Nat, NEW s \in [1..l -> Int],
         \A n \in Nat \ {0} : Opposed(Nth(r, n), Nth(s, n))
  PROVE  Opposed(Or(r), Or(s))
<1>1. CASE \A n \in Nat \ {0} : Nth(r, n) = 0 /\ Nth(s, n) = 0
  BY <1>1, OrDecides DEF Opposed
<1>2. ASSUME NEW i \in Nat \ {0}, Nth(r, i) # 0 \/ Nth(s, i) # 0,
             \A m \in 1..(i - 1) : Nth(r, m) = 0 /\ Nth(s, m) = 0
      PROVE  Opposed(Or(r), Or(s))
  <2>1. Opposed(Nth(r, i), Nth(s, i)) /\ Nth(r, i) # 0 /\ Nth(s, i) # 0
    BY <1>2 DEF Opposed
  <2>2. Or(r) = Nth(r, i) /\ Or(s) = Nth(s, i)
    BY <1>2, <2>1, OrDecides
  <2> QED BY <2>1, <2>2
<1>3. Decided(r, s)
  BY FirstPlace
<1> QED BY <1>1, <1>2, <1>3 DEF Decided

LEMMA OrFollows ==
  ASSUME NEW k \in Nat, NEW r \in [1..k -> Int], NEW l \in Nat, NEW s \in [1..l -> Int],
         NEW j \in Nat, NEW t \in [1..j -> Int],
         \A n \in Nat \ {0} : Follows(Nth(r, n), Nth(s, n), Nth(t, n))
  PROVE  Follows(Or(r), Or(s), Or(t))
<1>1. CASE \A n \in Nat \ {0} : Nth(r, n) = 0 /\ Nth(s, n) = 0
  <2>1. \A n \in Nat \ {0} : Nth(t, n) = 0
    <3> SUFFICES ASSUME NEW n \in Nat \ {0} PROVE Nth(t, n) = 0
      OBVIOUS
    <3>1. Nth(r, n) = 0 /\ Nth(s, n) = 0 /\ Follows(Nth(r, n), Nth(s, n), Nth(t, n))
      BY <1>1
    <3> QED BY <3>1 DEF Follows
  <2> QED BY <1>1, <2>1, OrDecides DEF Follows
<1>2. ASSUME NEW i \in Nat \ {0}, Nth(r, i) # 0 \/ Nth(s, i) # 0,
             \A m \in 1..(i - 1) : Nth(r, m) = 0 /\ Nth(s, m) = 0,
             Or(r) <= 0, Or(s) <= 0
      PROVE  Or(t) <= 0 /\ (Or(t) = 0 <=> Or(r) = 0 /\ Or(s) = 0)
  <2>1. Nth(r, i) # 0 => Or(r) = Nth(r, i)
    BY <1>2, OrDecides
  <2>2. Nth(s, i) # 0 => Or(s) = Nth(s, i)
    BY <1>2, OrDecides
  <2>3. Nth(r, i) <= 0 /\ Nth(s, i) <= 0
    BY <1>2, <2>1, <2>2
  <2>4. \A m \in 1..(i - 1) : Nth(t, m) = 0
    <3> SUFFICES ASSUME NEW m \in 1..(i - 1) PROVE Nth(t, m) = 0
      OBVIOUS
    <3>1. Nth(r, m) = 0 /\ Nth(s, m) = 0 /\ Follows(Nth(r, m), Nth(s, m), Nth(t, m))
      BY <1>2
    <3> QED BY <3>1 DEF Follows
  <2>5. Nth(t, i) <= 0 /\ Nth(t, i) # 0
    <3>1. Follows(Nth(r, i), Nth(s, i), Nth(t, i))
      OBVIOUS
    <3> QED BY <1>2, <2>3, <3>1 DEF Follows
  <2>6. Or(t) = Nth(t, i)
    BY <2>4, <2>5, OrDecides
  <2> QED BY <1>2, <2>1, <2>2, <2>5, <2>6
<1>3. Decided(r, s)
  BY FirstPlace
<1> QED BY <1>1, <1>2, <1>3 DEF Decided, Follows

\* Of three results, as of the epoch, the version and the release.
LEMMA OrOfThree ==
  ASSUME NEW a \in Int, NEW b \in Int, NEW c \in Int
  PROVE  /\ <<a, b, c>> \in [1..3 -> Int]
         /\ \A n \in Nat \ {0} : Nth(<<a, b, c>>, n) =
              IF n = 1 THEN a ELSE IF n = 2 THEN b ELSE IF n = 3 THEN c ELSE 0
<1>1. DOMAIN <<a, b, c>> = 1..3
  OBVIOUS
<1>2. <<a, b, c>> \in [1..3 -> Int]
  OBVIOUS
<1> QED BY <1>1, <1>2 DEF Nth

LEMMA ThreeOpposed ==
  ASSUME NEW a, NEW b, NEW c, NEW x, NEW y, NEW z, Opposed(a, x), Opposed(b, y), Opposed(c, z)
  PROVE  Opposed(Or(<<a, b, c>>), Or(<<x, y, z>>))
<1>1. a \in Int /\ b \in Int /\ c \in Int /\ x \in Int /\ y \in Int /\ z \in Int
  BY DEF Opposed
<1> DEFINE r == <<a, b, c>>
           s == <<x, y, z>>
<1>2. r \in [1..3 -> Int] /\ s \in [1..3 -> Int]
  BY <1>1, OrOfThree
<1>3. \A n \in Nat \ {0} : Opposed(Nth(r, n), Nth(s, n))
  <2> SUFFICES ASSUME NEW n \in Nat \ {0} PROVE Opposed(Nth(r, n), Nth(s, n))
    OBVIOUS
  <2>1. Nth(r, n) = IF n = 1 THEN a ELSE IF n = 2 THEN b ELSE IF n = 3 THEN c ELSE 0
    BY <1>1, OrOfThree
  <2>2. Nth(s, n) = IF n = 1 THEN x ELSE IF n = 2 THEN y ELSE IF n = 3 THEN z ELSE 0
    BY <1>1, OrOfThree
  <2> QED BY <2>1, <2>2 DEF Opposed
<1> HIDE DEF r, s
<1>4. Opposed(Or(r), Or(s))
  BY <1>2, <1>3, OrOpposed
<1> QED BY <1>4 DEF r, s

LEMMA ThreeFollow ==
  ASSUME NEW a \in Int, NEW b \in Int, NEW c \in Int, NEW x \in Int, NEW y \in Int, NEW z \in Int,
         NEW u \in Int, NEW v \in Int, NEW w \in Int,
         Follows(a, x, u), Follows(b, y, v), Follows(c, z, w)
  PROVE  Follows(Or(<<a, b, c>>), Or(<<x, y, z>>), Or(<<u, v, w>>))
<1> DEFINE r == <<a, b, c>>
           s == <<x, y, z>>
           t == <<u, v, w>>
<1>1. r \in [1..3 -> Int] /\ s \in [1..3 -> Int] /\ t \in [1..3 -> Int]
  BY OrOfThree
<1>2. \A n \in Nat \ {0} : Follows(Nth(r, n), Nth(s, n), Nth(t, n))
  <2> SUFFICES ASSUME NEW n \in Nat \ {0} PROVE Follows(Nth(r, n), Nth(s, n), Nth(t, n))
    OBVIOUS
  <2>1. Nth(r, n) = IF n = 1 THEN a ELSE IF n = 2 THEN b ELSE IF n = 3 THEN c ELSE 0
    BY OrOfThree
  <2>2. Nth(s, n) = IF n = 1 THEN x ELSE IF n = 2 THEN y ELSE IF n = 3 THEN z ELSE 0
    BY OrOfThree
  <2>3. Nth(t, n) = IF n = 1 THEN u ELSE IF n = 2 THEN v ELSE IF n = 3 THEN w ELSE 0
    BY OrOfThree
  <2> QED BY <2>1, <2>2, <2>3 DEF Follows
<1> HIDE DEF r, s, t
<1>3. Follows(Or(r), Or(s), Or(t))
  BY <1>1, <1>2, OrFollows
<1> QED BY <1>3 DEF r, s, t
-----------------------------------------------------------------------------
(* Texts.                                                                   *)

\* Lists of results with the same results at each place, past their ends too.
LEMMA TextResults ==
  ASSUME NEW s \in Text, NEW t \in Text
  PROVE  /\ Longest(s, t) \in Nat
         /\ [n \in 1..Longest(s, t) |-> Sign(At(s, n) - At(t, n))] \in [1..Longest(s, t) -> Int]
         /\ \A n \in Nat \ {0} :
              /\ At(s, n) \in Int
              /\ Nth([m \in 1..Longest(s, t) |-> Sign(At(s, m) - At(t, m))], n)
                   = Sign(At(s, n) - At(t, n))
<1>1. Len(s) \in Nat /\ Len(t) \in Nat /\ Longest(s, t) \in Nat
      /\ Len(s) <= Longest(s, t) /\ Len(t) <= Longest(s, t)
  BY DEF Longest, Text
<1>2. \A n \in Nat \ {0} : At(s, n) \in Int /\ At(t, n) \in Int
  BY <1>1 DEF At, Text
<1>3. \A n \in Nat \ {0} : Sign(At(s, n) - At(t, n)) \in Int
  BY <1>2 DEF Sign
<1>4. \A n \in Nat \ {0} : n \notin 1..Longest(s, t) => Sign(At(s, n) - At(t, n)) = 0
  BY <1>1 DEF At, Sign
<1>5. [n \in 1..Longest(s, t) |-> Sign(At(s, n) - At(t, n))] \in [1..Longest(s, t) -> Int]
  BY <1>1, <1>3
<1> QED BY <1>1, <1>2, <1>4, <1>5 DEF Nth

LEMMA TextOpposed ==
  ASSUME NEW s \in Text, NEW t \in Text
  PROVE  Opposed(CompareText(s, t), CompareText(t, s))
<1> DEFINE r == [n \in 1..Longest(s, t) |-> Sign(At(s, n) - At(t, n))]
           q == [n \in 1..Longest(t, s) |-> Sign(At(t, n) - At(s, n))]
<1>1. r \in [1..Longest(s, t) -> Int] /\ q \in [1..Longest(t, s) -> Int]
      /\ Longest(s, t) \in Nat /\ Longest(t, s) \in Nat
  BY TextResults
<1>2. \A n \in Nat \ {0} : Opposed(Nth(r, n), Nth(q, n))
  <2> SUFFICES ASSUME NEW n \in Nat \ {0} PROVE Opposed(Nth(r, n), Nth(q, n))
    OBVIOUS
  <2>1. Nth(r, n) = Sign(At(s, n) - At(t, n)) /\ At(s, n) \in Int
    BY TextResults
  <2>2. Nth(q, n) = Sign(At(t, n) - At(s, n)) /\ At(t, n) \in Int
    BY TextResults
  <2> HIDE DEF r, q
  <2> QED BY <2>1, <2>2, SignOrders
<1>3. CompareText(s, t) = Or(r) /\ CompareText(t, s) = Or(q)
  BY DEF CompareText
<1> HIDE DEF r, q
<1> QED BY <1>1, <1>2, <1>3, OrOpposed

LEMMA TextFollows ==
  ASSUME NEW s \in Text, NEW t \in Text, NEW u \in Text
  PROVE  Follows(CompareText(s, t), CompareText(t, u), CompareText(s, u))
<1> DEFINE r == [n \in 1..Longest(s, t) |-> Sign(At(s, n) - At(t, n))]
           q == [n \in 1..Longest(t, u) |-> Sign(At(t, n) - At(u, n))]
           p == [n \in 1..Longest(s, u) |-> Sign(At(s, n) - At(u, n))]
<1>1. /\ r \in [1..Longest(s, t) -> Int] /\ Longest(s, t) \in Nat
      /\ q \in [1..Longest(t, u) -> Int] /\ Longest(t, u) \in Nat
      /\ p \in [1..Longest(s, u) -> Int] /\ Longest(s, u) \in Nat
  BY TextResults
<1>2. \A n \in Nat \ {0} : Follows(Nth(r, n), Nth(q, n), Nth(p, n))
  <2> SUFFICES ASSUME NEW n \in Nat \ {0} PROVE Follows(Nth(r, n), Nth(q, n), Nth(p, n))
    OBVIOUS
  <2>1. Nth(r, n) = Sign(At(s, n) - At(t, n)) /\ At(s, n) \in Int
    BY TextResults
  <2>2. Nth(q, n) = Sign(At(t, n) - At(u, n)) /\ At(t, n) \in Int
    BY TextResults
  <2>3. Nth(p, n) = Sign(At(s, n) - At(u, n)) /\ At(u, n) \in Int
    BY TextResults
  <2> HIDE DEF r, q, p
  <2> QED BY <2>1, <2>2, <2>3, SignOrders
<1>3. CompareText(s, t) = Or(r) /\ CompareText(t, u) = Or(q) /\ CompareText(s, u) = Or(p)
  BY DEF CompareText
<1> HIDE DEF r, q, p
<1> QED BY <1>1, <1>2, <1>3, OrFollows

-----------------------------------------------------------------------------
(* Definitions by recursion on a number: the rests of a text, the value of a *)
(* number.  A step is a function of the place and of what came before.        *)

IsIteration(f, n, start, step) ==
  f = [k \in 0..n |-> IF k = 0 THEN start ELSE step[k][f[k - 1]]]

LEMMA IterationExists ==
  ASSUME NEW D, NEW start \in D, NEW n \in Nat, NEW step \in [1..n -> [D -> D]]
  PROVE  \E f \in [0..n -> D] : IsIteration(f, n, start, step)
<1> DEFINE Bad == {m \in 0..n : ~\E f \in [0..m -> D] : IsIteration(f, m, start, step)}
<1>1. SUFFICES ASSUME Bad # {} PROVE FALSE
  <2>1. n \in 0..n
    OBVIOUS
  <2> QED BY <1>1, <2>1
<1>2. PICK m \in Bad : \A i \in Bad : m <= i
  <2>1. Bad \in SUBSET Nat
    OBVIOUS
  <2> HIDE DEF Bad
  <2> QED BY <1>1, <2>1, NatMinimum
<1>3. m \in 0..n /\ ~\E f \in [0..m -> D] : IsIteration(f, m, start, step)
  OBVIOUS
<1>4. CASE m = 0
  <2> DEFINE f == [k \in 0..m |-> start]
  <2>1. f \in [0..m -> D]
    OBVIOUS
  <2>2. IsIteration(f, m, start, step)
    <3>1. \A k \in 0..m : f[k] = IF k = 0 THEN start ELSE step[k][f[k - 1]]
      BY <1>4
    <3>2. f = [k \in 0..m |-> f[k]]
      OBVIOUS
    <3> HIDE DEF f
    <3> QED BY <3>1, <3>2 DEF IsIteration
  <2> QED BY <1>3, <2>1, <2>2
<1>5. CASE m # 0
  <2>1. m - 1 \in 0..n /\ ~(m <= m - 1) /\ m \in 1..n
    BY <1>3, <1>5
  <2>2. m - 1 \notin Bad
    <3> HIDE DEF Bad
    <3> QED BY <1>2, <2>1
  <2>3. PICK g \in [0..(m - 1) -> D] : IsIteration(g, m - 1, start, step)
    BY <2>1, <2>2
  <2>4. \A k \in 0..(m - 1) : g[k] = IF k = 0 THEN start ELSE step[k][g[k - 1]]
    BY <2>3 DEF IsIteration
  <2> DEFINE last == step[m][g[m - 1]]
             f == [k \in 0..m |-> IF k = m THEN last ELSE g[k]]
  <2>5. last \in D
    BY <2>1
  <2> HIDE DEF last
  <2>6. f \in [0..m -> D]
    BY <2>1, <2>5
  <2>7. \A k \in 0..m : f[k] = IF k = 0 THEN start ELSE step[k][f[k - 1]]
    <3> SUFFICES ASSUME NEW k \in 0..m PROVE f[k] = IF k = 0 THEN start ELSE step[k][f[k - 1]]
      OBVIOUS
    <3>1. CASE k = m
      <4>1. f[k] = last /\ f[k - 1] = g[m - 1] /\ k # 0
        BY <2>1, <3>1
      <4> QED BY <3>1, <4>1 DEF last
    <3>2. CASE k # m
      <4>1. k \in 0..(m - 1) /\ f[k] = g[k] /\ (k # 0 => f[k - 1] = g[k - 1])
        BY <2>1, <3>2
      <4> QED BY <2>4, <4>1
    <3> QED BY <3>1, <3>2
  <2>8. f = [k \in 0..m |-> f[k]]
    OBVIOUS
  <2> HIDE DEF f
  <2>9. IsIteration(f, m, start, step)
    BY <2>7, <2>8 DEF IsIteration
  <2> QED BY <1>3, <2>6, <2>9
<1> QED BY <1>4, <1>5

\* Where a run ends.
LEMMA RunEnds ==
  ASSUME NEW text \in Text, text # <<>>
  PROVE  /\ RunLength(text) \in 1..Len(text) /\ EndsAt(text, RunLength(text))
         /\ \A m \in 1..(RunLength(text) - 1) : ~EndsAt(text, m)
<1> DEFINE S == {n \in 1..Len(text) : EndsAt(text, n)}
<1>1. Len(text) \in Nat \ {0}
  BY DEF Text
<1>2. Len(text) \in S
  BY <1>1 DEF EndsAt
<1>3. PICK x \in S : \A y \in S : x <= y
  <2>1. S \in SUBSET Nat
    OBVIOUS
  <2> HIDE DEF S
  <2> QED BY <1>2, <2>1, NatMinimum
<1>4. x \in 1..Len(text) /\ EndsAt(text, x)
  OBVIOUS
<1>5. ASSUME NEW m \in 1..(x - 1) PROVE ~EndsAt(text, m)
  <2>1. m \in 1..Len(text) /\ ~(x <= m)
    BY <1>1, <1>4
  <2>2. m \notin S
    <3> HIDE DEF S
    <3> QED BY <1>3, <2>1
  <2> QED BY <2>1, <2>2
<1> QED BY <1>4, <1>5 DEF RunLength

Tokens == [type: {"", "sep", "alpha", "num"}, text: Text, rest: Text]
End == [type |-> "", text |-> <<>>, rest |-> <<>>]

LEMMA NextTokenTyped ==
  ASSUME NEW text \in Text
  PROVE  NextToken(text) \in Tokens
<1>1. <<>> \in Text
  BY DEF Text
<1>2. CASE text = <<>>
  BY <1>1, <1>2 DEF NextToken, Tokens
<1>3. CASE text # <<>> /\ text[1] = Dot
  <2>1. Tail(text) \in Text
    BY <1>3 DEF Text
  <2> QED BY <1>1, <1>3, <2>1 DEF NextToken, Tokens
<1>4. CASE text # <<>> /\ text[1] # Dot
  <2>1. RunLength(text) \in 1..Len(text) /\ Len(text) \in Nat
    BY <1>4, RunEnds DEF Text
  <2>2. SubSeq(text, 1, RunLength(text)) \in Text
    BY <2>1, SubSeqProperties DEF Text
  <2>3. SubSeq(text, RunLength(text) + 1, Len(text)) \in Text
    BY <2>1, SubSeqProperties DEF Text
  <2>4. NextToken(text) = [type |-> IF isNum(text[1]) THEN "num" ELSE "alpha",
                           text |-> SubSeq(text, 1, RunLength(text)),
                           rest |-> SubSeq(text, RunLength(text) + 1, Len(text))]
    BY <1>4 DEF NextToken
  <2> QED BY <2>2, <2>3, <2>4 DEF Tokens
<1> QED BY <1>2, <1>3, <1>4

LEMMA RestsTyped ==
  ASSUME NEW text \in Text
  PROVE  /\ Rests(text) \in [0..Len(text) -> Text] /\ Rests(text)[0] = text
         /\ \A k \in 1..Len(text) : Rests(text)[k] = NextToken(Rests(text)[k - 1]).rest
<1> DEFINE step == [k \in 1..Len(text) |-> [t \in Text |-> NextToken(t).rest]]
           IsRests(f) == f = [k \in 0..Len(text) |-> IF k = 0 THEN text ELSE NextToken(f[k - 1]).rest]
<1>1. Len(text) \in Nat
  BY DEF Text
<1>2. \A t \in Text : NextToken(t).rest \in Text
  BY NextTokenTyped DEF Tokens
<1>3. step \in [1..Len(text) -> [Text -> Text]]
  BY <1>2
<1>4. PICK f \in [0..Len(text) -> Text] : IsIteration(f, Len(text), text, step)
  <2> HIDE DEF step
  <2> QED BY <1>1, <1>3, IterationExists
<1>5. \A k \in 0..Len(text) : f[k] = IF k = 0 THEN text ELSE step[k][f[k - 1]]
  <2> HIDE DEF step
  <2> QED BY <1>4 DEF IsIteration
<1>6. \A k \in 0..Len(text) : f[k] = IF k = 0 THEN text ELSE NextToken(f[k - 1]).rest
  <2> SUFFICES ASSUME NEW k \in 0..Len(text), k # 0 PROVE f[k] = NextToken(f[k - 1]).rest
    BY <1>5
  <2>1. k \in 1..Len(text) /\ f[k - 1] \in Text
    BY <1>1
  <2> QED BY <1>5, <2>1
<1>7. f = [k \in 0..Len(text) |-> f[k]]
  OBVIOUS
<1>8. IsRests(f)
  BY <1>6, <1>7
<1> DEFINE rest == CHOOSE g : IsRests(g)
<1>9. IsRests(rest)
  <2> HIDE DEF IsRests
  <2> QED BY <1>8
<1>10. Rests(text) = rest
  BY DEF Rests
<1> HIDE DEF rest
<1>11. rest = [k \in 0..Len(text) |-> IF k = 0 THEN text ELSE NextToken(rest[k - 1]).rest]
  BY <1>9
<1> HIDE DEF IsRests, step
<1>12. \A k \in 0..Len(text) : rest[k] = IF k = 0 THEN text ELSE NextToken(rest[k - 1]).rest
  BY <1>11
<1> DEFINE Bad == {k \in 0..Len(text) : rest[k] \notin Text}
<1>13. SUFFICES ASSUME Bad # {} PROVE FALSE
  <2>1. rest = [k \in 0..Len(text) |-> rest[k]]
    BY <1>11
  <2>2. rest[0] = text /\ \A k \in 1..Len(text) : rest[k] = NextToken(rest[k - 1]).rest
    <3>1. 0 \in 0..Len(text) /\ \A k \in 1..Len(text) : k \in 0..Len(text) /\ k # 0
      BY <1>1
    <3> QED BY <1>12, <3>1, Zenon
  <2> QED BY <1>10, <2>1, <2>2
<1>14. PICK k \in Bad : \A i \in Bad : k <= i
  <2>1. Bad \in SUBSET Nat
    BY <1>1
  <2> HIDE DEF Bad
  <2> QED BY <1>13, <2>1, NatMinimum
<1>15. k \in 0..Len(text) /\ rest[k] \notin Text
  OBVIOUS
<1>16. k # 0 /\ k - 1 \in 0..Len(text) /\ ~(k <= k - 1)
  BY <1>1, <1>12, <1>15
<1>17. k - 1 \notin Bad
  <2> HIDE DEF Bad
  <2> QED BY <1>14, <1>16
<1>18. rest[k - 1] \in Text
  BY <1>16, <1>17
<1> HIDE DEF Bad
<1> QED BY <1>2, <1>12, <1>15, <1>16, <1>18

LEMMA TokenTyped ==
  ASSUME NEW text \in Text, NEW k \in Nat \ {0}
  PROVE  Token(text, k) \in Tokens /\ (k > Len(text) => Token(text, k) = End)
<1>1. Len(text) \in Nat /\ <<>> \in Text
  BY DEF Text
<1>2. CASE k <= Len(text)
  <2>1. Rests(text)[k - 1] \in Text
    <3>1. Rests(text) \in [0..Len(text) -> Text]
      BY RestsTyped
    <3>2. k - 1 \in 0..Len(text)
      BY <1>1, <1>2
    <3> QED BY <3>1, <3>2
  <2> QED BY <1>1, <1>2, <2>1, NextTokenTyped DEF Token
<1>3. CASE ~(k <= Len(text))
  BY <1>1, <1>3, NextTokenTyped DEF Token, NextToken, End
<1> QED BY <1>2, <1>3

LEMMA AtoiTyped ==
  ASSUME NEW digits \in Text
  PROVE  Atoi(digits) \in Int
<1> DEFINE Then(n, v) == IF 10 * v + digits[n] - 48 > MaxInt THEN MaxInt
                         ELSE 10 * v + digits[n] - 48
           step == [n \in 1..Len(digits) |-> [v \in Int |-> Then(n, v)]]
           IsValue(f) ==
             f = [n \in 0..Len(digits) |->
                    IF n = 0 THEN 0
                    ELSE IF 10 * f[n - 1] + digits[n] - 48 > MaxInt THEN MaxInt
                    ELSE 10 * f[n - 1] + digits[n] - 48]
           value == CHOOSE g : IsValue(g)
<1>1. Len(digits) \in Nat /\ \A n \in 1..Len(digits) : digits[n] \in Int
  BY DEF Text
<1>2. \A n \in 1..Len(digits), v \in Int : Then(n, v) \in Int
  BY <1>1, OrderAssumption
<1>3. step \in [1..Len(digits) -> [Int -> Int]]
  <2> HIDE DEF Then
  <2> QED BY <1>2
<1>4. PICK f \in [0..Len(digits) -> Int] : IsIteration(f, Len(digits), 0, step)
  <2> DEFINE D == Int
             start == 0
             n == Len(digits)
  <2>1. start \in D /\ n \in Nat /\ step \in [1..n -> [D -> D]]
    BY <1>1, <1>3
  <2> HIDE DEF step, D, start, n
  <2>2. \E f \in [0..n -> D] : IsIteration(f, n, start, step)
    BY <2>1, IterationExists
  <2> QED BY <2>2 DEF D, start, n
<1>5. \A n \in 0..Len(digits) : f[n] = IF n = 0 THEN 0 ELSE step[n][f[n - 1]]
  <2> HIDE DEF step
  <2> QED BY <1>4 DEF IsIteration
<1>6. \A n \in 0..Len(digits) : f[n] = IF n = 0 THEN 0 ELSE Then(n, f[n - 1])
  <2> SUFFICES ASSUME NEW n \in 0..Len(digits), n # 0 PROVE f[n] = Then(n, f[n - 1])
    BY <1>5
  <2>1. n \in 1..Len(digits) /\ f[n - 1] \in Int
    BY <1>1
  <2> HIDE DEF Then
  <2> QED BY <1>5, <2>1
<1>7. f = [n \in 0..Len(digits) |-> f[n]]
  OBVIOUS
<1>8. IsValue(f)
  BY <1>6, <1>7
<1>9. IsValue(value)
  <2> HIDE DEF IsValue
  <2> QED BY <1>8
<1>10. Atoi(digits) = value[Len(digits)]
  BY DEF Atoi
<1> HIDE DEF value
<1>11. \A n \in 0..Len(digits) : value[n] = IF n = 0 THEN 0 ELSE Then(n, value[n - 1])
  BY <1>9
<1> HIDE DEF IsValue, step, Then
<1> DEFINE Bad == {n \in 0..Len(digits) : value[n] \notin Int}
<1>12. SUFFICES ASSUME Bad # {} PROVE FALSE
  BY <1>1, <1>10
<1>13. PICK n \in Bad : \A i \in Bad : n <= i
  <2>1. Bad \in SUBSET Nat
    BY <1>1
  <2> HIDE DEF Bad
  <2> QED BY <1>12, <2>1, NatMinimum
<1>14. n \in 0..Len(digits) /\ value[n] \notin Int
  OBVIOUS
<1>15. n # 0 /\ n \in 1..Len(digits) /\ n - 1 \in 0..Len(digits) /\ ~(n <= n - 1)
  BY <1>1, <1>11, <1>14
<1>16. n - 1 \notin Bad
  <2> HIDE DEF Bad
  <2> QED BY <1>13, <1>15
<1>17. value[n - 1] \in Int
  BY <1>15, <1>16
<1> HIDE DEF Bad
<1> QED BY <1>2, <1>11, <1>14, <1>15, <1>17

-----------------------------------------------------------------------------
(* Tokens, texts as versions, versions, packages.                           *)

LEMMA OrderTyped ==
  ASSUME NEW a
  PROVE  /\ Order(a) \in Int
         /\ Order(a) = 3 <=> a = "num"
         /\ Order(a) = 2 <=> a = "alpha"
         /\ Order(a) = 1 <=> a = "sep"
<1>1. CASE a = "num"
  BY <1>1 DEF Order
<1>2. CASE a = "alpha"
  BY <1>2 DEF Order
<1>3. CASE a = "sep"
  BY <1>3 DEF Order
<1>4. CASE a # "num" /\ a # "alpha" /\ a # "sep"
  BY <1>4 DEF Order
<1> QED BY <1>1, <1>2, <1>3, <1>4

LEMMA TokenOpposed ==
  ASSUME NEW a \in Tokens, NEW b \in Tokens
  PROVE  Opposed(TokenCompare(a, b), TokenCompare(b, a))
<1>1. a.text \in Text /\ b.text \in Text /\ Order(a.type) \in Int /\ Order(b.type) \in Int
  BY OrderTyped DEF Tokens
<1>2. CASE a.type # b.type
  BY <1>1, <1>2, SignOrders DEF TokenCompare
<1>3. CASE a.type = b.type /\ a.type = "num"
  <2>1. Atoi(a.text) \in Int /\ Atoi(b.text) \in Int
    BY <1>1, AtoiTyped
  <2> QED BY <1>3, <2>1, SignOrders DEF TokenCompare
<1>4. CASE a.type = b.type /\ a.type # "num"
  BY <1>1, <1>4, TextOpposed DEF TokenCompare
<1> QED BY <1>2, <1>3, <1>4

\* Tokens of different types are told apart by their types.
LEMMA TokenTypes ==
  ASSUME NEW a \in Tokens, NEW b \in Tokens
  PROVE  /\ Order(a.type) \in Int /\ (Order(a.type) = Order(b.type) <=> a.type = b.type)
         /\ a.type # b.type => /\ TokenCompare(a, b) \in Int /\ TokenCompare(a, b) # 0
                               /\ TokenCompare(a, b) <= 0 <=> Order(a.type) < Order(b.type)
<1>1. a.type \in {"", "sep", "alpha", "num"} /\ b.type \in {"", "sep", "alpha", "num"}
  BY DEF Tokens
<1>2. Order(a.type) \in Int /\ Order(b.type) \in Int
      /\ (Order(a.type) = Order(b.type) <=> a.type = b.type)
  BY <1>1, OrderTyped
<1>3. a.type # b.type => TokenCompare(a, b) = Sign(Order(a.type) - Order(b.type))
  BY DEF TokenCompare
<1> QED BY <1>2, <1>3 DEF Sign

LEMMA TokenFollows ==
  ASSUME NEW a \in Tokens, NEW b \in Tokens, NEW c \in Tokens
  PROVE  Follows(TokenCompare(a, b), TokenCompare(b, c), TokenCompare(a, c))
<1>1. a.text \in Text /\ b.text \in Text /\ c.text \in Text
  BY DEF Tokens
<1>2. CASE a.type = b.type /\ b.type = c.type /\ a.type = "num"
  <2>1. Atoi(a.text) \in Int /\ Atoi(b.text) \in Int /\ Atoi(c.text) \in Int
    BY <1>1, AtoiTyped
  <2>2. /\ TokenCompare(a, b) = Sign(Atoi(a.text) - Atoi(b.text))
        /\ TokenCompare(b, c) = Sign(Atoi(b.text) - Atoi(c.text))
        /\ TokenCompare(a, c) = Sign(Atoi(a.text) - Atoi(c.text))
    BY <1>2 DEF TokenCompare
  <2> QED BY <2>1, <2>2, SignOrders
<1>3. CASE a.type = b.type /\ b.type = c.type /\ a.type # "num"
  <2>1. /\ TokenCompare(a, b) = CompareText(a.text, b.text)
        /\ TokenCompare(b, c) = CompareText(b.text, c.text)
        /\ TokenCompare(a, c) = CompareText(a.text, c.text)
    BY <1>3 DEF TokenCompare
  <2> QED BY <1>1, <2>1, TextFollows
<1>4. CASE a.type # b.type \/ b.type # c.type
  <2> SUFFICES ASSUME TokenCompare(a, b) <= 0, TokenCompare(b, c) <= 0
               PROVE  /\ TokenCompare(a, c) <= 0 /\ TokenCompare(a, c) # 0
                      /\ TokenCompare(a, b) # 0 \/ TokenCompare(b, c) # 0
    BY DEF Follows
  <2>1. Order(a.type) \in Int /\ Order(b.type) \in Int /\ Order(c.type) \in Int
    BY TokenTypes
  <2>2. /\ Order(a.type) <= Order(b.type) /\ Order(b.type) <= Order(c.type)
        /\ a.type # b.type => Order(a.type) < Order(b.type) /\ TokenCompare(a, b) # 0
        /\ b.type # c.type => Order(b.type) < Order(c.type) /\ TokenCompare(b, c) # 0
    <3>1. a.type # b.type => Order(a.type) < Order(b.type) /\ TokenCompare(a, b) # 0
      BY TokenTypes
    <3>2. b.type # c.type => Order(b.type) < Order(c.type) /\ TokenCompare(b, c) # 0
      BY TokenTypes
    <3> QED BY <2>1, <3>1, <3>2
  <2>3. Order(a.type) < Order(c.type)
    BY <1>4, <2>1, <2>2
  <2>4. a.type # c.type /\ TokenCompare(a, c) # 0 /\ TokenCompare(a, c) <= 0
    BY <2>1, <2>3, TokenTypes
  <2> QED BY <1>4, <2>2, <2>4
<1> QED BY <1>2, <1>3, <1>4

LEMMA TokenResults ==
  ASSUME NEW s \in Text, NEW t \in Text
  PROVE  /\ Longest(s, t) \in Nat
         /\ [n \in 1..Longest(s, t) |-> TokenCompare(Token(s, n), Token(t, n))]
              \in [1..Longest(s, t) -> Int]
         /\ \A n \in Nat \ {0} :
              Nth([m \in 1..Longest(s, t) |-> TokenCompare(Token(s, m), Token(t, m))], n)
                = TokenCompare(Token(s, n), Token(t, n))
<1>1. Len(s) \in Nat /\ Len(t) \in Nat /\ Longest(s, t) \in Nat
      /\ Len(s) <= Longest(s, t) /\ Len(t) <= Longest(s, t)
  BY DEF Longest, Text
<1>2. \A n \in Nat \ {0} : TokenCompare(Token(s, n), Token(t, n)) \in Int
  <2> SUFFICES ASSUME NEW n \in Nat \ {0} PROVE TokenCompare(Token(s, n), Token(t, n)) \in Int
    OBVIOUS
  <2>1. Token(s, n) \in Tokens /\ Token(t, n) \in Tokens
    BY TokenTyped
  <2> QED BY <2>1, TokenOpposed DEF Opposed
<1>3. End \in Tokens
  BY DEF End, Tokens, Text
<1>4. TokenCompare(End, End) = 0
  BY <1>3, TokenOpposed DEF Opposed
<1>5. ASSUME NEW n \in Nat \ {0}, n \notin 1..Longest(s, t)
      PROVE  TokenCompare(Token(s, n), Token(t, n)) = 0
  <2>1. n > Len(s) /\ n > Len(t)
    BY <1>1, <1>5
  <2>2. Token(s, n) = End /\ Token(t, n) = End
    BY <2>1, TokenTyped
  <2> QED BY <1>4, <2>2
<1>6. [n \in 1..Longest(s, t) |-> TokenCompare(Token(s, n), Token(t, n))]
        \in [1..Longest(s, t) -> Int]
  BY <1>1, <1>2
<1> QED BY <1>1, <1>5, <1>6 DEF Nth

LEMMA TokensOpposed ==
  ASSUME NEW s \in Text, NEW t \in Text
  PROVE  Opposed(CompareTokens(s, t), CompareTokens(t, s))
<1> DEFINE r == [n \in 1..Longest(s, t) |-> TokenCompare(Token(s, n), Token(t, n))]
           q == [n \in 1..Longest(t, s) |-> TokenCompare(Token(t, n), Token(s, n))]
<1>1. r \in [1..Longest(s, t) -> Int] /\ q \in [1..Longest(t, s) -> Int]
      /\ Longest(s, t) \in Nat /\ Longest(t, s) \in Nat
  BY TokenResults
<1>2. \A n \in Nat \ {0} : Opposed(Nth(r, n), Nth(q, n))
  <2> SUFFICES ASSUME NEW n \in Nat \ {0} PROVE Opposed(Nth(r, n), Nth(q, n))
    OBVIOUS
  <2>1. Nth(r, n) = TokenCompare(Token(s, n), Token(t, n))
    BY TokenResults
  <2>2. Nth(q, n) = TokenCompare(Token(t, n), Token(s, n))
    BY TokenResults
  <2>3. Token(s, n) \in Tokens /\ Token(t, n) \in Tokens
    BY TokenTyped
  <2> HIDE DEF r, q
  <2> QED BY <2>1, <2>2, <2>3, TokenOpposed
<1>3. CompareTokens(s, t) = Or(r) /\ CompareTokens(t, s) = Or(q)
  BY DEF CompareTokens
<1> HIDE DEF r, q
<1> QED BY <1>1, <1>2, <1>3, OrOpposed

LEMMA TokensFollow ==
  ASSUME NEW s \in Text, NEW t \in Text, NEW u \in Text
  PROVE  Follows(CompareTokens(s, t), CompareTokens(t, u), CompareTokens(s, u))
<1> DEFINE r == [n \in 1..Longest(s, t) |-> TokenCompare(Token(s, n), Token(t, n))]
           q == [n \in 1..Longest(t, u) |-> TokenCompare(Token(t, n), Token(u, n))]
           p == [n \in 1..Longest(s, u) |-> TokenCompare(Token(s, n), Token(u, n))]
<1>1. /\ r \in [1..Longest(s, t) -> Int] /\ Longest(s, t) \in Nat
      /\ q \in [1..Longest(t, u) -> Int] /\ Longest(t, u) \in Nat
      /\ p \in [1..Longest(s, u) -> Int] /\ Longest(s, u) \in Nat
  BY TokenResults
<1>2. \A n \in Nat \ {0} : Follows(Nth(r, n), Nth(q, n), Nth(p, n))
  <2> SUFFICES ASSUME NEW n \in Nat \ {0} PROVE Follows(Nth(r, n), Nth(q, n), Nth(p, n))
    OBVIOUS
  <2>1. Nth(r, n) = TokenCompare(Token(s, n), Token(t, n))
    BY TokenResults
  <2>2. Nth(q, n) = TokenCompare(Token(t, n), Token(u, n))
    BY TokenResults
  <2>3. Nth(p, n) = TokenCompare(Token(s, n), Token(u, n))
    BY TokenResults
  <2>4. Token(s, n) \in Tokens /\ Token(t, n) \in Tokens /\ Token(u, n) \in Tokens
    BY TokenTyped
  <2> HIDE DEF r, q, p
  <2> QED BY <2>1, <2>2, <2>3, <2>4, TokenFollows
<1>3. CompareTokens(s, t) = Or(r) /\ CompareTokens(t, u) = Or(q) /\ CompareTokens(s, u) = Or(p)
  BY DEF CompareTokens
<1> HIDE DEF r, q, p
<1> QED BY <1>1, <1>2, <1>3, OrFollows

\* Which of three kinds a text is of: nothing, with a tilde, any other.
Kind(t) == IF t = <<>> THEN 0 ELSE IF t[1] = Tilde THEN 1 ELSE 2

LEMMA KindsDecide ==
  ASSUME NEW a \in Text, NEW b \in Text
  PROVE  /\ Kind(a) \in 0..2 /\ Kind(b) \in 0..2
         /\ Kind(a) < Kind(b) => compare(a, b) = -1
         /\ Kind(a) > Kind(b) => compare(a, b) = 1
         /\ Kind(a) = 0 /\ Kind(b) = 0 => compare(a, b) = 0
         /\ Kind(a) = 1 /\ Kind(b) = 1 => compare(a, b) = CompareTokens(Tail(a), Tail(b))
         /\ Kind(a) = 2 /\ Kind(b) = 2 => compare(a, b) = CompareTokens(a, b)
<1>1. /\ Len(a) \in Nat /\ (a = <<>> <=> Len(a) = 0)
      /\ Len(b) \in Nat /\ (b = <<>> <=> Len(b) = 0)
  BY EmptySeq DEF Text
<1>2. Kind(a) \in 0..2 /\ Kind(b) \in 0..2
  BY DEF Kind
<1>3. CASE a = <<>> \/ b = <<>>
  <2>1. compare(a, b) = Sign(Len(a) - Len(b))
    BY <1>3 DEF compare
  <2> QED BY <1>1, <1>2, <1>3, <2>1 DEF Kind, Sign
<1>4. CASE a # <<>> /\ b # <<>>
  BY <1>2, <1>4 DEF Kind, compare
<1> QED BY <1>3, <1>4

LEMMA TailTyped == ASSUME NEW a \in Text, a # <<>> PROVE Tail(a) \in Text
BY DEF Text

LEMMA compareOpposed ==
  ASSUME NEW a \in Text, NEW b \in Text
  PROVE  Opposed(compare(a, b), compare(b, a))
<1>1. CASE Kind(a) = 0 /\ Kind(b) = 0
  BY <1>1, KindsDecide DEF Opposed
<1>2. CASE Kind(a) = 1 /\ Kind(b) = 1
  <2>1. Tail(a) \in Text /\ Tail(b) \in Text
    BY <1>2, TailTyped DEF Kind
  <2> QED BY <1>2, <2>1, KindsDecide, TokensOpposed
<1>3. CASE Kind(a) = 2 /\ Kind(b) = 2
  BY <1>3, KindsDecide, TokensOpposed
<1>4. CASE Kind(a) # Kind(b)
  <2>1. Kind(a) \in 0..2 /\ Kind(b) \in 0..2
    BY KindsDecide
  <2>2. CASE Kind(a) < Kind(b)
    <3>1. compare(a, b) = -1 /\ compare(b, a) = 1
      BY <2>1, <2>2, KindsDecide
    <3> QED BY <3>1 DEF Opposed
  <2>3. CASE Kind(a) > Kind(b)
    <3>1. compare(a, b) = 1 /\ compare(b, a) = -1
      BY <2>1, <2>3, KindsDecide
    <3> QED BY <3>1 DEF Opposed
  <2> QED BY <1>4, <2>1, <2>2, <2>3
<1> QED BY <1>1, <1>2, <1>3, <1>4, KindsDecide

LEMMA compareFollows ==
  ASSUME NEW a \in Text, NEW b \in Text, NEW c \in Text
  PROVE  Follows(compare(a, b), compare(b, c), compare(a, c))
<1>1. Kind(a) \in 0..2 /\ Kind(b) \in 0..2 /\ Kind(c) \in 0..2
  BY KindsDecide
<1>2. CASE Kind(a) = 0 /\ Kind(b) = 0 /\ Kind(c) = 0
  BY <1>2, KindsDecide DEF Follows
<1>3. CASE Kind(a) = 1 /\ Kind(b) = 1 /\ Kind(c) = 1
  <2>1. Tail(a) \in Text /\ Tail(b) \in Text /\ Tail(c) \in Text
    BY <1>3, TailTyped DEF Kind
  <2>2. /\ compare(a, b) = CompareTokens(Tail(a), Tail(b))
        /\ compare(b, c) = CompareTokens(Tail(b), Tail(c))
        /\ compare(a, c) = CompareTokens(Tail(a), Tail(c))
    BY <1>3, KindsDecide
  <2> QED BY <2>1, <2>2, TokensFollow
<1>4. CASE Kind(a) = 2 /\ Kind(b) = 2 /\ Kind(c) = 2
  <2>1. /\ compare(a, b) = CompareTokens(a, b)
        /\ compare(b, c) = CompareTokens(b, c)
        /\ compare(a, c) = CompareTokens(a, c)
    BY <1>4, KindsDecide
  <2> QED BY <2>1, TokensFollow
<1>5. CASE Kind(a) # Kind(b) \/ Kind(b) # Kind(c)
  <2> SUFFICES ASSUME compare(a, b) <= 0, compare(b, c) <= 0
               PROVE  compare(a, c) = -1 /\ (compare(a, b) # 0 \/ compare(b, c) # 0)
    BY DEF Follows
  <2>1. ~(Kind(a) > Kind(b)) /\ ~(Kind(b) > Kind(c))
    BY KindsDecide
  <2>2. Kind(a) < Kind(b) => compare(a, b) = -1
    BY KindsDecide
  <2>3. Kind(b) < Kind(c) => compare(b, c) = -1
    BY KindsDecide
  <2>4. Kind(a) < Kind(c)
    BY <1>1, <1>5, <2>1
  <2>5. compare(a, c) = -1
    BY <2>4, KindsDecide
  <2> QED BY <1>1, <1>5, <2>1, <2>2, <2>3, <2>5
<1> QED BY <1>1, <1>2, <1>3, <1>4, <1>5

LEMMA VersionOpposed ==
  ASSUME NEW a \in Version, NEW b \in Version
  PROVE  Opposed(Compare(a, b), Compare(b, a))
<1>1. /\ Opposed(compare(a.epoch, b.epoch), compare(b.epoch, a.epoch))
      /\ Opposed(compare(a.ver, b.ver), compare(b.ver, a.ver))
      /\ Opposed(compare(a.rel, b.rel), compare(b.rel, a.rel))
  BY compareOpposed DEF Version
<1> QED BY <1>1, ThreeOpposed DEF Compare

LEMMA VersionFollows ==
  ASSUME NEW a \in Version, NEW b \in Version, NEW c \in Version
  PROVE  Follows(Compare(a, b), Compare(b, c), Compare(a, c))
<1>1. /\ a.epoch \in Text /\ a.ver \in Text /\ a.rel \in Text
      /\ b.epoch \in Text /\ b.ver \in Text /\ b.rel \in Text
      /\ c.epoch \in Text /\ c.ver \in Text /\ c.rel \in Text
  BY DEF Version
<1>2. \A s, t \in Text : compare(s, t) \in Int
  BY compareOpposed DEF Opposed
<1>3. /\ Follows(compare(a.epoch, b.epoch), compare(b.epoch, c.epoch), compare(a.epoch, c.epoch))
      /\ Follows(compare(a.ver, b.ver), compare(b.ver, c.ver), compare(a.ver, c.ver))
      /\ Follows(compare(a.rel, b.rel), compare(b.rel, c.rel), compare(a.rel, c.rel))
  BY <1>1, compareFollows
<1> QED BY <1>1, <1>2, <1>3, ThreeFollow DEF Compare

LEMMA ArchPriorityTyped ==
  ASSUME NEW arch
  PROVE  ArchPriority(arch) \in Int
<1>1. Len(ArchOrder) \in Nat /\ DOMAIN ArchOrder = 1..Len(ArchOrder)
  BY OrderAssumption
<1>2. CASE \A n \in DOMAIN ArchOrder : ArchOrder[n] # arch
  BY <1>2 DEF ArchPriority
<1>3. CASE \E n \in DOMAIN ArchOrder : ArchOrder[n] = arch
  <2> DEFINE S == {n \in 1..Len(ArchOrder) : ArchOrder[n] = arch}
  <2>1. PICK x \in S : \A y \in S : x <= y
    <3>1. S \in SUBSET Nat /\ S # {}
      BY <1>1, <1>3
    <3> HIDE DEF S
    <3> QED BY <3>1, NatMinimum
  <2>2. x \in DOMAIN ArchOrder /\ ArchOrder[x] = arch
    BY <1>1
  <2>3. ASSUME NEW m \in 1..(x - 1) PROVE ArchOrder[m] # arch
    <3>1. m \in 1..Len(ArchOrder) /\ ~(x <= m)
      BY <1>1, <2>2
    <3>2. m \notin S
      <4> HIDE DEF S
      <4> QED BY <2>1, <3>1
    <3> QED BY <3>1, <3>2
  <2> DEFINE first == CHOOSE n \in DOMAIN ArchOrder :
                        ArchOrder[n] = arch /\ \A m \in 1..(n - 1) : ArchOrder[m] # arch
  <2>4. first \in DOMAIN ArchOrder
    BY <2>2, <2>3
  <2>5. ArchPriority(arch) = Len(ArchOrder) + 1 - first
    BY <1>3 DEF ArchPriority
  <2> HIDE DEF first
  <2> QED BY <1>1, <2>4, <2>5
<1> QED BY <1>2, <1>3

\* Packages are totally preordered: by architecture, priority and version.
LEMMA PackageOpposed ==
  ASSUME NEW p \in Package, NEW q \in Package
  PROVE  Opposed(ComparePackage(p, q), ComparePackage(q, p))
<1>1. /\ ArchPriority(p.arch) \in Int /\ ArchPriority(q.arch) \in Int
      /\ p.priority \in Int /\ q.priority \in Int /\ p.version \in Version /\ q.version \in Version
  BY ArchPriorityTyped DEF Package
<1>2. Opposed(CompareArch(p.arch, q.arch), CompareArch(q.arch, p.arch))
  BY <1>1 DEF CompareArch, Opposed
<1>3. Opposed(q.priority - p.priority, p.priority - q.priority)
  BY <1>1 DEF Opposed
<1>4. Opposed(Compare(p.version, q.version), Compare(q.version, p.version))
  BY <1>1, VersionOpposed
<1> QED BY <1>2, <1>3, <1>4, ThreeOpposed DEF ComparePackage

LEMMA PackageFollows ==
  ASSUME NEW p \in Package, NEW q \in Package, NEW r \in Package
  PROVE  Follows(ComparePackage(p, q), ComparePackage(q, r), ComparePackage(p, r))
<1>1. /\ ArchPriority(p.arch) \in Int /\ ArchPriority(q.arch) \in Int /\ ArchPriority(r.arch) \in Int
      /\ p.priority \in Int /\ q.priority \in Int /\ r.priority \in Int
      /\ p.version \in Version /\ q.version \in Version /\ r.version \in Version
  BY ArchPriorityTyped DEF Package
<1>2. /\ CompareArch(p.arch, q.arch) \in Int /\ CompareArch(q.arch, r.arch) \in Int
      /\ CompareArch(p.arch, r.arch) \in Int
      /\ Follows(CompareArch(p.arch, q.arch), CompareArch(q.arch, r.arch), CompareArch(p.arch, r.arch))
  BY <1>1 DEF CompareArch, Follows
<1>3. Follows(q.priority - p.priority, r.priority - q.priority, r.priority - p.priority)
  BY <1>1 DEF Follows
<1>4. /\ Follows(Compare(p.version, q.version), Compare(q.version, r.version),
                 Compare(p.version, r.version))
      /\ Compare(p.version, q.version) \in Int /\ Compare(q.version, r.version) \in Int
      /\ Compare(p.version, r.version) \in Int
  BY <1>1, VersionFollows, VersionOpposed DEF Opposed
<1>5. q.priority - p.priority \in Int /\ r.priority - q.priority \in Int /\ r.priority - p.priority \in Int
  BY <1>1
<1> QED BY <1>2, <1>3, <1>4, <1>5, ThreeFollow DEF ComparePackage

-----------------------------------------------------------------------------
(* What Load makes of the order.                                            *)

\* p is not better than q.
Upto(p, q) == ComparePackage(p, q) <= 0

LEMMA UptoOrders ==
  ASSUME NEW p \in Package, NEW q \in Package
  PROVE  /\ ComparePackage(p, q) \in Int /\ Upto(p, p)
         /\ Replaces(p, q) <=> ~Upto(p, q)
         /\ Replaces(p, q) => Upto(q, p)
         /\ Upto(p, q) => ComparePackage(q, p) >= 0
         /\ Upto(p, q) /\ Upto(q, p) => ComparePackage(p, q) = 0
<1>1. Opposed(ComparePackage(p, q), ComparePackage(q, p)) /\ Opposed(ComparePackage(p, p), ComparePackage(p, p))
  BY PackageOpposed
<1> QED BY <1>1 DEF Opposed, Upto, Replaces

LEMMA UptoTransitive ==
  ASSUME NEW p \in Package, NEW q \in Package, NEW r \in Package, Upto(p, q), Upto(q, r)
  PROVE  Upto(p, r)
BY PackageFollows DEF Follows, Upto

LEMMA ArrangementOf ==
  ASSUME NEW S, IsFiniteSet(S), NEW s \in Arrangements(S)
  PROVE  s \in Seq(S) /\ Range(s) = S /\ Len(s) = Cardinality(S) /\ (S # {} => Len(s) \in Nat \ {0})
<1>1. Cardinality(S) \in Nat /\ (Cardinality(S) = 0 <=> S = {})
  BY FS_CardinalityType, FS_EmptySet
<1>2. s \in [1..Cardinality(S) -> S] /\ S \subseteq Range(s)
  BY DEF Arrangements
<1>3. s \in Seq(S) /\ Len(s) = Cardinality(S)
  BY <1>1, <1>2
<1>4. Range(s) = S
  BY <1>2 DEF Range
<1> QED BY <1>1, <1>3, <1>4

LEMMA RangeOfTail ==
  ASSUME NEW S, NEW s \in Seq(S), s # <<>>
  PROVE  /\ Tail(s) \in Seq(S) /\ Head(s) \in Range(s)
         /\ Range(s) = {Head(s)} \cup Range(Tail(s))
<1>1. Len(s) \in Nat \ {0} /\ DOMAIN s = 1..Len(s)
  BY EmptySeq
<1>2. Head(s) = s[1] /\ Tail(s) \in Seq(S) /\ DOMAIN Tail(s) = 1..(Len(s) - 1)
      /\ \A n \in 1..(Len(s) - 1) : Tail(s)[n] = s[n + 1]
  BY <1>1
<1>3. ASSUME NEW n \in DOMAIN s PROVE s[n] \in {Head(s)} \cup Range(Tail(s))
  <2>1. CASE n = 1
    BY <1>2, <2>1
  <2>2. CASE n # 1
    <3>1. n - 1 \in 1..(Len(s) - 1) /\ Tail(s)[n - 1] = s[n]
      BY <1>1, <1>2, <2>2
    <3> QED BY <1>2, <3>1 DEF Range
  <2> QED BY <2>1, <2>2
<1>4. ASSUME NEW n \in 1..(Len(s) - 1) PROVE Tail(s)[n] \in Range(s)
  <2>1. n + 1 \in DOMAIN s /\ Tail(s)[n] = s[n + 1]
    BY <1>1, <1>2
  <2> QED BY <2>1 DEF Range
<1>5. Head(s) \in Range(s)
  BY <1>1, <1>2 DEF Range
<1> QED BY <1>2, <1>3, <1>4, <1>5 DEF Range

\* A list whose neighbours are in order is in order throughout.
LEMMA RankingOrdered ==
  ASSUME NEW S \in SUBSET Package, IsFiniteSet(S), NEW s \in Rankings(S)
  PROVE  \A m, k \in DOMAIN s : m < k => Upto(s[m], s[k])
<1>1. s \in Seq(S) /\ Len(s) = Cardinality(S) /\ DOMAIN s = 1..Len(s) /\ Len(s) \in Nat
  BY ArrangementOf DEF Rankings
<1>2. \A n \in 1..(Len(s) - 1) : Upto(s[n], s[n + 1])
  BY DEF Rankings, Upto
<1> SUFFICES ASSUME NEW m \in DOMAIN s PROVE \A k \in DOMAIN s : m < k => Upto(s[m], s[k])
  OBVIOUS
<1> DEFINE Bad == {k \in DOMAIN s : m < k /\ ~Upto(s[m], s[k])}
<1>3. SUFFICES ASSUME Bad # {} PROVE FALSE
  OBVIOUS
<1>4. PICK k \in Bad : \A i \in Bad : k <= i
  <2>1. Bad \in SUBSET Nat
    BY <1>1
  <2> HIDE DEF Bad
  <2> QED BY <1>3, <2>1, NatMinimum
<1>5. k \in 1..Len(s) /\ m \in 1..Len(s) /\ m < k /\ ~Upto(s[m], s[k])
  BY <1>1
<1>6. k - 1 \in 1..(Len(s) - 1) /\ k - 1 \in DOMAIN s /\ ~(k <= k - 1) /\ m <= k - 1
  BY <1>1, <1>5
<1>7. Upto(s[k - 1], s[k])
  BY <1>1, <1>2, <1>6
<1>8. s[m] \in Package /\ s[k - 1] \in Package /\ s[k] \in Package
  BY <1>1, <1>5, <1>6
<1>9. k - 1 \notin Bad
  <2> HIDE DEF Bad
  <2> QED BY <1>4, <1>6
<1>10. m = k - 1 \/ Upto(s[m], s[k - 1])
  BY <1>1, <1>5, <1>6, <1>9
<1> HIDE DEF Bad
<1> QED BY <1>5, <1>7, <1>8, <1>10, UptoTransitive

\* The packages a pass goes over.
Kept == seen \cup Range(queue)

Passes ==
  /\ pool \in Pools /\ pc \in {"sort", "best", "newest"}
  /\ queue \in Seq(pool) /\ seen \subseteq pool
  /\ pc = "sort" => queue = <<>> /\ seen = {} /\ best = <<>>
  /\ pc = "best" => Kept = pool

\* Nothing that was seen is better than what the passes have kept of it.
Picked ==
  /\ \A a \in DOMAIN best : best[a] \in pool
  /\ pc = "best" => \A p \in seen : p.arch \in DOMAIN best /\ Upto(p, best[p.arch])

Resolved ==
  /\ newest # <<>> => pc = "newest" /\ \E p \in seen : newest = <<p>>
  /\ pc = "newest" => \A p \in seen : newest # <<>> /\ Upto(p, newest[1])

Ranked ==
  IF pc = "newest" THEN Kept # {} /\ ranked \in Rankings(Kept) ELSE ranked = <<>>

LoadInv == Passes /\ Picked /\ Resolved /\ Ranked

LEMMA PoolTyped ==
  ASSUME pool \in Pools
  PROVE  /\ pool \subseteq Package /\ IsFiniteSet(pool) /\ pool # {}
         /\ \A S \in SUBSET pool : S \subseteq Package /\ IsFiniteSet(S)
BY PoolsAssumption, FS_Subset

LEMMA LoadInvInit == LoadInit => LoadInv
<1> SUFFICES ASSUME LoadInit PROVE LoadInv
  OBVIOUS
<1>1. Passes
  BY DEF LoadInit, Passes
<1>2. Picked
  BY DEF LoadInit, Picked
<1>3. Resolved /\ Ranked
  BY DEF LoadInit, Resolved, Ranked
<1> QED BY <1>1, <1>2, <1>3 DEF LoadInv

LEMMA SortKeysKeeps == LoadInv /\ SortKeys => LoadInv'
<1> SUFFICES ASSUME LoadInv, SortKeys PROVE LoadInv'
  OBVIOUS
<1>1. /\ pool' = pool /\ seen' = {} /\ best' = <<>> /\ newest' = newest /\ ranked' = <<>>
      /\ pc' = "best" /\ queue' \in Arrangements(pool) /\ newest = <<>>
  BY DEF LoadInv, SortKeys, Passes, Resolved, Ranked
<1>2. queue' \in Seq(pool) /\ Range(queue') = pool
  BY <1>1, ArrangementOf, PoolTyped DEF LoadInv, Passes
<1>3. Passes'
  BY <1>1, <1>2 DEF LoadInv, Passes, Kept
<1>4. Picked'
  BY <1>1 DEF Picked
<1>5. Resolved' /\ Ranked'
  BY <1>1 DEF Resolved, Ranked
<1> QED BY <1>3, <1>4, <1>5 DEF LoadInv

\* A pass goes on to the next package: it goes over the same ones.
LEMMA GoesOn ==
  ASSUME LoadInv, queue # <<>>, seen' = seen \cup {Head(queue)}, queue' = Tail(queue)
  PROVE  /\ Head(queue) \in pool /\ queue' \in Seq(pool) /\ seen' \subseteq pool /\ Kept' = Kept
<1>1. queue \in Seq(pool) /\ seen \subseteq pool
  BY DEF LoadInv, Passes
<1>2. Tail(queue) \in Seq(pool) /\ Range(queue) = {Head(queue)} \cup Range(Tail(queue))
  BY <1>1, RangeOfTail
<1>3. Head(queue) \in pool
  BY <1>1
<1> QED BY <1>1, <1>2, <1>3 DEF Kept

LEMMA PickBestKeeps == LoadInv /\ PickBest => LoadInv'
<1> SUFFICES ASSUME LoadInv, PickBest PROVE LoadInv'
  OBVIOUS
<1> DEFINE p == Head(queue)
           keeps == p.arch \in DOMAIN best /\ ~Replaces(p, best[p.arch])
<1>1. /\ pc = "best" /\ pc' = "best" /\ queue # <<>> /\ seen' = seen \cup {p} /\ queue' = Tail(queue)
      /\ pool' = pool /\ newest' = newest /\ ranked' = ranked
      /\ best' = IF keeps THEN best
                 ELSE [a \in DOMAIN best \cup {p.arch} |-> IF a = p.arch THEN p ELSE best[a]]
  BY DEF PickBest
<1>2. p \in pool /\ queue' \in Seq(pool) /\ seen' \subseteq pool /\ Kept' = Kept
  BY <1>1, GoesOn
<1>3. Passes'
  BY <1>1, <1>2 DEF LoadInv, Passes
<1>4. pool \subseteq Package /\ seen \subseteq pool /\ \A a \in DOMAIN best : best[a] \in pool
  BY PoolTyped DEF LoadInv, Passes, Picked
<1>5. \A q \in seen : q.arch \in DOMAIN best /\ Upto(q, best[q.arch])
  BY <1>1 DEF LoadInv, Picked
<1> HIDE DEF p, keeps
<1>6. ASSUME keeps PROVE Picked'
  <2>1. best' = best
    BY <1>1, <1>6
  <2>2. p.arch \in DOMAIN best /\ Upto(p, best[p.arch])
    BY <1>2, <1>4, <1>6, UptoOrders DEF keeps
  <2> QED BY <1>1, <1>4, <1>5, <2>1, <2>2 DEF Picked
<1>7. ASSUME ~keeps PROVE Picked'
  <2>1. best' = [a \in DOMAIN best \cup {p.arch} |-> IF a = p.arch THEN p ELSE best[a]]
    BY <1>1, <1>7
  <2>2. \A a \in DOMAIN best' : best'[a] \in pool
    BY <1>2, <1>4, <2>1
  <2>3. Upto(p, p)
    BY <1>2, <1>4, UptoOrders
  <2>4. ASSUME NEW q \in seen PROVE q.arch \in DOMAIN best' /\ Upto(q, best'[q.arch])
    <3>1. CASE q.arch # p.arch
      BY <1>5, <2>1, <3>1
    <3>2. CASE q.arch = p.arch
      <4>1. p.arch \in DOMAIN best /\ Upto(q, best[p.arch]) /\ Replaces(p, best[p.arch])
        BY <1>5, <1>7, <3>2 DEF keeps
      <4>2. Upto(best[p.arch], p)
        BY <1>2, <1>4, <4>1, UptoOrders
      <4>3. Upto(q, p)
        BY <1>2, <1>4, <4>1, <4>2, UptoTransitive
      <4> QED BY <2>1, <3>2, <4>3
    <3> QED BY <3>1, <3>2
  <2> QED BY <1>1, <2>1, <2>2, <2>3, <2>4 DEF Picked
<1>8. Resolved' /\ Ranked'
  BY <1>1 DEF LoadInv, Resolved, Ranked
<1> QED BY <1>3, <1>6, <1>7, <1>8 DEF LoadInv

LEMMA RankKeeps == LoadInv /\ Rank => LoadInv'
<1> SUFFICES ASSUME LoadInv, Rank PROVE LoadInv'
  OBVIOUS
<1>1. PICK kept \in {pool, Range(best)} : ranked' \in Rankings(kept) /\ queue' \in Arrangements(kept)
  BY DEF Rank
<1>2. /\ pc = "best" /\ queue = <<>> /\ seen' = {} /\ pc' = "newest"
      /\ pool' = pool /\ best' = best /\ newest' = newest
  BY DEF Rank
<1>3. pool \in Pools /\ pool # {} /\ Range(best) \subseteq pool
  BY PoolTyped DEF LoadInv, Passes, Picked, Range
<1>4. seen = pool
  <2>1. Range(queue) = {}
    BY <1>2 DEF Range
  <2> QED BY <1>2, <2>1 DEF LoadInv, Passes, Kept
<1>5. kept # {}
  <2>1. PICK p : p \in seen
    BY <1>3, <1>4
  <2>2. p.arch \in DOMAIN best
    BY <1>2, <2>1 DEF LoadInv, Picked
  <2>3. best[p.arch] \in Range(best)
    BY <2>2 DEF Range
  <2> QED BY <1>1, <1>3, <2>3
<1>6. kept \subseteq pool /\ IsFiniteSet(kept)
  BY <1>1, <1>3, PoolTyped
<1>7. queue' \in Seq(kept) /\ Range(queue') = kept
  BY <1>1, <1>6, ArrangementOf
<1>8. queue' \in Seq(pool)
  BY <1>6, <1>7
<1>9. Kept' = kept
  BY <1>2, <1>7 DEF Kept
<1>10. Passes'
  BY <1>2, <1>3, <1>8 DEF Passes
<1>11. Picked'
  BY <1>2 DEF LoadInv, Picked
<1>12. Resolved'
  BY <1>2 DEF LoadInv, Resolved
<1>13. Ranked'
  BY <1>1, <1>2, <1>5, <1>9 DEF Ranked
<1> QED BY <1>10, <1>11, <1>12, <1>13 DEF LoadInv

LEMMA ResolveNewestKeeps == LoadInv /\ ResolveNewest => LoadInv'
<1> SUFFICES ASSUME LoadInv, ResolveNewest PROVE LoadInv'
  OBVIOUS
<1> DEFINE p == Head(queue)
           keeps == newest # <<>> /\ ~Replaces(p, newest[1])
<1>1. /\ pc = "newest" /\ pc' = "newest" /\ queue # <<>> /\ seen' = seen \cup {p}
      /\ queue' = Tail(queue) /\ pool' = pool /\ best' = best /\ ranked' = ranked
      /\ newest' = IF keeps THEN newest ELSE <<p>>
  BY DEF ResolveNewest
<1>2. p \in pool /\ queue' \in Seq(pool) /\ seen' \subseteq pool /\ Kept' = Kept
  BY <1>1, GoesOn
<1>3. Passes'
  BY <1>1, <1>2 DEF LoadInv, Passes
<1>4. Picked'
  BY <1>1 DEF LoadInv, Picked
<1>5. Ranked'
  BY <1>1, <1>2 DEF LoadInv, Ranked
<1>6. pool \subseteq Package /\ seen \subseteq pool
  BY PoolTyped DEF LoadInv, Passes
<1>7. /\ newest # <<>> => \E q \in seen : newest = <<q>>
      /\ \A q \in seen : newest # <<>> /\ Upto(q, newest[1])
  BY <1>1 DEF LoadInv, Resolved
<1> HIDE DEF p, keeps
<1>8. ASSUME keeps PROVE Resolved'
  <2>1. newest' = newest /\ newest # <<>> /\ ~Replaces(p, newest[1])
    BY <1>1, <1>8 DEF keeps
  <2>2. Upto(p, newest[1])
    BY <1>2, <1>6, <1>7, <2>1, UptoOrders
  <2> QED BY <1>1, <1>7, <2>1, <2>2 DEF Resolved
<1>9. ASSUME ~keeps PROVE Resolved'
  <2>1. newest' = <<p>> /\ newest'[1] = p
    BY <1>1, <1>9
  <2>2. Upto(p, p)
    BY <1>2, <1>6, UptoOrders
  <2>3. ASSUME NEW q \in seen PROVE Upto(q, p)
    <3>1. newest # <<>> /\ Upto(q, newest[1]) /\ Replaces(p, newest[1]) /\ newest[1] \in seen
      BY <1>7, <1>9 DEF keeps
    <3>2. Upto(newest[1], p)
      BY <1>2, <1>6, <3>1, UptoOrders
    <3> QED BY <1>2, <1>6, <3>1, <3>2, UptoTransitive
  <2> QED BY <1>1, <2>1, <2>2, <2>3 DEF Resolved
<1> QED BY <1>3, <1>4, <1>5, <1>8, <1>9 DEF LoadInv

LEMMA LoadInvNext == LoadInv /\ [LoadNext]_loading => LoadInv'
<1>1. LoadInv /\ UNCHANGED loading => LoadInv'
  BY DEF LoadInv, Passes, Picked, Resolved, Ranked, Kept, loading
<1> QED BY <1>1, SortKeysKeeps, PickBestKeeps, RankKeeps, ResolveNewestKeeps DEF LoadNext, Terminated

LEMMA LoadInvAlways == LoadSpec => []LoadInv
BY LoadInvInit, LoadInvNext, PTL DEF LoadSpec

-----------------------------------------------------------------------------
(* Versions and requirements.                                               *)

Signs == {-1, 0, 1}

LEMMA OrSigns ==
  ASSUME NEW k \in Nat, NEW r \in [1..k -> Int], \A n \in Nat \ {0} : Nth(r, n) \in Signs
  PROVE  Or(r) \in Signs
<1>1. CASE \A n \in Nat \ {0} : Nth(r, n) = 0
  BY <1>1, OrDecides DEF Signs
<1>2. ASSUME NEW i \in Nat \ {0}, Nth(r, i) # 0, \A m \in 1..(i - 1) : Nth(r, m) = 0
      PROVE  Or(r) \in Signs
  BY <1>2, OrDecides
<1>3. Decided(r, r)
  BY FirstPlace
<1> QED BY <1>1, <1>2, <1>3 DEF Decided

LEMMA SignTyped == ASSUME NEW x \in Int PROVE Sign(x) \in Signs
BY DEF Sign, Signs

LEMMA TextSigns ==
  ASSUME NEW s \in Text, NEW t \in Text
  PROVE  CompareText(s, t) \in Signs
<1> DEFINE r == [n \in 1..Longest(s, t) |-> Sign(At(s, n) - At(t, n))]
<1>1. r \in [1..Longest(s, t) -> Int] /\ Longest(s, t) \in Nat
  BY TextResults
<1>2. ASSUME NEW n \in Nat \ {0} PROVE Nth(r, n) \in Signs
  <2>1. Nth(r, n) = Sign(At(s, n) - At(t, n)) /\ At(s, n) \in Int
    BY TextResults
  <2>2. At(t, n) \in Int
    BY TextResults
  <2>3. At(s, n) - At(t, n) \in Int
    BY <2>1, <2>2
  <2> HIDE DEF r
  <2> QED BY <2>1, <2>3, SignTyped
<1>3. CompareText(s, t) = Or(r)
  BY DEF CompareText
<1> HIDE DEF r
<1> QED BY <1>1, <1>2, <1>3, OrSigns

LEMMA TokenSigns ==
  ASSUME NEW a \in Tokens, NEW b \in Tokens
  PROVE  TokenCompare(a, b) \in Signs
<1>1. a.text \in Text /\ b.text \in Text /\ Order(a.type) \in Int /\ Order(b.type) \in Int
  BY OrderTyped DEF Tokens
<1>2. CASE a.type # b.type
  BY <1>1, <1>2, SignTyped DEF TokenCompare
<1>3. CASE a.type = b.type /\ a.type = "num"
  <2>1. Atoi(a.text) \in Int /\ Atoi(b.text) \in Int
    BY <1>1, AtoiTyped
  <2> QED BY <1>3, <2>1, SignTyped DEF TokenCompare
<1>4. CASE a.type = b.type /\ a.type # "num"
  BY <1>1, <1>4, TextSigns DEF TokenCompare
<1> QED BY <1>2, <1>3, <1>4

LEMMA TokensSigns ==
  ASSUME NEW s \in Text, NEW t \in Text
  PROVE  CompareTokens(s, t) \in Signs
<1> DEFINE r == [n \in 1..Longest(s, t) |-> TokenCompare(Token(s, n), Token(t, n))]
<1>1. r \in [1..Longest(s, t) -> Int] /\ Longest(s, t) \in Nat
  BY TokenResults
<1>2. ASSUME NEW n \in Nat \ {0} PROVE Nth(r, n) \in Signs
  <2>1. Nth(r, n) = TokenCompare(Token(s, n), Token(t, n))
    BY TokenResults
  <2>2. Token(s, n) \in Tokens /\ Token(t, n) \in Tokens
    BY TokenTyped
  <2> HIDE DEF r
  <2> QED BY <2>1, <2>2, TokenSigns
<1>3. CompareTokens(s, t) = Or(r)
  BY DEF CompareTokens
<1> HIDE DEF r
<1> QED BY <1>1, <1>2, <1>3, OrSigns

LEMMA compareSigns ==
  ASSUME NEW a \in Text, NEW b \in Text
  PROVE  compare(a, b) \in Signs
<1>1. Kind(a) \in 0..2 /\ Kind(b) \in 0..2
  BY KindsDecide
<1>2. CASE Kind(a) = 1 /\ Kind(b) = 1
  <2>1. Tail(a) \in Text /\ Tail(b) \in Text
    BY <1>2, TailTyped DEF Kind
  <2> QED BY <1>2, <2>1, KindsDecide, TokensSigns
<1>3. CASE Kind(a) = 2 /\ Kind(b) = 2
  BY <1>3, KindsDecide, TokensSigns
<1>4. CASE (Kind(a) = 0 /\ Kind(b) = 0) \/ Kind(a) < Kind(b) \/ Kind(a) > Kind(b)
  BY <1>4, KindsDecide DEF Signs
<1> QED BY <1>1, <1>2, <1>3, <1>4

\* The parts of a version decide in their order.
LEMMA VersionDecides ==
  ASSUME NEW a \in Version, NEW b \in Version
  PROVE  /\ Compare(a, b) \in Signs
         /\ Compare(a, b) = IF compare(a.epoch, b.epoch) # 0 THEN compare(a.epoch, b.epoch)
                            ELSE IF compare(a.ver, b.ver) # 0 THEN compare(a.ver, b.ver)
                            ELSE compare(a.rel, b.rel)
<1> DEFINE x == compare(a.epoch, b.epoch)
           y == compare(a.ver, b.ver)
           z == compare(a.rel, b.rel)
           r == <<x, y, z>>
<1>1. x \in Signs /\ y \in Signs /\ z \in Signs
  BY compareSigns DEF Version
<1>2. Compare(a, b) = Or(r)
  BY DEF Compare
<1> HIDE DEF x, y, z
<1>3. x \in Int /\ y \in Int /\ z \in Int
  BY <1>1 DEF Signs
<1>4. /\ r \in [1..3 -> Int]
      /\ \A n \in Nat \ {0} : Nth(r, n) =
           IF n = 1 THEN x ELSE IF n = 2 THEN y ELSE IF n = 3 THEN z ELSE 0
  BY <1>3, OrOfThree
<1> HIDE DEF r
<1>5. ASSUME NEW n \in 1..3, Nth(r, n) # 0, \A m \in 1..(n - 1) : Nth(r, m) = 0
      PROVE  Or(r) = Nth(r, n)
  <2>1. n \in Nat \ {0} /\ 3 \in Nat
    OBVIOUS
  <2> QED BY <1>4, <1>5, <2>1, OrDecides
<1>6. Nth(r, 1) = x /\ Nth(r, 2) = y /\ Nth(r, 3) = z
  BY <1>4
<1>7. x # 0 => Or(r) = x
  BY <1>5, <1>6
<1>8. x = 0 /\ y # 0 => Or(r) = y
  BY <1>5, <1>6
<1>9. x = 0 /\ y = 0 /\ z # 0 => Or(r) = z
  BY <1>5, <1>6
<1>10. x = 0 /\ y = 0 /\ z = 0 => Or(r) = 0
  <2> SUFFICES ASSUME x = 0, y = 0, z = 0 PROVE Or(r) = 0
    OBVIOUS
  <2>1. \A n \in Nat \ {0} : Nth(r, n) = 0
    BY <1>4
  <2> QED BY <1>4, <2>1, OrDecides
<1>11. Or(r) = IF x # 0 THEN x ELSE IF y # 0 THEN y ELSE z
  BY <1>7, <1>8, <1>9, <1>10
<1> QED BY <1>1, <1>2, <1>11 DEF x, y, z

Cut(v) == [v EXCEPT !.rel = <<>>]

\* Two versions without their releases are in the order they were in, or equal.
LEMMA CutFollows ==
  ASSUME NEW a \in Version, NEW b \in Version, Compare(a, b) <= 0
  PROVE  Cut(a) \in Version /\ Cut(b) \in Version /\ Compare(Cut(a), Cut(b)) <= 0
<1>1. <<>> \in Text /\ compare(<<>>, <<>>) = 0
  <2>1. <<>> \in Text /\ Kind(<<>>) = 0
    BY DEF Text, Kind
  <2> QED BY <2>1, KindsDecide
<1>2. /\ Cut(a) \in Version /\ Cut(a).epoch = a.epoch /\ Cut(a).ver = a.ver /\ Cut(a).rel = <<>>
      /\ Cut(b) \in Version /\ Cut(b).epoch = b.epoch /\ Cut(b).ver = b.ver /\ Cut(b).rel = <<>>
  BY <1>1 DEF Cut, Version
<1>3. /\ compare(a.epoch, b.epoch) \in Int /\ compare(a.ver, b.ver) \in Int
      /\ compare(a.rel, b.rel) \in Int
  BY compareSigns DEF Version, Signs
<1> QED BY <1>1, <1>2, <1>3, VersionDecides

LEMMA RequirementDecided ==
  ASSUME NEW dep \in Version, NEW v \in Version, ~Unversioned(Provided(dep, v))
  PROVE  /\ Provided(dep, v) \in Version /\ Wanted(dep, v) \in Version
         /\ works("GE", dep, v) <=> Compare(Provided(dep, v), Wanted(dep, v)) >= 0
         /\ works("LE", dep, v) <=> Compare(Provided(dep, v), Wanted(dep, v)) <= 0
         /\ works("GE", dep, v) <=> works("GT", dep, v) \/ works("EQ", dep, v)
         /\ works("LE", dep, v) <=> works("LT", dep, v) \/ works("EQ", dep, v)
         /\ Cardinality(Bounds(dep, v)) = 1
<1> DEFINE result == Compare(Provided(dep, v), Wanted(dep, v))
<1>1. <<>> \in Text
  BY DEF Text
<1>2. Provided(dep, v) \in Version /\ Wanted(dep, v) \in Version
  BY <1>1 DEF Provided, Wanted, Version
<1>3. result \in Signs
  BY <1>2, VersionDecides
<1>4. \A f : works(f, dep, v) <=> Accepts(f, result)
  BY DEF works
<1> HIDE DEF result
<1>5. /\ works("LT", dep, v) <=> result = -1
      /\ works("EQ", dep, v) <=> result = 0
      /\ works("GT", dep, v) <=> result = 1
      /\ works("LE", dep, v) <=> result <= 0
      /\ works("GE", dep, v) <=> result >= 0
  BY <1>4 DEF Accepts
<1>6. PICK flags : Bounds(dep, v) = {flags}
  <2>1. CASE result = -1
    <3>1. Bounds(dep, v) = {"LT"}
      BY <1>5, <2>1 DEF Bounds
    <3> QED BY <3>1
  <2>2. CASE result = 0
    <3>1. Bounds(dep, v) = {"EQ"}
      BY <1>5, <2>2 DEF Bounds
    <3> QED BY <3>1
  <2>3. CASE result = 1
    <3>1. Bounds(dep, v) = {"GT"}
      BY <1>5, <2>3 DEF Bounds
    <3> QED BY <3>1
  <2> QED BY <1>3, <2>1, <2>2, <2>3 DEF Signs
<1>7. Cardinality(Bounds(dep, v)) = 1
  BY <1>6, FS_Singleton
<1>8. /\ works("GE", dep, v) <=> works("GT", dep, v) \/ works("EQ", dep, v)
      /\ works("LE", dep, v) <=> works("LT", dep, v) \/ works("EQ", dep, v)
  BY <1>3, <1>5 DEF Signs
<1> QED BY <1>2, <1>5, <1>7, <1>8 DEF result

\* Whoever has what a version asks for has what an earlier one asks for, and an
\* upper bound that holds holds with a later one.
LEMMA RequirementFollows ==
  ASSUME NEW dep \in Version, NEW v \in Version, NEW w \in Version,
         ~Unversioned(Provided(dep, v)), ~Unversioned(Provided(dep, w)),
         v.rel = <<>> <=> w.rel = <<>>
  PROVE  /\ works("GE", dep, v) /\ Compare(w, v) <= 0 => works("GE", dep, w)
         /\ works("LE", dep, v) /\ Compare(v, w) <= 0 => works("LE", dep, w)
<1> DEFINE has == Provided(dep, v)
           x == Wanted(dep, v)
           y == Wanted(dep, w)
<1>1. /\ has \in Version /\ x \in Version /\ y \in Version
      /\ works("GE", dep, v) <=> Compare(has, x) >= 0
      /\ works("LE", dep, v) <=> Compare(has, x) <= 0
  BY RequirementDecided
<1>2. has = Provided(dep, w)
  BY DEF Provided
<1>3. /\ works("GE", dep, w) <=> Compare(has, y) >= 0
      /\ works("LE", dep, w) <=> Compare(has, y) <= 0
  BY <1>2, RequirementDecided
<1>4. /\ Compare(w, v) <= 0 => Compare(y, x) <= 0
      /\ Compare(v, w) <= 0 => Compare(x, y) <= 0
  <2>1. CASE dep.rel = <<>>
    <3>1. x = Cut(v) /\ y = Cut(w)
      BY <2>1 DEF Wanted, Cut
    <3> QED BY <3>1, CutFollows
  <2>2. CASE dep.rel # <<>>
    BY <2>2 DEF Wanted
  <2> QED BY <2>1, <2>2
<1> HIDE DEF has, x, y
<1>5. ASSUME Compare(has, x) >= 0, Compare(y, x) <= 0 PROVE Compare(has, y) >= 0
  <2>1. Opposed(Compare(has, x), Compare(x, has)) /\ Opposed(Compare(has, y), Compare(y, has))
    BY <1>1, VersionOpposed
  <2>2. Follows(Compare(y, x), Compare(x, has), Compare(y, has))
    BY <1>1, VersionFollows
  <2>3. Compare(x, has) <= 0
    BY <1>5, <2>1 DEF Opposed
  <2>4. Compare(y, has) <= 0
    BY <1>5, <2>2, <2>3 DEF Follows
  <2> QED BY <2>1, <2>4 DEF Opposed
<1>6. ASSUME Compare(has, x) <= 0, Compare(x, y) <= 0 PROVE Compare(has, y) <= 0
  BY <1>1, <1>6, VersionFollows DEF Follows
<1> QED BY <1>1, <1>3, <1>4, <1>5, <1>6

-----------------------------------------------------------------------------
(* The property.                                                            *)

LEMMA LoadInvSeen == LoadInv => LoadTypeOK /\ NothingSeenIsBetter
<1> SUFFICES ASSUME LoadInv PROVE LoadTypeOK /\ NothingSeenIsBetter
  OBVIOUS
<1>1. /\ pool \in Pools /\ pc \in {"sort", "best", "newest"}
      /\ queue \in Seq(pool) /\ seen \subseteq pool
  BY DEF LoadInv, Passes
<1>2. Range(queue) \subseteq pool
  BY <1>1 DEF Range
<1>3. Range(best) \subseteq pool
  BY DEF LoadInv, Picked, Range
<1>4. Range(newest) \subseteq pool
  <2>1. CASE newest = <<>>
    BY <2>1 DEF Range
  <2>2. CASE newest # <<>>
    <3>1. PICK p \in seen : newest = <<p>>
      BY <2>2 DEF LoadInv, Resolved
    <3>2. Range(newest) = {p}
      BY <3>1 DEF Range
    <3> QED BY <1>1, <3>2
  <2> QED BY <2>1, <2>2
<1>5. Range(ranked) = IF pc = "newest" THEN Kept ELSE {}
  <2>1. CASE pc = "newest"
    <3>1. IsFiniteSet(Kept)
      BY <1>1, <1>2, PoolTyped DEF Kept
    <3> QED BY <2>1, <3>1, ArrangementOf DEF LoadInv, Ranked, Rankings
  <2>2. CASE pc # "newest"
    <3>1. ranked = <<>>
      BY <2>2 DEF LoadInv, Ranked
    <3>2. Range(ranked) = {}
      BY <3>1 DEF Range
    <3> QED BY <2>2, <3>2
  <2> QED BY <2>1, <2>2
<1>6. LoadTypeOK
  BY <1>1, <1>2, <1>3, <1>4, <1>5 DEF LoadTypeOK, Kept
<1>7. NothingSeenIsBetter
  BY DEF LoadInv, Picked, Resolved, NothingSeenIsBetter, Upto
<1> QED BY <1>6, <1>7

LEMMA LoadInvRanked == LoadInv => RankedThroughout
<1> SUFFICES ASSUME LoadInv, pc = "newest" PROVE RankedThroughout
  BY DEF RankedThroughout
<1>1. /\ pool \in Pools /\ queue \in Seq(pool) /\ seen \subseteq pool
      /\ Kept # {} /\ ranked \in Rankings(Kept)
  BY DEF LoadInv, Passes, Ranked
<1>2. Kept \in SUBSET Package /\ IsFiniteSet(Kept)
  <2>1. Kept \subseteq pool
    BY <1>1 DEF Kept, Range
  <2> QED BY <1>1, <2>1, PoolTyped
<1>3. ranked \in Seq(Kept) /\ Range(ranked) = Kept /\ Len(ranked) \in Nat \ {0}
  BY <1>1, <1>2, ArrangementOf DEF Rankings
<1>4. \A m, k \in DOMAIN ranked : m < k => Upto(ranked[m], ranked[k])
  BY <1>1, <1>2, RankingOrdered
<1>5. \A m \in DOMAIN ranked : ranked[m] \in Package
  BY <1>2, <1>3
<1>6. ASSUME NEW m \in DOMAIN ranked, NEW k \in DOMAIN ranked, m < k
      PROVE  ComparePackage(ranked[m], ranked[k]) <= 0 /\ ComparePackage(ranked[k], ranked[m]) >= 0
  <2>1. ranked[m] \in Package /\ ranked[k] \in Package /\ Upto(ranked[m], ranked[k])
    BY <1>4, <1>5, <1>6
  <2> QED BY <2>1, UptoOrders DEF Upto
<1>7. ASSUME queue = <<>> PROVE ComparePackage(newest[1], ranked[Len(ranked)]) = 0
  <2> DEFINE last == Len(ranked)
  <2>1. seen = Kept
    <3>1. Range(queue) = {}
      BY <1>7 DEF Range
    <3> QED BY <3>1 DEF Kept
  <2>2. last \in DOMAIN ranked /\ DOMAIN ranked = 1..last /\ last \in Nat \ {0}
    BY <1>3
  <2>3. ranked[last] \in Kept
    BY <2>2, <1>3 DEF Range
  <2>4. Upto(ranked[last], newest[1]) /\ newest[1] \in Kept
    BY <2>1, <2>3 DEF LoadInv, Resolved
  <2>5. PICK n \in 1..last : newest[1] = ranked[n]
    BY <1>3, <2>2, <2>4 DEF Range
  <2>6. newest[1] \in Package /\ ranked[last] \in Package
    BY <1>2, <2>3, <2>4
  <2> HIDE DEF last
  <2>7. Upto(newest[1], ranked[last])
    <3>1. CASE n = last
      BY <2>5, <2>6, <3>1, UptoOrders
    <3>2. CASE n # last
      <4>1. n < last
        BY <2>2, <3>2
      <4> QED BY <1>4, <2>2, <2>5, <4>1
    <3> QED BY <3>1, <3>2
  <2> QED BY <2>4, <2>6, <2>7, UptoOrders DEF last
<1> QED BY <1>6, <1>7 DEF RankedThroughout

LEMMA LoadInvBounds == LoadInv => BoundsConsistent
<1> SUFFICES ASSUME LoadInv, NEW p \in pool, NEW q \in pool, NEW r \in pool,
                    ~Unversioned(Provided(p.version, q.version)),
                    ~Unversioned(Provided(p.version, r.version))
             PROVE  LET dep == p.version  v == q.version  w == r.version IN
                      /\ Cardinality(Bounds(dep, v)) = 1
                      /\ works("GE", dep, v) = (works("GT", dep, v) \/ works("EQ", dep, v))
                      /\ works("LE", dep, v) = (works("LT", dep, v) \/ works("EQ", dep, v))
                      /\ (v.rel = <<>>) = (w.rel = <<>>) =>
                           /\ works("GE", dep, v) /\ Compare(w, v) <= 0 => works("GE", dep, w)
                           /\ works("LE", dep, v) /\ Compare(v, w) <= 0 => works("LE", dep, w)
  BY DEF BoundsConsistent
<1>1. p.version \in Version /\ q.version \in Version /\ r.version \in Version
  BY PoolTyped DEF LoadInv, Passes, Package
<1>2. \A f, has, e : works(f, has, e) \in BOOLEAN
  BY DEF works, Unversioned, Accepts
<1> QED BY <1>1, <1>2, RequirementDecided, RequirementFollows

\* Whatever order Load gets the packages of a name in, the one it keeps of each
\* architecture and the one a request resolves to are not exceeded by any it has
\* seen, the list it ranks is ordered throughout and ends with a package as new as
\* that one, and the bounds of requirements agree with the order, for texts of any
\* length and numbers of any size (loader.go:112-167, 352-415, rpm.go:20-277).
THEOREM BestIsFound == LoadSpec => []BestFound
<1>1. LoadInv => BestFound
  BY LoadInvSeen, LoadInvRanked, LoadInvBounds DEF BestFound
<1> QED BY <1>1, LoadInvAlways, PTL
-----------------------------------------------------------------------------
(* Equal versions say the same.  Two texts that compare as equal have tokens *)
(* that do, one by one, and equal tokens say the same: alphas are the same   *)
(* text, and numbers have the same last digit and the same digits before it. *)
(* What a text says is what its tokens say, one after the other, because a   *)
(* token ends where a number cannot go on (Apart).                           *)

\* What holds at the start and is kept by every step, holds throughout.
LEMMA Upwards ==
  ASSUME NEW n \in Nat, NEW S, 0 \in S, \A k \in 1..n : k - 1 \in S => k \in S
  PROVE  \A k \in 0..n : k \in S
<1> DEFINE Bad == {k \in 0..n : k \notin S}
<1>1. SUFFICES ASSUME Bad # {} PROVE FALSE
  OBVIOUS
<1>2. PICK k \in Bad : \A i \in Bad : k <= i
  <2>1. Bad \in SUBSET Nat
    OBVIOUS
  <2> HIDE DEF Bad
  <2> QED BY <1>1, <2>1, NatMinimum
<1>3. k \in 0..n /\ k \notin S
  OBVIOUS
<1>4. k \in 1..n /\ k - 1 \in 0..n /\ ~(k <= k - 1)
  BY <1>3
<1>5. k - 1 \notin Bad
  <2> HIDE DEF Bad
  <2> QED BY <1>2, <1>4
<1> QED BY <1>3, <1>4, <1>5

\* The same of the elements of a sequence that counts from 0.
LEMMA Throughout ==
  ASSUME NEW n \in Nat, NEW D, NEW f, f[0] \in D, \A k \in 1..n : f[k - 1] \in D => f[k] \in D
  PROVE  \A k \in 0..n : f[k] \in D
<1> DEFINE S == {k \in 0..n : f[k] \in D}
<1>1. 0 \in S /\ \A k \in 1..n : k - 1 \in S => k \in S
  OBVIOUS
<1>2. \A k \in 0..n : k \in S
  <2> HIDE DEF S
  <2> QED BY <1>1, Upwards
<1> QED BY <1>2

\* What a text says, letter by letter.
LEMMA MeaningIs ==
  ASSUME NEW text \in Text
  PROVE  \E said \in [0..Len(text) -> Text] :
           /\ said[0] = <<>> /\ Meaning(text) = said[Len(text)]
           /\ \A n \in 1..Len(text) :
                said[n] = IF Leading(text, n) THEN said[n - 1] ELSE Append(said[n - 1], text[n])
<1> DEFINE Then(n, t) == IF Leading(text, n) THEN t ELSE Append(t, text[n])
           step == [n \in 1..Len(text) |-> [t \in Text |-> Then(n, t)]]
           IsSaid(f) == f = [n \in 0..Len(text) |->
                               IF n = 0 THEN <<>>
                               ELSE IF Leading(text, n) THEN f[n - 1] ELSE Append(f[n - 1], text[n])]
           said == CHOOSE f : IsSaid(f)
<1>1. Len(text) \in Nat /\ <<>> \in Text /\ \A n \in 1..Len(text) : text[n] \in Nat
  BY DEF Text
<1>2. \A n \in 1..Len(text), t \in Text : Then(n, t) \in Text
  BY <1>1 DEF Text
<1>3. step \in [1..Len(text) -> [Text -> Text]]
  <2> HIDE DEF Then
  <2> QED BY <1>2
<1>4. PICK f \in [0..Len(text) -> Text] : IsIteration(f, Len(text), <<>>, step)
  <2> HIDE DEF step
  <2> QED BY <1>1, <1>3, IterationExists
<1>5. \A n \in 0..Len(text) : f[n] = IF n = 0 THEN <<>> ELSE step[n][f[n - 1]]
  <2> HIDE DEF step
  <2> QED BY <1>4 DEF IsIteration
<1>6. \A n \in 0..Len(text) : f[n] = IF n = 0 THEN <<>> ELSE Then(n, f[n - 1])
  <2> SUFFICES ASSUME NEW n \in 0..Len(text), n # 0 PROVE f[n] = Then(n, f[n - 1])
    BY <1>5
  <2>1. n \in 1..Len(text) /\ f[n - 1] \in Text
    BY <1>1
  <2> HIDE DEF Then
  <2> QED BY <1>5, <2>1
<1>7. f = [n \in 0..Len(text) |-> f[n]]
  OBVIOUS
<1>8. IsSaid(f)
  BY <1>6, <1>7
<1>9. IsSaid(said)
  <2> HIDE DEF IsSaid
  <2> QED BY <1>8
<1>10. Meaning(text) = said[Len(text)]
  BY DEF Meaning
<1> HIDE DEF said
<1>11. /\ \A n \in 0..Len(text) : said[n] = IF n = 0 THEN <<>> ELSE Then(n, said[n - 1])
       /\ said = [n \in 0..Len(text) |-> said[n]]
  BY <1>9
<1> HIDE DEF IsSaid, step, Then
<1>12. said[0] \in Text /\ \A n \in 1..Len(text) : said[n - 1] \in Text => said[n] \in Text
  BY <1>1, <1>2, <1>11
<1>13. \A n \in 0..Len(text) : said[n] \in Text
  BY <1>1, <1>12, Throughout
<1>14. said \in [0..Len(text) -> Text]
  BY <1>11, <1>13
<1>15. said[0] = <<>> /\ \A n \in 1..Len(text) : said[n] = Then(n, said[n - 1])
  <2>1. 0 \in 0..Len(text) /\ \A n \in 1..Len(text) : n \in 0..Len(text) /\ n # 0
    BY <1>1
  <2>2. \A n \in 0..Len(text) : said[n] = IF n = 0 THEN <<>> ELSE Then(n, said[n - 1])
    BY <1>11
  <2> QED BY <2>1, <2>2, Zenon
<1>16. \A n \in 1..Len(text) :
         said[n] = IF Leading(text, n) THEN said[n - 1] ELSE Append(said[n - 1], text[n])
  BY <1>15 DEF Then
<1> QED BY <1>10, <1>14, <1>15, <1>16

\* The number that digits stand for, however large.
LEMMA NumberIs ==
  ASSUME NEW digits \in Text
  PROVE  \E value \in [0..Len(digits) -> Int] :
           /\ value[0] = 0 /\ Number(digits) = value[Len(digits)]
           /\ \A n \in 1..Len(digits) : value[n] = 10 * value[n - 1] + digits[n] - 48
<1> DEFINE Then(n, v) == 10 * v + digits[n] - 48
           step == [n \in 1..Len(digits) |-> [v \in Int |-> Then(n, v)]]
           IsValue(f) == f = [n \in 0..Len(digits) |->
                                IF n = 0 THEN 0 ELSE 10 * f[n - 1] + digits[n] - 48]
           value == CHOOSE f : IsValue(f)
<1>1. Len(digits) \in Nat /\ \A n \in 1..Len(digits) : digits[n] \in Int
  BY DEF Text
<1>2. \A n \in 1..Len(digits), v \in Int : Then(n, v) \in Int
  BY <1>1
<1>3. step \in [1..Len(digits) -> [Int -> Int]]
  <2> HIDE DEF Then
  <2> QED BY <1>2
<1>4. PICK f \in [0..Len(digits) -> Int] : IsIteration(f, Len(digits), 0, step)
  <2> DEFINE D == Int
             start == 0
             n == Len(digits)
  <2>1. start \in D /\ n \in Nat /\ step \in [1..n -> [D -> D]]
    BY <1>1, <1>3
  <2> HIDE DEF step, D, start, n
  <2>2. \E f \in [0..n -> D] : IsIteration(f, n, start, step)
    BY <2>1, IterationExists
  <2> QED BY <2>2 DEF D, start, n
<1>5. \A n \in 0..Len(digits) : f[n] = IF n = 0 THEN 0 ELSE step[n][f[n - 1]]
  <2> HIDE DEF step
  <2> QED BY <1>4 DEF IsIteration
<1>6. \A n \in 0..Len(digits) : f[n] = IF n = 0 THEN 0 ELSE Then(n, f[n - 1])
  <2> SUFFICES ASSUME NEW n \in 0..Len(digits), n # 0 PROVE f[n] = Then(n, f[n - 1])
    BY <1>5
  <2>1. n \in 1..Len(digits) /\ f[n - 1] \in Int
    BY <1>1
  <2> HIDE DEF Then
  <2> QED BY <1>5, <2>1
<1>7. f = [n \in 0..Len(digits) |-> f[n]]
  OBVIOUS
<1>8. IsValue(f)
  BY <1>6, <1>7
<1>9. IsValue(value)
  <2> HIDE DEF IsValue
  <2> QED BY <1>8
<1>10. Number(digits) = value[Len(digits)]
  BY DEF Number
<1> HIDE DEF value
<1>11. /\ \A n \in 0..Len(digits) : value[n] = IF n = 0 THEN 0 ELSE Then(n, value[n - 1])
       /\ value = [n \in 0..Len(digits) |-> value[n]]
  BY <1>9
<1> HIDE DEF IsValue, step, Then
<1> DEFINE D == Int
<1>12. value[0] \in D /\ \A n \in 1..Len(digits) : value[n - 1] \in D => value[n] \in D
  BY <1>1, <1>2, <1>11
<1>13. \A n \in 0..Len(digits) : value[n] \in D
  <2> HIDE DEF D
  <2> QED BY <1>1, <1>12, Throughout
<1>14. value \in [0..Len(digits) -> Int]
  BY <1>11, <1>13
<1>15. value[0] = 0 /\ \A n \in 1..Len(digits) : value[n] = Then(n, value[n - 1])
  BY <1>1, <1>11
<1> QED BY <1>10, <1>14, <1>15 DEF Then

\* The number that Atoi reads, which goes no further than MaxInt.
LEMMA AtoiIs ==
  ASSUME NEW digits \in Text
  PROVE  \E value \in [0..Len(digits) -> Int] :
           /\ value[0] = 0 /\ Atoi(digits) = value[Len(digits)]
           /\ \A n \in 1..Len(digits) :
                value[n] = IF 10 * value[n - 1] + digits[n] - 48 > MaxInt THEN MaxInt
                           ELSE 10 * value[n - 1] + digits[n] - 48
<1> DEFINE Then(n, v) == IF 10 * v + digits[n] - 48 > MaxInt THEN MaxInt
                         ELSE 10 * v + digits[n] - 48
           step == [n \in 1..Len(digits) |-> [v \in Int |-> Then(n, v)]]
           IsValue(f) ==
             f = [n \in 0..Len(digits) |->
                    IF n = 0 THEN 0
                    ELSE IF 10 * f[n - 1] + digits[n] - 48 > MaxInt THEN MaxInt
                    ELSE 10 * f[n - 1] + digits[n] - 48]
           value == CHOOSE g : IsValue(g)
<1>1. Len(digits) \in Nat /\ \A n \in 1..Len(digits) : digits[n] \in Int
  BY DEF Text
<1>2. \A n \in 1..Len(digits), v \in Int : Then(n, v) \in Int
  BY <1>1, OrderAssumption
<1>3. step \in [1..Len(digits) -> [Int -> Int]]
  <2> HIDE DEF Then
  <2> QED BY <1>2
<1>4. PICK f \in [0..Len(digits) -> Int] : IsIteration(f, Len(digits), 0, step)
  <2> DEFINE D == Int
             start == 0
             n == Len(digits)
  <2>1. start \in D /\ n \in Nat /\ step \in [1..n -> [D -> D]]
    BY <1>1, <1>3
  <2> HIDE DEF step, D, start, n
  <2>2. \E f \in [0..n -> D] : IsIteration(f, n, start, step)
    BY <2>1, IterationExists
  <2> QED BY <2>2 DEF D, start, n
<1>5. \A n \in 0..Len(digits) : f[n] = IF n = 0 THEN 0 ELSE step[n][f[n - 1]]
  <2> HIDE DEF step
  <2> QED BY <1>4 DEF IsIteration
<1>6. \A n \in 0..Len(digits) : f[n] = IF n = 0 THEN 0 ELSE Then(n, f[n - 1])
  <2> SUFFICES ASSUME NEW n \in 0..Len(digits), n # 0 PROVE f[n] = Then(n, f[n - 1])
    BY <1>5
  <2>1. n \in 1..Len(digits) /\ f[n - 1] \in Int
    BY <1>1
  <2> HIDE DEF Then
  <2> QED BY <1>5, <2>1
<1>7. f = [n \in 0..Len(digits) |-> f[n]]
  OBVIOUS
<1>8. IsValue(f)
  BY <1>6, <1>7
<1>9. IsValue(value)
  <2> HIDE DEF IsValue
  <2> QED BY <1>8
<1>10. Atoi(digits) = value[Len(digits)]
  BY DEF Atoi
<1> HIDE DEF value
<1>11. /\ \A n \in 0..Len(digits) : value[n] = IF n = 0 THEN 0 ELSE Then(n, value[n - 1])
       /\ value = [n \in 0..Len(digits) |-> value[n]]
  BY <1>9
<1> HIDE DEF IsValue, step, Then
<1> DEFINE D == Int
<1>12. value[0] \in D /\ \A n \in 1..Len(digits) : value[n - 1] \in D => value[n] \in D
  BY <1>1, <1>2, <1>11
<1>13. \A n \in 0..Len(digits) : value[n] \in D
  <2> HIDE DEF D
  <2> QED BY <1>1, <1>12, Throughout
<1>14. value \in [0..Len(digits) -> Int]
  BY <1>11, <1>13
<1>15. value[0] = 0 /\ \A n \in 1..Len(digits) : value[n] = Then(n, value[n - 1])
  BY <1>1, <1>11
<1> QED BY <1>10, <1>14, <1>15 DEF Then

LEMMA Joined ==
  ASSUME NEW s \in Text, NEW t \in Text
  PROVE  /\ Len(s) \in Nat /\ Len(t) \in Nat /\ s \o t \in Text /\ Len(s \o t) = Len(s) + Len(t)
         /\ \A n \in 1..Len(s) : (s \o t)[n] = s[n] /\ s[n] \in Nat
         /\ \A n \in 1..Len(t) : (s \o t)[Len(s) + n] = t[n] /\ t[n] \in Nat
BY DEF Text

\* Where a number does not go on from one text into the next.
Apart(s, t) == s = <<>> \/ t = <<>> \/ ~isNum(s[Len(s)]) \/ ~isNum(t[1])

\* A zero in front says nothing of what is in another number.
LEMMA LeadingApart ==
  ASSUME NEW s \in Text, NEW t \in Text, Apart(s, t)
  PROVE  /\ \A n \in 1..Len(s) : Leading(s \o t, n) <=> Leading(s, n)
         /\ \A n \in 1..Len(t) : Leading(s \o t, Len(s) + n) <=> Leading(t, n)
<1> DEFINE L == Len(s)
           M == Len(t)
           st == s \o t
<1>1. /\ L \in Nat /\ M \in Nat /\ st \in Text /\ Len(st) = L + M
      /\ \A n \in 1..L : st[n] = s[n]
      /\ \A n \in 1..M : st[L + n] = t[n]
  BY Joined
<1>2. (s = <<>> <=> L = 0) /\ (t = <<>> <=> M = 0)
  BY EmptySeq DEF Text
<1>3. L # 0 /\ M # 0 => ~isNum(st[L]) \/ ~isNum(st[L + 1])
  <2> HAVE L # 0 /\ M # 0
  <2>1. st[L] = s[L] /\ st[L + 1] = t[1]
    BY <1>1
  <2> HIDE DEF st, L, M
  <2> QED BY <1>2, <2>1 DEF Apart, L
<1> HIDE DEF L, M, st
<1>4. ASSUME NEW n \in 1..L PROVE Leading(st, n) <=> Leading(s, n)
  <2>1. n \in Nat \ {0} /\ n <= L /\ n <= L + M /\ st[n] = s[n]
    BY <1>1
  <2>2. \A m \in 1..n : m \in 1..L /\ st[m] = s[m] /\ \A k \in m..n : st[k] = s[k]
    BY <1>1, <2>1
  <2>3. (\A m \in 1..n : (\A k \in m..n : isNum(st[k])) => st[m] = 48)
          <=> (\A m \in 1..n : (\A k \in m..n : isNum(s[k])) => s[m] = 48)
    BY <2>2
  <2>4. CASE n < L
    <3>1. st[n + 1] = s[n + 1] /\ n < L + M
      BY <1>1, <2>1, <2>4
    <3> QED BY <1>1, <2>1, <2>3, <2>4, <3>1 DEF Leading, L
  <2>5. CASE n = L
    <3>1. ~Leading(s, n)
      BY <1>1, <2>5 DEF Leading, L
    <3>2. ASSUME Leading(st, n) PROVE FALSE
      <4>1. st[n] = 48 /\ n < L + M /\ isNum(st[n + 1])
        BY <1>1, <3>2 DEF Leading
      <4>2. isNum(st[L]) /\ isNum(st[L + 1]) /\ L # 0 /\ M # 0
        BY <1>1, <2>1, <2>5, <4>1 DEF isNum
      <4> QED BY <1>3, <4>2
    <3> QED BY <3>1, <3>2
  <2> QED BY <1>1, <2>1, <2>4, <2>5
<1>5. ASSUME NEW n \in 1..M PROVE Leading(st, L + n) <=> Leading(t, n)
  <2>1. n \in Nat \ {0} /\ n <= M /\ st[L + n] = t[n]
    BY <1>1
  <2>2. \A m \in 1..n : st[L + m] = t[m] /\ \A k \in m..n : st[L + k] = t[k]
    BY <1>1, <2>1
  <2> DEFINE Run(text, m, k) == \A i \in m..k : isNum(text[i])
  <2>3. \A m \in 1..n : Run(st, L + m, L + n) <=> Run(t, m, n)
    <3> SUFFICES ASSUME NEW m \in 1..n PROVE Run(st, L + m, L + n) <=> Run(t, m, n)
      OBVIOUS
    <3>1. ASSUME Run(st, L + m, L + n), NEW k \in m..n PROVE isNum(t[k])
      <4>1. L + k \in (L + m)..(L + n)
        BY <1>1, <2>1
      <4> QED BY <2>2, <3>1, <4>1
    <3>2. ASSUME Run(t, m, n), NEW i \in (L + m)..(L + n) PROVE isNum(st[i])
      <4>1. i - L \in m..n /\ L + (i - L) = i
        BY <1>1, <2>1
      <4> HIDE DEF st
      <4>2. isNum(t[i - L]) /\ st[L + (i - L)] = t[i - L]
        BY <2>2, <3>2, <4>1
      <4> QED BY <4>1, <4>2
    <3> QED BY <3>1, <3>2
  <2>4. \A m \in 1..L : ~Run(st, m, L + n)
    <3> SUFFICES ASSUME NEW m \in 1..L, Run(st, m, L + n) PROVE FALSE
      OBVIOUS
    <3>1. L \in m..(L + n) /\ L + 1 \in m..(L + n) /\ L # 0 /\ M # 0
      BY <1>1, <2>1
    <3> QED BY <1>3, <3>1
  <2>5. (\A m \in 1..(L + n) : Run(st, m, L + n) => st[m] = 48)
          <=> (\A m \in 1..n : Run(t, m, n) => t[m] = 48)
    <3>1. ASSUME \A m \in 1..(L + n) : Run(st, m, L + n) => st[m] = 48, NEW m \in 1..n, Run(t, m, n)
          PROVE  t[m] = 48
      <4>1. L + m \in 1..(L + n)
        BY <1>1, <2>1
      <4> HIDE DEF Run
      <4> QED BY <2>2, <2>3, <3>1, <4>1
    <3>2. ASSUME \A m \in 1..n : Run(t, m, n) => t[m] = 48, NEW m \in 1..(L + n), Run(st, m, L + n)
          PROVE  st[m] = 48
      <4>1. m \notin 1..L
        <5> HIDE DEF Run
        <5> QED BY <2>4, <3>2
      <4>2. m - L \in 1..n /\ L + (m - L) = m
        BY <1>1, <2>1, <4>1
      <4> HIDE DEF Run
      <4>3. Run(t, m - L, n) /\ st[L + (m - L)] = t[m - L]
        <5>1. \A q \in 1..n : L + q = m => (Run(t, q, n) <=> Run(st, m, L + n))
          BY <2>3
        <5> QED BY <2>2, <3>2, <4>2, <5>1
      <4> QED BY <3>2, <4>2, <4>3
    <3> HIDE DEF Run
    <3> QED BY <3>1, <3>2
  <2>6. L + n < Len(st) <=> n < Len(t)
    BY <1>1, <2>1 DEF M
  <2>7. n < Len(t) => st[L + n + 1] = t[n + 1]
    <3> HAVE n < Len(t)
    <3>1. n + 1 \in 1..M /\ L + (n + 1) = L + n + 1
      BY <1>1, <2>1 DEF M
    <3> QED BY <1>1, <3>1
  <2> QED BY <2>1, <2>5, <2>6, <2>7 DEF Leading
<1> QED BY <1>4, <1>5 DEF L, M, st

LEMMA AppendJoins ==
  ASSUME NEW x \in Seq(Nat), NEW y \in Seq(Nat), NEW e \in Nat
  PROVE  Append(x \o y, e) = x \o Append(y, e)
<1> DEFINE u == Append(x \o y, e)
           w == x \o Append(y, e)
<1>1. u \in Seq(Nat) /\ Len(u) = Len(x) + Len(y) + 1 /\ Len(x) \in Nat /\ Len(y) \in Nat
  OBVIOUS
<1>2. w \in Seq(Nat) /\ Len(w) = Len(x) + Len(y) + 1
  OBVIOUS
<1>3. \A n \in 1..(Len(x) + Len(y) + 1) : u[n] = w[n]
  OBVIOUS
<1> HIDE DEF u, w
<1>4. u = w
  BY <1>1, <1>2, <1>3, SeqEqual
<1> QED BY <1>4 DEF u, w

\* What two texts say one after the other, if no number goes on between them.
LEMMA MeaningJoins ==
  ASSUME NEW s \in Text, NEW t \in Text, Apart(s, t)
  PROVE  Meaning(s \o t) = Meaning(s) \o Meaning(t)
<1> DEFINE L == Len(s)
           M == Len(t)
           st == s \o t
<1>1. /\ L \in Nat /\ M \in Nat /\ st \in Text /\ Len(st) = L + M
      /\ \A n \in 1..L : st[n] = s[n] /\ s[n] \in Nat
      /\ \A n \in 1..M : st[L + n] = t[n] /\ t[n] \in Nat
  BY Joined
<1>2. /\ \A n \in 1..L : Leading(st, n) <=> Leading(s, n)
      /\ \A n \in 1..M : Leading(st, L + n) <=> Leading(t, n)
  BY LeadingApart
<1>3. PICK a \in [0..L -> Text] :
        /\ a[0] = <<>> /\ Meaning(s) = a[L]
        /\ \A n \in 1..L : a[n] = IF Leading(s, n) THEN a[n - 1] ELSE Append(a[n - 1], s[n])
  BY MeaningIs
<1>4. PICK b \in [0..M -> Text] :
        /\ b[0] = <<>> /\ Meaning(t) = b[M]
        /\ \A n \in 1..M : b[n] = IF Leading(t, n) THEN b[n - 1] ELSE Append(b[n - 1], t[n])
  BY MeaningIs
<1>5. PICK c \in [0..(L + M) -> Text] :
        /\ c[0] = <<>> /\ Meaning(st) = c[L + M]
        /\ \A n \in 1..(L + M) : c[n] = IF Leading(st, n) THEN c[n - 1] ELSE Append(c[n - 1], st[n])
  <2> HIDE DEF st, L, M
  <2>1. Len(st) = L + M
    BY <1>1
  <2>2. \E c \in [0..Len(st) -> Text] :
          /\ c[0] = <<>> /\ Meaning(st) = c[Len(st)]
          /\ \A n \in 1..Len(st) : c[n] = IF Leading(st, n) THEN c[n - 1] ELSE Append(c[n - 1], st[n])
    BY <1>1, MeaningIs
  <2> QED BY <2>1, <2>2
<1> HIDE DEF L, M, st
<1>6. \A n \in 0..L : c[n] = a[n]
  <2> DEFINE S == {n \in 0..L : c[n] = a[n]}
  <2>1. 0 \in S
    BY <1>1, <1>3, <1>5
  <2>2. \A n \in 1..L : n - 1 \in S => n \in S
    <3> SUFFICES ASSUME NEW n \in 1..L, c[n - 1] = a[n - 1] PROVE c[n] = a[n]
      BY <1>1
    <3>1. n \in 1..(L + M)
      BY <1>1
    <3> QED BY <1>1, <1>2, <1>3, <1>5, <3>1
  <2>3. \A n \in 0..L : n \in S
    <3> HIDE DEF S
    <3> QED BY <1>1, <2>1, <2>2, Upwards
  <2> QED BY <2>3
<1>7. \A n \in 0..M : c[L + n] = a[L] \o b[n]
  <2> DEFINE S == {n \in 0..M : c[L + n] = a[L] \o b[n]}
  <2>0. a[L] \in Seq(Nat)
    BY <1>1, <1>3 DEF Text
  <2>1. 0 \in S
    <3>1. c[L] = a[L] /\ a[L] \o <<>> = a[L] /\ L + 0 = L /\ 0 \in 0..M
      BY <1>1, <1>6, <2>0
    <3> QED BY <1>4, <3>1
  <2>2. \A n \in 1..M : n - 1 \in S => n \in S
    <3> SUFFICES ASSUME NEW n \in 1..M, n - 1 \in S PROVE n \in S
      OBVIOUS
    <3>1. c[L + (n - 1)] = a[L] \o b[n - 1]
      OBVIOUS
    <3>2. /\ L + n \in 1..(L + M) /\ (L + n) - 1 = L + (n - 1) /\ n - 1 \in 0..M /\ n \in 0..M
          /\ st[L + n] = t[n] /\ t[n] \in Nat /\ (Leading(st, L + n) <=> Leading(t, n))
      BY <1>1, <1>2
    <3>3. c[L + n] = IF Leading(st, L + n) THEN c[(L + n) - 1] ELSE Append(c[(L + n) - 1], st[L + n])
      <4> DEFINE k == L + n
      <4>1. k \in 1..(L + M)
        BY <3>2
      <4> HIDE DEF k
      <4>2. c[k] = IF Leading(st, k) THEN c[k - 1] ELSE Append(c[k - 1], st[k])
        BY <1>5, <4>1, Zenon
      <4> QED BY <4>2 DEF k
    <3>4. c[L + n] = IF Leading(t, n) THEN a[L] \o b[n - 1] ELSE Append(a[L] \o b[n - 1], t[n])
      BY <3>1, <3>2, <3>3
    <3>5. b[n - 1] \in Seq(Nat)
      BY <1>4, <3>2 DEF Text
    <3>6. Append(a[L] \o b[n - 1], t[n]) = a[L] \o Append(b[n - 1], t[n])
      BY <2>0, <3>2, <3>5, AppendJoins
    <3>8. c[L + n] = a[L] \o b[n]
      BY <1>4, <3>4, <3>6
    <3> QED BY <3>2, <3>8
  <2>3. \A n \in 0..M : n \in S
    <3> HIDE DEF S
    <3> QED BY <1>1, <2>1, <2>2, Upwards
  <2> QED BY <2>3
<1>8. c[L + M] = a[L] \o b[M]
  BY <1>1, <1>7
<1> QED BY <1>3, <1>4, <1>5, <1>8 DEF st

AllDigits(s) == \A n \in 1..Len(s) : isNum(s[n])

LEMMA SameDigits ==
  ASSUME NEW a \in Nat, NEW b \in Nat, NEW x \in Nat, NEW y \in Nat, x - 48 \in 0..9,
         y - 48 \in 0..9, 10 * a + (x - 48) = 10 * b + (y - 48)
  PROVE  a = b /\ x = y
OBVIOUS

LEMMA NextDigit ==
  ASSUME NEW a \in Nat, NEW x \in Nat, x - 48 \in 0..9
  PROVE  /\ 10 * a + x - 48 = 10 * a + (x - 48) /\ 10 * a + x - 48 \in Nat
         /\ 10 * a + x - 48 = 0 <=> a = 0 /\ x = 48
OBVIOUS

\* What is said of a number is said from its first digit on that is not 0, and of its last.
LEMMA DigitsSaid ==
  ASSUME NEW s \in Text, s # <<>>, AllDigits(s)
  PROVE  \E v \in [0..Len(s) -> Nat], said \in [0..Len(s) -> Text] :
           /\ v[0] = 0 /\ said[0] = <<>>
           /\ \A n \in 1..Len(s) : s[n] - 48 \in 0..9 /\ v[n] = 10 * v[n - 1] + (s[n] - 48)
           /\ \A n \in 1..(Len(s) - 1) :
                said[n] = IF v[n] = 0 THEN <<>> ELSE Append(said[n - 1], s[n])
           /\ Number(s) = v[Len(s)] /\ Meaning(s) = Append(said[Len(s) - 1], s[Len(s)])
<1> DEFINE L == Len(s)
<1>1. L \in Nat \ {0} /\ \A n \in 1..L : s[n] \in Nat /\ isNum(s[n])
  BY EmptySeq DEF Text, AllDigits
<1>2. \A n \in 1..L : s[n] - 48 \in 0..9
  BY <1>1 DEF isNum
<1>3. PICK v \in [0..L -> Int] :
        /\ v[0] = 0 /\ Number(s) = v[L]
        /\ \A n \in 1..L : v[n] = 10 * v[n - 1] + s[n] - 48
  BY NumberIs
<1>4. PICK said \in [0..L -> Text] :
        /\ said[0] = <<>> /\ Meaning(s) = said[L]
        /\ \A n \in 1..L : said[n] = IF Leading(s, n) THEN said[n - 1] ELSE Append(said[n - 1], s[n])
  BY MeaningIs
<1>5. \A n \in 1..L : (Leading(s, n) <=> n < L /\ \A m \in 1..n : s[m] = 48)
  <2> SUFFICES ASSUME NEW n \in 1..L PROVE Leading(s, n) <=> n < L /\ \A m \in 1..n : s[m] = 48
    OBVIOUS
  <2>1. \A m \in 1..n : \A k \in m..n : isNum(s[k])
    BY <1>1
  <2>2. n < L => isNum(s[n + 1])
    BY <1>1
  <2>3. n \in 1..n
    BY <1>1
  <2> QED BY <2>1, <2>2, <2>3 DEF Leading
<1> HIDE DEF L
<1>6. \A n \in 0..L : v[n] \in Nat
  <2> DEFINE S == {n \in 0..L : v[n] \in Nat}
  <2>1. 0 \in S
    BY <1>1, <1>3
  <2>2. \A n \in 1..L : n - 1 \in S => n \in S
    <3> SUFFICES ASSUME NEW n \in 1..L, v[n - 1] \in Nat PROVE v[n] \in Nat
      BY <1>1
    <3>1. v[n] = 10 * v[n - 1] + s[n] - 48 /\ s[n] - 48 \in 0..9 /\ s[n] \in Nat
      BY <1>1, <1>2, <1>3
    <3> QED BY <3>1, NextDigit
  <2>3. \A n \in 0..L : n \in S
    <3> HIDE DEF S
    <3> QED BY <1>1, <2>1, <2>2, Upwards
  <2> QED BY <2>3
<1>7. \A n \in 1..L : v[n] = 10 * v[n - 1] + (s[n] - 48) /\ (v[n] = 0 <=> v[n - 1] = 0 /\ s[n] = 48)
  <2> SUFFICES ASSUME NEW n \in 1..L
               PROVE  v[n] = 10 * v[n - 1] + (s[n] - 48) /\ (v[n] = 0 <=> v[n - 1] = 0 /\ s[n] = 48)
    OBVIOUS
  <2>1. /\ v[n] = 10 * v[n - 1] + s[n] - 48 /\ s[n] - 48 \in 0..9 /\ s[n] \in Nat
        /\ v[n] \in Nat /\ v[n - 1] \in Nat
    BY <1>1, <1>2, <1>3, <1>6
  <2> DEFINE a == v[n - 1]
             x == s[n]
  <2>2. a \in Nat /\ x \in Nat /\ x - 48 \in 0..9 /\ v[n] = 10 * a + x - 48
    BY <2>1
  <2> HIDE DEF a, x
  <2>3. v[n] = 10 * a + (x - 48) /\ (v[n] = 0 <=> a = 0 /\ x = 48)
    BY <2>2, NextDigit
  <2> QED BY <2>3 DEF a, x
<1>8. \A n \in 0..L : /\ v[n] = 0 <=> \A m \in 1..n : s[m] = 48
                      /\ v[n] = 0 /\ n < L => said[n] = <<>>
  <2> DEFINE Zeros(n) == \A m \in 1..n : s[m] = 48
             S == {n \in 0..L : (v[n] = 0 <=> Zeros(n)) /\ (v[n] = 0 /\ n < L => said[n] = <<>>)}
  <2>1. 0 \in S
    BY <1>1, <1>3, <1>4
  <2>2. \A n \in 1..L : n - 1 \in S => n \in S
    <3> SUFFICES ASSUME NEW n \in 1..L, n - 1 \in S PROVE n \in S
      OBVIOUS
    <3>1. /\ v[n - 1] = 0 <=> Zeros(n - 1)
          /\ v[n - 1] = 0 /\ n - 1 < L => said[n - 1] = <<>>
          /\ n \in 0..L
      BY <1>1
    <3>2. Zeros(n) <=> Zeros(n - 1) /\ s[n] = 48
      <4>1. \A m \in 1..n : m \in 1..(n - 1) \/ m = n
        BY <1>1
      <4>2. n \in 1..n /\ \A m \in 1..(n - 1) : m \in 1..n
        BY <1>1
      <4> QED BY <4>1, <4>2
    <3>3. v[n] = 0 <=> Zeros(n)
      <4> HIDE DEF Zeros
      <4> QED BY <1>7, <3>1, <3>2
    <3>4. v[n] = 0 /\ n < L => said[n] = <<>>
      <4> HAVE v[n] = 0 /\ n < L
      <4>1. Leading(s, n)
        BY <1>5, <3>3
      <4>2. v[n - 1] = 0 /\ n - 1 < L
        BY <1>1, <1>7
      <4> QED BY <1>4, <3>1, <4>1, <4>2
    <3> QED BY <3>1, <3>3, <3>4
  <2>3. \A n \in 0..L : n \in S
    <3> HIDE DEF S
    <3> QED BY <1>1, <2>1, <2>2, Upwards
  <2> QED BY <2>3
<1>9. \A n \in 1..(L - 1) : said[n] = IF v[n] = 0 THEN <<>> ELSE Append(said[n - 1], s[n])
  <2> SUFFICES ASSUME NEW n \in 1..(L - 1)
               PROVE  said[n] = IF v[n] = 0 THEN <<>> ELSE Append(said[n - 1], s[n])
    OBVIOUS
  <2>1. n \in 1..L /\ n \in 0..L /\ n < L
    BY <1>1
  <2>2. v[n] # 0 => ~Leading(s, n)
    BY <1>5, <1>8, <2>1
  <2> QED BY <1>4, <1>8, <2>1, <2>2
<1>10. said[L] = Append(said[L - 1], s[L])
  <2>1. L \in 1..L /\ ~(L < L)
    BY <1>1
  <2> QED BY <1>4, <1>5, <2>1
<1>11. v \in [0..L -> Nat]
  BY <1>3, <1>6
<1>12. \A n \in 1..L : s[n] - 48 \in 0..9 /\ v[n] = 10 * v[n - 1] + (s[n] - 48)
  BY <1>2, <1>7
<1> QED BY <1>3, <1>4, <1>9, <1>10, <1>11, <1>12 DEF L

\* Two numbers are only equal if they have the same digits.
LEMMA SameNumber ==
  ASSUME NEW s \in Text, NEW t \in Text, s # <<>>, t # <<>>, AllDigits(s), AllDigits(t),
         Number(s) = Number(t)
  PROVE  Meaning(s) = Meaning(t)
<1> DEFINE L == Len(s)
           M == Len(t)
<1>1. /\ L \in Nat \ {0} /\ \A n \in 1..L : s[n] \in Nat
      /\ M \in Nat \ {0} /\ \A n \in 1..M : t[n] \in Nat
  BY EmptySeq DEF Text
<1>2. PICK v \in [0..L -> Nat], a \in [0..L -> Text] :
        /\ v[0] = 0 /\ a[0] = <<>>
        /\ \A n \in 1..L : s[n] - 48 \in 0..9 /\ v[n] = 10 * v[n - 1] + (s[n] - 48)
        /\ \A n \in 1..(L - 1) : a[n] = IF v[n] = 0 THEN <<>> ELSE Append(a[n - 1], s[n])
        /\ Number(s) = v[L] /\ Meaning(s) = Append(a[L - 1], s[L])
  BY DigitsSaid
<1>3. PICK w \in [0..M -> Nat], b \in [0..M -> Text] :
        /\ w[0] = 0 /\ b[0] = <<>>
        /\ \A n \in 1..M : t[n] - 48 \in 0..9 /\ w[n] = 10 * w[n - 1] + (t[n] - 48)
        /\ \A n \in 1..(M - 1) : b[n] = IF w[n] = 0 THEN <<>> ELSE Append(b[n - 1], t[n])
        /\ Number(t) = w[M] /\ Meaning(t) = Append(b[M - 1], t[M])
  BY DigitsSaid
<1> HIDE DEF L, M
<1>4. ASSUME NEW i \in 1..L, NEW j \in 1..M, v[i] = w[j] PROVE v[i - 1] = w[j - 1] /\ s[i] = t[j]
  <2> DEFINE a0 == v[i - 1]
             b0 == w[j - 1]
             x == s[i]
             y == t[j]
  <2>1. i - 1 \in 0..L /\ j - 1 \in 0..M
    BY <1>1
  <2>2. a0 \in Nat /\ b0 \in Nat /\ x \in Nat /\ y \in Nat
    BY <1>1, <2>1
  <2>3. x - 48 \in 0..9 /\ v[i] = 10 * a0 + (x - 48)
    BY <1>2
  <2>4. y - 48 \in 0..9 /\ w[j] = 10 * b0 + (y - 48)
    BY <1>3
  <2> HIDE DEF a0, b0, x, y
  <2>5. 10 * a0 + (x - 48) = 10 * b0 + (y - 48)
    BY <1>4, <2>3, <2>4
  <2>6. a0 = b0 /\ x = y
    BY <2>2, <2>3, <2>4, <2>5, SameDigits
  <2> QED BY <2>6 DEF a0, b0, x, y
<1> DEFINE S == {i \in 0..(L - 1) : \A j \in 0..(M - 1) : v[i] = w[j] => a[i] = b[j]}
<1>5. \A j \in 0..(M - 1) : w[j] = 0 => b[j] = <<>>
  <2> SUFFICES ASSUME NEW j \in 0..(M - 1), w[j] = 0 PROVE b[j] = <<>>
    OBVIOUS
  <2>1. j = 0 \/ j \in 1..(M - 1)
    BY <1>1
  <2> QED BY <1>3, <2>1
<1>6. 0 \in S
  BY <1>1, <1>2, <1>5
<1>7. \A i \in 1..(L - 1) : i - 1 \in S => i \in S
  <2> SUFFICES ASSUME NEW i \in 1..(L - 1), i - 1 \in S PROVE i \in S
    OBVIOUS
  <2>0. i \in 0..(L - 1) /\ \A j \in 0..(M - 1) : v[i - 1] = w[j] => a[i - 1] = b[j]
    BY <1>1
  <2> SUFFICES ASSUME NEW j \in 0..(M - 1), v[i] = w[j] PROVE a[i] = b[j]
    BY <2>0
  <2>1. CASE w[j] = 0
    BY <1>2, <1>5, <2>1
  <2>2. CASE w[j] # 0
    <3>1. j \in 1..(M - 1) /\ j \in 1..M /\ i \in 1..L /\ j - 1 \in 0..(M - 1)
      BY <1>1, <1>3, <2>2
    <3>2. v[i - 1] = w[j - 1] /\ s[i] = t[j]
      BY <1>4, <3>1
    <3>3. a[i - 1] = b[j - 1]
      BY <2>0, <3>1, <3>2
    <3> QED BY <1>2, <1>3, <2>2, <3>1, <3>2, <3>3
  <2> QED BY <2>1, <2>2
<1>8. \A i \in 0..(L - 1) : i \in S
  <2>1. L - 1 \in Nat
    BY <1>1
  <2> HIDE DEF S
  <2> QED BY <1>6, <1>7, <2>1, Upwards
<1>9. L \in 1..L /\ M \in 1..M /\ L - 1 \in 0..(L - 1) /\ M - 1 \in 0..(M - 1)
  BY <1>1
<1>10. v[L - 1] = w[M - 1] /\ s[L] = t[M]
  <2>1. v[L] = w[M]
    BY <1>2, <1>3
  <2> QED BY <1>4, <1>9, <2>1
<1>11. a[L - 1] = b[M - 1]
  BY <1>8, <1>9, <1>10
<1> QED BY <1>2, <1>3, <1>10, <1>11

\* If no number of a text is beyond an int, none of its parts is.
LEMMA FitsJoin ==
  ASSUME NEW s \in Text, NEW t \in Text, Fits(s \o t)
  PROVE  Fits(s) /\ Fits(t)
<1> DEFINE L == Len(s)
           st == s \o t
<1>1. /\ L \in Nat /\ Len(t) \in Nat /\ st \in Text /\ Len(st) = L + Len(t)
      /\ DOMAIN s = 1..L /\ DOMAIN t = 1..Len(t) /\ DOMAIN st = 1..(L + Len(t))
      /\ \A n \in 1..L : st[n] = s[n]
      /\ \A n \in 1..Len(t) : st[L + n] = t[n]
  BY Joined DEF Text
<1>2. \A m, k \in DOMAIN st : (\A n \in m..k : isNum(st[n])) => Number(SubSeq(st, m, k)) <= MaxInt
  BY DEF Fits
<1> HIDE DEF L, st
<1>3. ASSUME NEW m \in DOMAIN s, NEW k \in DOMAIN s, \A n \in m..k : isNum(s[n])
      PROVE  Number(SubSeq(s, m, k)) <= MaxInt
  <2>1. m \in DOMAIN st /\ k \in DOMAIN st /\ \A n \in m..k : n \in 1..L
    BY <1>1, <1>3
  <2>2. SubSeq(st, m, k) = SubSeq(s, m, k)
    <3>1. m \in 1..Len(s) /\ k \in 1..Len(s) /\ s \in Seq(Nat) /\ t \in Seq(Nat)
      BY <1>1, <1>3 DEF L, Text
    <3> QED BY <3>1, SubSeqOfConcat1 DEF st
  <2>3. \A n \in m..k : isNum(st[n])
    BY <1>1, <1>3, <2>1
  <2> QED BY <1>2, <2>1, <2>2, <2>3
<1>4. ASSUME NEW m \in DOMAIN t, NEW k \in DOMAIN t, \A n \in m..k : isNum(t[n])
      PROVE  Number(SubSeq(t, m, k)) <= MaxInt
  <2>1. L + m \in DOMAIN st /\ L + k \in DOMAIN st
    BY <1>1, <1>4
  <2>2. SubSeq(st, L + m, L + k) = SubSeq(t, m, k)
    <3> DEFINE i == L + m
               j == L + k
    <3>1. i \in (L + 1)..(L + Len(t)) /\ j \in (L + 1)..(L + Len(t)) /\ i - L = m /\ j - L = k
      BY <1>1, <1>4
    <3> HIDE DEF i, j
    <3>2. SubSeq(st, i, j) = SubSeq(t, i - L, j - L)
      BY <3>1, SubSeqOfConcat2 DEF Text, st, L
    <3> QED BY <3>1, <3>2 DEF i, j
  <2>3. ASSUME NEW n \in (L + m)..(L + k) PROVE isNum(st[n])
    <3>1. n - L \in m..k /\ n - L \in 1..Len(t) /\ L + (n - L) = n
      BY <1>1, <1>4
    <3>2. st[L + (n - L)] = t[n - L] /\ isNum(t[n - L])
      BY <1>1, <1>4, <3>1
    <3> QED BY <3>1, <3>2
  <2>4. Number(SubSeq(st, L + m, L + k)) <= MaxInt
    BY <1>2, <2>1, <2>3
  <2> QED BY <2>2, <2>4
<1> QED BY <1>3, <1>4 DEF Fits

\* Atoi of a number that fits.
LEMMA AtoiFits ==
  ASSUME NEW s \in Text, s # <<>>, AllDigits(s), Fits(s)
  PROVE  Atoi(s) = Number(s)
<1> DEFINE L == Len(s)
<1>1. L \in Nat \ {0} /\ DOMAIN s = 1..L /\ \A n \in 1..L : s[n] \in Nat /\ isNum(s[n])
  BY EmptySeq DEF Text, AllDigits
<1>2. Number(s) <= MaxInt
  <2>1. SubSeq(s, 1, L) = s
    BY SubSeqFull DEF Text
  <2>2. 1 \in DOMAIN s /\ L \in DOMAIN s
    BY <1>1
  <2>3. \A n \in 1..L : isNum(s[n])
    BY <1>1
  <2> HIDE DEF L
  <2> QED BY <2>1, <2>2, <2>3 DEF Fits
<1>3. PICK v \in [0..L -> Nat] :
        /\ v[0] = 0 /\ Number(s) = v[L]
        /\ \A n \in 1..L : s[n] - 48 \in 0..9 /\ v[n] = 10 * v[n - 1] + (s[n] - 48)
  BY DigitsSaid
<1>4. PICK w \in [0..L -> Int] :
        /\ w[0] = 0 /\ Atoi(s) = w[L]
        /\ \A n \in 1..L : w[n] = IF 10 * w[n - 1] + s[n] - 48 > MaxInt THEN MaxInt
                                   ELSE 10 * w[n - 1] + s[n] - 48
  BY AtoiIs
<1> HIDE DEF L
<1>5. \A n \in 1..L : v[n - 1] <= v[n]
  <2> SUFFICES ASSUME NEW n \in 1..L PROVE v[n - 1] <= v[n]
    OBVIOUS
  <2> DEFINE a == v[n - 1]
             x == s[n] - 48
  <2>0. n - 1 \in 0..L
    BY <1>1
  <2>1. a \in Nat /\ x \in 0..9 /\ v[n] = 10 * a + x
    BY <1>3, <2>0
  <2> HIDE DEF a, x
  <2>2. a <= v[n]
    BY <2>1
  <2> QED BY <2>2 DEF a
<1>6. \A n \in 0..L : v[L - n] <= MaxInt
  <2> DEFINE S == {n \in 0..L : v[L - n] <= MaxInt}
  <2>1. 0 \in S
    BY <1>1, <1>2, <1>3
  <2>2. \A n \in 1..L : n - 1 \in S => n \in S
    <3> SUFFICES ASSUME NEW n \in 1..L, n - 1 \in S PROVE n \in S
      OBVIOUS
    <3>1. L - (n - 1) \in 1..L /\ (L - (n - 1)) - 1 = L - n /\ L - n \in 0..L /\ n \in 0..L
      BY <1>1
    <3>2. v[L - n] <= v[L - (n - 1)] /\ v[L - (n - 1)] <= MaxInt
      BY <1>5, <3>1
    <3>3. v[L - n] \in Nat /\ v[L - (n - 1)] \in Nat
      BY <1>1, <1>3, <3>1
    <3> QED BY <3>1, <3>2, <3>3, OrderAssumption
  <2>3. \A n \in 0..L : n \in S
    <3> HIDE DEF S
    <3> QED BY <1>1, <2>1, <2>2, Upwards
  <2> QED BY <2>3
<1>7. \A n \in 0..L : v[n] <= MaxInt
  <2> SUFFICES ASSUME NEW n \in 0..L PROVE v[n] <= MaxInt
    OBVIOUS
  <2>1. L - n \in 0..L /\ L - (L - n) = n
    BY <1>1
  <2>2. v[L - (L - n)] <= MaxInt
    BY <1>6, <2>1
  <2> QED BY <2>1, <2>2
<1>8. \A n \in 0..L : w[n] = v[n]
  <2> DEFINE S == {n \in 0..L : w[n] = v[n]}
  <2>1. 0 \in S
    BY <1>1, <1>3, <1>4
  <2>2. \A n \in 1..L : n - 1 \in S => n \in S
    <3> SUFFICES ASSUME NEW n \in 1..L, n - 1 \in S PROVE w[n] = v[n]
      OBVIOUS
    <3> DEFINE a == v[n - 1]
               x == s[n]
    <3>0. n - 1 \in 0..L /\ n \in 0..L /\ w[n - 1] = a
      BY <1>1
    <3>1. w[n - 1] = a /\ a \in Nat /\ x \in Nat /\ x - 48 \in 0..9 /\ n \in 0..L
      BY <1>1, <1>3, <3>0
    <3>2. v[n] = 10 * a + (x - 48) /\ v[n] <= MaxInt
      BY <1>3, <1>7, <3>1
    <3>3. w[n] = IF 10 * a + x - 48 > MaxInt THEN MaxInt ELSE 10 * a + x - 48
      BY <1>4, <3>1
    <3> HIDE DEF a, x
    <3>4. 10 * a + x - 48 = 10 * a + (x - 48) /\ 10 * a + x - 48 \in Nat
      BY <3>1, NextDigit
    <3> QED BY <3>2, <3>3, <3>4, OrderAssumption
  <2>3. \A n \in 0..L : n \in S
    <3> HIDE DEF S
    <3> QED BY <1>1, <2>1, <2>2, Upwards
  <2> QED BY <2>3
<1> QED BY <1>1, <1>3, <1>4, <1>8

\* What NextToken has taken from a text.
Used(token) == IF token.type = "sep" THEN <<Dot>> ELSE token.text

\* A token and what is left are the text, and no number goes on between them.
LEMMA TokenTaken ==
  ASSUME NEW text \in Text, text # <<>>, NEW token, token = NextToken(text)
  PROVE  /\ Used(token) \in Text /\ Used(token) # <<>> /\ token.rest \in Text
         /\ text = Used(token) \o token.rest /\ Apart(Used(token), token.rest)
         /\ token.type \in {"sep", "alpha", "num"}
         /\ token.type = "num" => AllDigits(token.text)
<1>1. Len(text) \in Nat \ {0} /\ \A n \in 1..Len(text) : text[n] \in Nat
  BY EmptySeq DEF Text
<1>2. CASE text[1] = Dot
  <2>1. token = [type |-> "sep", text |-> <<>>, rest |-> Tail(text)]
    BY <1>2 DEF NextToken
  <2>2. Used(token) = <<Dot>> /\ token.rest = Tail(text) /\ Tail(text) \in Text
    BY <2>1, TailTyped DEF Used
  <2>3. text = <<Dot>> \o Tail(text)
    <3>1. /\ <<Dot>> \o Tail(text) \in Seq(Nat) /\ Len(<<Dot>> \o Tail(text)) = Len(text)
          /\ \A n \in 1..Len(text) : (<<Dot>> \o Tail(text))[n] = text[n]
      BY <1>1, <1>2 DEF Text, Dot
    <3> QED BY <3>1, SeqEqual DEF Text
  <2>4. <<Dot>> \in Text /\ <<Dot>> # <<>> /\ ~isNum(<<Dot>>[Len(<<Dot>>)])
    BY DEF Text, Dot, isNum
  <2>5. Apart(<<Dot>>, Tail(text))
    BY <2>4 DEF Apart
  <2>6. token.type = "sep"
    BY <2>1
  <2> DEFINE dot == <<Dot>>
             t == Tail(text)
  <2>7. /\ dot \in Text /\ dot # <<>> /\ t \in Text /\ text = dot \o t /\ Apart(dot, t)
        /\ Used(token) = dot /\ token.rest = t
    BY <2>2, <2>3, <2>4, <2>5
  <2> HIDE DEF dot, t
  <2> QED BY <2>6, <2>7
<1>3. CASE text[1] # Dot
  <2> DEFINE R == RunLength(text)
             s == SubSeq(text, 1, R)
             t == SubSeq(text, R + 1, Len(text))
  <2>1. R \in 1..Len(text) /\ EndsAt(text, R) /\ \A m \in 1..(R - 1) : ~EndsAt(text, m)
    BY RunEnds
  <2>2. token = [type |-> IF isNum(text[1]) THEN "num" ELSE "alpha", text |-> s, rest |-> t]
    BY <1>3 DEF NextToken
  <2> HIDE DEF R
  <2>3. s \in Text /\ Len(s) = R /\ \A n \in 1..R : s[n] = text[n]
    BY <1>1, <2>1, SubSeqProperties DEF Text
  <2>4. t \in Text /\ Len(t) = Len(text) - R /\ \A n \in 1..(Len(text) - R) : t[n] = text[R + n]
    BY <1>1, <2>1, SubSeqProperties DEF Text
  <2>5. text = s \o t
    <3>1. SubSeq(text, 1, R) \o SubSeq(text, R + 1, Len(text)) = SubSeq(text, 1, Len(text))
      BY <1>1, <2>1, ConcatAdjacentSubSeq DEF Text
    <3> QED BY <3>1, SubSeqFull DEF Text
  <2> HIDE DEF s, t
  <2>6. \A n \in 1..R : isNum(text[n]) <=> isNum(text[1])
    <3> DEFINE S == {n \in 0..R : n = 0 \/ (isNum(text[n]) <=> isNum(text[1]))}
    <3>1. 0 \in S
      BY <1>1, <2>1
    <3>2. \A n \in 1..R : n - 1 \in S => n \in S
      <4> SUFFICES ASSUME NEW n \in 1..R, n - 1 \in S PROVE n = 1 \/ (isNum(text[n]) <=> isNum(text[1]))
        BY <1>1, <2>1
      <4>1. CASE n = 1
        BY <4>1
      <4>2. CASE n # 1
        <5>1. n - 1 \in 1..(R - 1) /\ (n - 1) + 1 = n /\ n - 1 # 0
          BY <1>1, <2>1, <4>2
        <5>2. isNum(text[n - 1]) <=> isNum(text[1])
          BY <5>1
        <5>3. ~EndsAt(text, n - 1)
          BY <2>1, <5>1
        <5>4. isNum(text[(n - 1) + 1]) = isNum(text[n - 1])
          BY <5>3 DEF EndsAt
        <5> QED BY <5>1, <5>2, <5>4
      <4> QED BY <4>1, <4>2
    <3>3. \A n \in 0..R : n \in S
      <4>1. R \in Nat
        BY <1>1, <2>1
      <4> HIDE DEF S
      <4> QED BY <3>1, <3>2, <4>1, Upwards
    <3> QED BY <1>1, <2>1, <3>3
  <2>7. t # <<>> => Len(t) # 0
    BY <2>4, EmptySeq DEF Text
  <2>8. s # <<>> /\ R \in 1..R /\ s[Len(s)] = text[R]
    BY <1>1, <2>1, <2>3, EmptySeq
  <2>9. t # <<>> => t[1] = Dot \/ ~(isNum(text[R]) /\ isNum(t[1]))
    <3> HAVE t # <<>>
    <3>1. R # Len(text) /\ t[1] = text[R + 1]
      BY <1>1, <2>1, <2>4, <2>7
    <3>2. text[R + 1] = Dot \/ isNum(text[R + 1]) # isNum(text[R])
      BY <2>1, <3>1 DEF EndsAt
    <3> QED BY <3>1, <3>2
  <2>10. Apart(s, t)
    BY <2>8, <2>9 DEF Apart, isNum, Dot
  <2>11. isNum(text[1]) => AllDigits(s)
    BY <2>3, <2>6 DEF AllDigits
  <2>12. token.type \in {"alpha", "num"} /\ token.text = s /\ token.rest = t
         /\ (token.type = "num" => isNum(text[1]))
    BY <2>2
  <2>13. Used(token) = s
    BY <2>12 DEF Used
  <2> QED BY <2>3, <2>4, <2>5, <2>8, <2>10, <2>11, <2>12, <2>13
<1> QED BY <1>2, <1>3

\* Or is 0 only if all results are.
LEMMA OrIsZero ==
  ASSUME NEW k \in Nat, NEW r \in [1..k -> Int], Or(r) = 0
  PROVE  \A n \in Nat \ {0} : Nth(r, n) = 0
<1> DEFINE Bad == {n \in Nat \ {0} : Nth(r, n) # 0}
<1>1. SUFFICES ASSUME Bad # {} PROVE FALSE
  OBVIOUS
<1>2. PICK n \in Bad : \A m \in Bad : n <= m
  <2>1. Bad \in SUBSET Nat
    OBVIOUS
  <2> HIDE DEF Bad
  <2> QED BY <1>1, <2>1, NatMinimum
<1>3. n \in Nat \ {0} /\ Nth(r, n) # 0
  OBVIOUS
<1>4. ASSUME NEW m \in 1..(n - 1) PROVE Nth(r, m) = 0
  <2>1. m \in Nat \ {0} /\ ~(n <= m)
    BY <1>3, <1>4
  <2>2. m \notin Bad
    <3> HIDE DEF Bad
    <3> QED BY <1>2, <2>1
  <2> QED BY <2>1, <2>2
<1>5. Or(r) = Nth(r, n)
  <2> HIDE DEF Bad
  <2> QED BY <1>3, <1>4, OrDecides
<1> QED BY <1>3, <1>5

\* Two texts are only equal, letter by letter, if they are the same text.
LEMMA SameText ==
  ASSUME NEW s \in Text, NEW t \in Text, CompareText(s, t) = 0
  PROVE  s = t
<1> DEFINE r == [n \in 1..Longest(s, t) |-> Sign(At(s, n) - At(t, n))]
<1>1. /\ Longest(s, t) \in Nat /\ r \in [1..Longest(s, t) -> Int]
      /\ \A n \in Nat \ {0} : Nth(r, n) = Sign(At(s, n) - At(t, n))
  BY TextResults
<1>2. Or(r) = 0
  BY DEF CompareText
<1> HIDE DEF r
<1>3. \A n \in Nat \ {0} : Sign(At(s, n) - At(t, n)) = 0
  BY <1>1, <1>2, OrIsZero
<1>4. /\ Len(s) \in Nat /\ \A n \in 1..Len(s) : s[n] \in Nat
      /\ Len(t) \in Nat /\ \A n \in 1..Len(t) : t[n] \in Nat
  BY DEF Text
<1>5. ASSUME NEW n \in Nat \ {0} PROVE At(s, n) = At(t, n)
  <2>1. At(s, n) \in Int /\ At(t, n) \in Int
    BY <1>4 DEF At
  <2> QED BY <1>3, <2>1 DEF Sign
<1>6. \A n \in Nat \ {0} : n <= Len(s) <=> n <= Len(t)
  BY <1>4, <1>5 DEF At
<1>7. Len(s) = Len(t)
  <2>1. Len(s) # 0 => Len(s) <= Len(t)
    BY <1>4, <1>6
  <2>2. Len(t) # 0 => Len(t) <= Len(s)
    BY <1>4, <1>6
  <2> QED BY <1>4, <2>1, <2>2
<1>8. \A n \in 1..Len(s) : s[n] = t[n]
  BY <1>4, <1>5, <1>7 DEF At
<1> QED BY <1>7, <1>8, SeqEqual DEF Text

\* Tokens that are equal say the same.
LEMMA SameTokens ==
  ASSUME NEW a \in Text, NEW b \in Text, a # <<>>, b # <<>>, Fits(a), Fits(b),
         NEW x, NEW y, x = NextToken(a), y = NextToken(b), TokenCompare(x, y) = 0
  PROVE  Meaning(Used(x)) = Meaning(Used(y))
<1>1. /\ Used(x) \in Text /\ Used(x) # <<>> /\ x.rest \in Text /\ a = Used(x) \o x.rest
      /\ x.type \in {"sep", "alpha", "num"} /\ (x.type = "num" => AllDigits(x.text))
  BY TokenTaken
<1>2. /\ Used(y) \in Text /\ Used(y) # <<>> /\ y.rest \in Text /\ b = Used(y) \o y.rest
      /\ y.type \in {"sep", "alpha", "num"} /\ (y.type = "num" => AllDigits(y.text))
  BY TokenTaken
<1>3. x \in Tokens /\ y \in Tokens
  BY NextTokenTyped
<1>4. x.type = y.type
  BY <1>3, TokenTypes
<1>5. CASE x.type = "sep"
  BY <1>4, <1>5 DEF Used
<1>6. CASE x.type = "alpha"
  <2>1. Used(x) = x.text /\ Used(y) = y.text
    BY <1>4, <1>6 DEF Used
  <2>2. CompareText(x.text, y.text) = 0
    BY <1>4, <1>6 DEF TokenCompare
  <2> QED BY <1>1, <1>2, <2>1, <2>2, SameText
<1>7. CASE x.type = "num"
  <2>1. Used(x) = x.text /\ Used(y) = y.text /\ AllDigits(x.text) /\ AllDigits(y.text)
    BY <1>1, <1>2, <1>4, <1>7 DEF Used
  <2>2. Sign(Atoi(x.text) - Atoi(y.text)) = 0
    BY <1>4, <1>7 DEF TokenCompare
  <2>3. Atoi(x.text) \in Int /\ Atoi(y.text) \in Int
    BY <1>1, <1>2, <2>1, AtoiTyped
  <2>4. Atoi(x.text) = Atoi(y.text)
    BY <2>2, <2>3 DEF Sign
  <2>5. Fits(x.text) /\ Fits(y.text)
    BY <1>1, <1>2, <2>1, FitsJoin
  <2>6. Number(x.text) = Number(y.text)
    BY <1>1, <1>2, <2>1, <2>4, <2>5, AtoiFits
  <2> QED BY <1>1, <1>2, <2>1, <2>6, SameNumber
<1> QED BY <1>1, <1>5, <1>6, <1>7

\* What is left of a text after some tokens, also after its end.
Left(text, k) == IF k <= Len(text) THEN Rests(text)[k] ELSE <<>>

\* What is left after k tokens is what is left after k - 1 without its token.
LEMMA LeftIs ==
  ASSUME NEW text \in Text
  PROVE  /\ Left(text, 0) = text
         /\ \A k \in Nat : /\ Left(text, k) \in Text
                           /\ Token(text, k + 1) = NextToken(Left(text, k))
                           /\ Left(text, k + 1) = NextToken(Left(text, k)).rest
                           /\ k >= Len(text) => Left(text, k) = <<>>
<1> DEFINE L == Len(text)
           rest == Rests(text)
<1>1. L \in Nat /\ <<>> \in Text
  BY DEF Text
<1>2. /\ rest \in [0..L -> Text] /\ rest[0] = text
      /\ \A k \in 1..L : rest[k] = NextToken(rest[k - 1]).rest
  BY RestsTyped
<1>3. NextToken(<<>>).rest = <<>>
  BY DEF NextToken
<1> HIDE DEF L, rest
<1>4. \A t \in Text : t # <<>> => Len(NextToken(t).rest) < Len(t)
  <2> SUFFICES ASSUME NEW t \in Text, t # <<>> PROVE Len(NextToken(t).rest) < Len(t)
    OBVIOUS
  <2> DEFINE token == NextToken(t)
  <2>1. Used(token) \in Text /\ Used(token) # <<>> /\ token.rest \in Text /\ t = Used(token) \o token.rest
    BY TokenTaken
  <2> HIDE DEF token
  <2>2. Len(t) = Len(Used(token)) + Len(token.rest) /\ Len(token.rest) \in Nat /\ Len(Used(token)) \in Nat
    BY <2>1, Joined
  <2>3. Len(Used(token)) # 0
    BY <2>1, EmptySeq DEF Text
  <2>4. Len(token.rest) < Len(t)
    BY <2>2, <2>3
  <2> QED BY <2>4 DEF token
<1>5. \A k \in 0..L : Len(rest[k]) <= L - k
  <2> DEFINE S == {k \in 0..L : Len(rest[k]) <= L - k}
  <2>1. 0 \in S
    BY <1>1, <1>2 DEF L
  <2>2. \A k \in 1..L : k - 1 \in S => k \in S
    <3> SUFFICES ASSUME NEW k \in 1..L, k - 1 \in S PROVE k \in S
      OBVIOUS
    <3> DEFINE t == rest[k - 1]
               u == rest[k]
    <3>1. k - 1 \in 0..L /\ k \in 0..L /\ Len(t) <= L - (k - 1)
      BY <1>1
    <3>2. t \in Text /\ u = NextToken(t).rest /\ u \in Text
      BY <1>2, <3>1
    <3> HIDE DEF t, u
    <3>3. Len(t) \in Nat /\ Len(u) \in Nat
      BY <3>2 DEF Text
    <3>4. CASE t = <<>>
      <4>1. u = <<>>
        BY <1>3, <3>2, <3>4
      <4>2. Len(u) = 0
        BY <4>1
      <4>3. Len(u) <= L - k
        BY <1>1, <3>1, <4>2
      <4> QED BY <3>1, <4>3 DEF u
    <3>5. CASE t # <<>>
      <4>1. Len(u) < Len(t)
        BY <1>4, <3>2, <3>5
      <4>2. Len(u) <= L - k
        BY <1>1, <3>1, <3>3, <4>1
      <4> QED BY <3>1, <4>2 DEF u
    <3> QED BY <3>4, <3>5
  <2>3. \A k \in 0..L : k \in S
    <3> HIDE DEF S
    <3> QED BY <1>1, <2>1, <2>2, Upwards
  <2> QED BY <2>3
<1>6. rest[L] = <<>>
  <2>1. L \in 0..L /\ rest[L] \in Text /\ Len(rest[L]) <= L - L
    BY <1>1, <1>2, <1>5
  <2>2. Len(rest[L]) \in Nat
    BY <2>1 DEF Text
  <2>3. Len(rest[L]) = 0
    BY <1>1, <2>1, <2>2
  <2> QED BY <2>1, <2>3, EmptySeq DEF Text
<1>7. Left(text, 0) = text
  BY <1>1, <1>2 DEF Left, L, rest
<1>8. ASSUME NEW k \in Nat
      PROVE  /\ Left(text, k) \in Text
             /\ Token(text, k + 1) = NextToken(Left(text, k))
             /\ Left(text, k + 1) = NextToken(Left(text, k)).rest
             /\ k >= Len(text) => Left(text, k) = <<>>
  <2>1. CASE k < L
    <3>1. k \in 0..L /\ k + 1 \in 1..L /\ (k + 1) - 1 = k /\ k <= L /\ k + 1 <= L /\ ~(k >= L)
      BY <1>1, <2>1
    <3>2. Left(text, k) = rest[k] /\ Left(text, k + 1) = rest[k + 1]
      BY <3>1 DEF Left, L, rest
    <3>3. Token(text, k + 1) = NextToken(rest[k])
      BY <3>1 DEF Token, L, rest
    <3>4. rest[k + 1] = NextToken(rest[k]).rest /\ rest[k] \in Text
      BY <1>2, <3>1
    <3> QED BY <3>1, <3>2, <3>3, <3>4 DEF L
  <2>2. CASE k >= L
    <3>1. Left(text, k) = <<>>
      <4>1. k = L \/ ~(k <= L)
        BY <1>1, <2>2
      <4> QED BY <1>6, <4>1 DEF Left, L, rest
    <3>2. ~(k + 1 <= L)
      BY <1>1, <2>2
    <3>3. Left(text, k + 1) = <<>> /\ Token(text, k + 1) = NextToken(<<>>)
      BY <3>2 DEF Left, Token, L
    <3> QED BY <1>1, <1>3, <3>1, <3>3
  <2> QED BY <1>1, <2>1, <2>2
<1> QED BY <1>7, <1>8

\* Token by token, two texts that are equal say the same: if what is left does, so do both.
LEMMA SameTokensThroughout ==
  ASSUME NEW a \in Text, NEW b \in Text, CompareTokens(a, b) = 0, Fits(a), Fits(b)
  PROVE  Meaning(a) = Meaning(b)
<1> DEFINE r == [n \in 1..Longest(a, b) |-> TokenCompare(Token(a, n), Token(b, n))]
<1>1. /\ Longest(a, b) \in Nat /\ r \in [1..Longest(a, b) -> Int]
      /\ \A n \in Nat \ {0} : Nth(r, n) = TokenCompare(Token(a, n), Token(b, n))
  BY TokenResults
<1>2. Or(r) = 0
  BY DEF CompareTokens
<1> HIDE DEF r
<1>3. \A n \in Nat \ {0} : TokenCompare(Token(a, n), Token(b, n)) = 0
  BY <1>1, <1>2, OrIsZero
<1> DEFINE Same(k) == /\ Fits(Left(a, k)) /\ Fits(Left(b, k))
                      /\ Meaning(Left(a, k)) = Meaning(Left(b, k)) => Meaning(a) = Meaning(b)
           N == Longest(a, b)
           S == {k \in 0..N : Same(k)}
<1>4. 0 \in S
  BY <1>1, LeftIs
<1>5. \A k \in 1..N : k - 1 \in S => k \in S
  <2> SUFFICES ASSUME NEW k \in 1..N, k - 1 \in S PROVE Same(k)
    BY <1>1
  <2> DEFINE s == Left(a, k - 1)
             t == Left(b, k - 1)
             x == NextToken(s)
             y == NextToken(t)
  <2>1. Fits(s) /\ Fits(t) /\ (Meaning(s) = Meaning(t) => Meaning(a) = Meaning(b))
    OBVIOUS
  <2>2. k - 1 \in Nat /\ (k - 1) + 1 = k /\ k \in Nat \ {0}
    BY <1>1
  <2>3. s \in Text /\ Token(a, k) = x /\ Left(a, k) = x.rest
    <3> DEFINE j == k - 1
    <3>1. j \in Nat /\ j + 1 = k
      BY <2>2
    <3> HIDE DEF j
    <3>2. /\ Left(a, j) \in Text /\ Token(a, j + 1) = NextToken(Left(a, j))
          /\ Left(a, j + 1) = NextToken(Left(a, j)).rest
      BY <3>1, LeftIs
    <3>3. /\ Left(a, j) \in Text /\ Token(a, k) = NextToken(Left(a, j))
          /\ Left(a, k) = NextToken(Left(a, j)).rest
      BY <3>1, <3>2
    <3> QED BY <3>3 DEF j
  <2>4. t \in Text /\ Token(b, k) = y /\ Left(b, k) = y.rest
    <3> DEFINE j == k - 1
    <3>1. j \in Nat /\ j + 1 = k
      BY <2>2
    <3> HIDE DEF j
    <3>2. /\ Left(b, j) \in Text /\ Token(b, j + 1) = NextToken(Left(b, j))
          /\ Left(b, j + 1) = NextToken(Left(b, j)).rest
      BY <3>1, LeftIs
    <3>3. /\ Left(b, j) \in Text /\ Token(b, k) = NextToken(Left(b, j))
          /\ Left(b, k) = NextToken(Left(b, j)).rest
      BY <3>1, <3>2
    <3> QED BY <3>3 DEF j
  <2>5. TokenCompare(x, y) = 0
    BY <1>3, <2>2, <2>3, <2>4
  <2> HIDE DEF s, t
  <2>6. CASE s = <<>> /\ t = <<>>
    <3>1. x.rest = s /\ y.rest = t
      BY <2>6 DEF NextToken
    <3> QED BY <2>1, <2>3, <2>4, <3>1
  <2>7. CASE s # <<>> /\ t # <<>>
    <3>1. /\ Used(x) \in Text /\ x.rest \in Text /\ s = Used(x) \o x.rest /\ Apart(Used(x), x.rest)
      BY <2>3, <2>7, TokenTaken
    <3>2. /\ Used(y) \in Text /\ y.rest \in Text /\ t = Used(y) \o y.rest /\ Apart(Used(y), y.rest)
      BY <2>4, <2>7, TokenTaken
    <3>3. Meaning(Used(x)) = Meaning(Used(y))
      BY <2>1, <2>3, <2>4, <2>5, <2>7, SameTokens
    <3> HIDE DEF x, y
    <3>4. Fits(x.rest) /\ Fits(y.rest)
      BY <2>1, <3>1, <3>2, FitsJoin
    <3>5. /\ Meaning(s) = Meaning(Used(x)) \o Meaning(x.rest)
          /\ Meaning(t) = Meaning(Used(y)) \o Meaning(y.rest)
      BY <3>1, <3>2, MeaningJoins
    <3> QED BY <2>1, <2>3, <2>4, <3>3, <3>4, <3>5
  <2>8. CASE (s = <<>>) # (t = <<>>)
    <3>1. x \in Tokens /\ y \in Tokens
      BY <2>3, <2>4, NextTokenTyped
    <3>2. s = <<>> => x.type = ""
      BY DEF NextToken
    <3>3. t = <<>> => y.type = ""
      BY DEF NextToken
    <3>4. s # <<>> => x.type # ""
      BY <2>3, TokenTaken
    <3>5. t # <<>> => y.type # ""
      BY <2>4, TokenTaken
    <3>6. x.type # y.type
      <4> HIDE DEF x, y
      <4> QED BY <2>8, <3>2, <3>3, <3>4, <3>5
    <3> QED BY <2>5, <3>1, <3>6, TokenTypes
  <2> QED BY <2>6, <2>7, <2>8
<1>6. \A k \in 0..N : k \in S
  <2> HIDE DEF S
  <2> QED BY <1>1, <1>4, <1>5, Upwards
<1>7. N \in Nat /\ N \in 0..N /\ N >= Len(a) /\ N >= Len(b)
  BY <1>1 DEF Longest, Text
<1>8. Left(a, N) = <<>> /\ Left(b, N) = <<>>
  <2> HIDE DEF N
  <2> QED BY <1>7, LeftIs
<1> QED BY <1>6, <1>7, <1>8

\* Two texts of versions that are equal say the same, tildes in front included.
LEMMA SameVersionText ==
  ASSUME NEW a \in Text, NEW b \in Text, compare(a, b) = 0, Fits(a), Fits(b)
  PROVE  Meaning(a) = Meaning(b)
<1>1. /\ Kind(a) \in 0..2 /\ Kind(b) \in 0..2
      /\ Kind(a) < Kind(b) => compare(a, b) = -1
      /\ Kind(a) > Kind(b) => compare(a, b) = 1
      /\ Kind(a) = 1 /\ Kind(b) = 1 => compare(a, b) = CompareTokens(Tail(a), Tail(b))
      /\ Kind(a) = 2 /\ Kind(b) = 2 => compare(a, b) = CompareTokens(a, b)
  BY KindsDecide
<1>2. Kind(a) = Kind(b)
  BY <1>1
<1>3. CASE Kind(a) = 0
  BY <1>2, <1>3 DEF Kind
<1>4. CASE Kind(a) = 2
  BY <1>1, <1>2, <1>4, SameTokensThroughout
<1>5. CASE Kind(a) = 1
  <2> DEFINE tilde == <<Tilde>>
             s == Tail(a)
             t == Tail(b)
  <2>1. a # <<>> /\ a[1] = Tilde /\ b # <<>> /\ b[1] = Tilde /\ CompareTokens(s, t) = 0
    BY <1>1, <1>2, <1>5 DEF Kind
  <2>2. s \in Text /\ t \in Text /\ tilde \in Text /\ ~isNum(tilde[Len(tilde)])
    BY <2>1, TailTyped DEF Text, Tilde, isNum
  <2>3. \A c \in Text : c # <<>> /\ c[1] = Tilde => c = tilde \o Tail(c)
    <3> SUFFICES ASSUME NEW c \in Text, c # <<>>, c[1] = Tilde PROVE c = tilde \o Tail(c)
      OBVIOUS
    <3>1. /\ tilde \o Tail(c) \in Seq(Nat) /\ Len(tilde \o Tail(c)) = Len(c)
          /\ \A n \in 1..Len(c) : (tilde \o Tail(c))[n] = c[n]
      BY EmptySeq DEF Text, Tilde
    <3> QED BY <3>1, SeqEqual DEF Text
  <2>4. a = tilde \o s /\ b = tilde \o t
    BY <2>1, <2>3
  <2> HIDE DEF tilde, s, t
  <2>5. Apart(tilde, s) /\ Apart(tilde, t)
    BY <2>2 DEF Apart
  <2>6. Fits(s) /\ Fits(t)
    BY <2>2, <2>4, FitsJoin
  <2>7. Meaning(s) = Meaning(t)
    BY <2>1, <2>2, <2>6, SameTokensThroughout
  <2>8. Meaning(a) = Meaning(tilde) \o Meaning(s) /\ Meaning(b) = Meaning(tilde) \o Meaning(t)
    BY <2>2, <2>4, <2>5, MeaningJoins
  <2> QED BY <2>7, <2>8
<1> QED BY <1>1, <1>3, <1>4, <1>5

\* Two versions that compare as equal, whatever texts they are, are written with the same
\* characters but for zeros in front of numbers, if no number is beyond an int: Compare takes
\* no two packages for one another that differ in more than how a number is written
\* (rpm.go:50-205).
THEOREM EqualIsSame == LoadSpec => []EqualMeansSame
<1>1. LoadInv => EqualMeansSame
  <2> SUFFICES ASSUME LoadInv, NEW p \in pool, NEW q \in pool, Compare(p.version, q.version) = 0,
                      Fits(p.version.ver), Fits(q.version.ver)
               PROVE  Meaning(p.version.ver) = Meaning(q.version.ver)
    BY DEF EqualMeansSame
  <2>1. pool \subseteq Package
    BY PoolTyped DEF LoadInv, Passes
  <2>2. p.version \in Version /\ q.version \in Version
    BY <2>1 DEF Package
  <2>3. /\ p.version.ver \in Text /\ q.version.ver \in Text
        /\ compare(p.version.epoch, q.version.epoch) \in Int
        /\ compare(p.version.ver, q.version.ver) \in Int
    BY <2>2, compareOpposed DEF Version, Opposed
  <2>4. compare(p.version.ver, q.version.ver) = 0
    BY <2>2, <2>3, VersionDecides
  <2> QED BY <2>3, <2>4, SameVersionText
<1> QED BY <1>1, LoadInvAlways, PTL
-----------------------------------------------------------------------------
(* The pipeline of Resolve.                                                 *)

Line ==
  {Comment} \cup {<<kind, m, Top>> : kind \in Kinds, m \in Nat}
  \cup {<<"soft", v, w>> : v \in Vars \cup {None}, w \in Int}

\* The scanner has given up, and D waits for ever for somebody to read its line.
Stuck == pcD = "write" /\ d \in DOMAIN lines /\ lines[d].long

Types ==
  /\ TypeOK /\ lines \in Problems
  /\ out \in Seq(Line)

\* Who has ended when.
Phases ==
  /\ pcD # "write" => d = Len(lines) + 1
  /\ pcD = "write" => satErr = "empty"
  /\ pcT = "scan" => left = Names
  /\ pcT # "scan" => Stuck \/ pcD \in {"closeChan", "done"}
  /\ pcT \notin {"scan", "soft"} => left = {} /\ out = <<>>
  /\ pcM \notin {"parse", "failed"} => pcT \in {"closeChan", "done"}
  /\ pcM \in {"recvPw", "recvVars", "solved"} => satErr = "received"

\* What is in the channel of the variables, or has been taken out of it.
Channel ==
  /\ varsChan # <<>> => varsChan = <<vars>> /\ pcT \notin {"scan", "soft"}
  /\ pcM = "solved" => satVars = vars

\* The clauses of some lines between the pipes, of the lines printed, and of names.
Clauses(s) == {s[m] : m \in DOMAIN s} \ {Comment}
HardBefore(n) == {Hard(m) : m \in {m \in 1..(n - 1) : lines[m].kind # "var"}}
VarsOf(text, n) == {text[m].var : m \in {m \in 1..(n - 1) : text[m].kind = "var"}}
SoftOf(S) == UNION {{<<"soft", Versions[n][k], Weight[k]>> : k \in 1..(Len(Versions[n]) - 1)} : n \in S}

Conserved ==
  /\ vars = VarsOf(lines, d)
  /\ parsed \cup Clauses(out) = HardBefore(d) \cup SoftOf(Names \ left)

Inv == Types /\ Phases /\ Channel /\ Conserved
-----------------------------------------------------------------------------
(* Sequences of lines.                                                      *)

\* Reading a line takes its clause, and nothing else, from those to come.
LEMMA HeadAndTail ==
  ASSUME NEW S, NEW s \in Seq(S), s # <<>>
  PROVE  /\ Head(s) \in S /\ Tail(s) \in Seq(S)
         /\ Clauses(s) = ({Head(s)} \ {Comment}) \cup Clauses(Tail(s))
<1>1. /\ Head(s) = s[1] /\ Tail(s) \in Seq(S) /\ Len(Tail(s)) = Len(s) - 1
      /\ Len(s) \in Nat \ {0} /\ DOMAIN s = 1..Len(s) /\ s[1] \in S
  OBVIOUS
<1>2. DOMAIN Tail(s) = 1..(Len(s) - 1) /\ \A m \in 1..(Len(s) - 1) : Tail(s)[m] = s[m + 1]
  BY <1>1
<1>3. ASSUME NEW m \in DOMAIN s
      PROVE  s[m] = Head(s) \/ (m - 1 \in DOMAIN Tail(s) /\ s[m] = Tail(s)[m - 1])
  BY <1>1, <1>2
<1>4. ASSUME NEW m \in DOMAIN Tail(s)
      PROVE  m + 1 \in DOMAIN s /\ s[m + 1] = Tail(s)[m]
  BY <1>1, <1>2
<1>5. 1 \in DOMAIN s
  BY <1>1
<1>6. ASSUME NEW c \in Clauses(s) PROVE c \in {Head(s)} \cup Clauses(Tail(s)) /\ c # Comment
  BY <1>3, Zenon DEF Clauses
<1>7. ASSUME NEW c \in Clauses(Tail(s)) PROVE c \in Clauses(s)
  BY <1>4, Zenon DEF Clauses
<1>8. Head(s) # Comment => Head(s) \in Clauses(s)
  BY <1>1, <1>5, Zenon DEF Clauses
<1>9. Comment \notin Clauses(Tail(s))
  BY Zenon DEF Clauses
<1> QED
  BY <1>1, <1>6, <1>7, <1>8, <1>9

\* A weight for every position, and none better for a better version.
LEMMA WeightsFall ==
  /\ \A k \in Nat : Weight[k] \in Int
  /\ \A j, k \in Nat : j < k => Weight[k] <= Weight[j]
BY DEF Weight

LEMMA VersionsOf ==
  ASSUME NEW n \in Names
  PROVE  /\ Versions[n] \in Seq(Vars) /\ Len(Versions[n]) \in Nat \ {0}
         /\ DOMAIN Versions[n] = 1..Len(Versions[n])
         /\ \A k \in 1..Len(Versions[n]) : Versions[n][k] \in Vars
<1>1. Versions[n] \in Seq(Vars) /\ Versions[n] # <<>>
  BY VersionsAssumption
<1> QED
  BY <1>1

LEMMA Halves ==
  ASSUME NEW L \in Nat \ {0}, NEW m \in 1..(2 * L - 1), m % 2 # 1
  PROVE  m \div 2 \in 1..(L - 1) /\ m = 2 * (m \div 2)
<1>1. PICK k \in Int : k = m \div 2
  OBVIOUS
<1>2. 2 * k <= m /\ m <= 2 * k + 1 /\ m % 2 = m - 2 * k
  BY <1>1
<1>3. m = 2 * k
  BY <1>2
<1> QED
  BY <1>1, <1>3

\* What is written for a name is a clause for each package but the best, and
\* comments, if all of those are known (sat.go:125-148).
LEMMA SoftLinesOf ==
  ASSUME NEW n \in Names, NEW known,
         \A k \in 1..(Len(Versions[n]) - 1) : Versions[n][k] \in known
  PROVE  SoftLines(n, known) \in Seq(Line) /\ Clauses(SoftLines(n, known)) = SoftOf({n})
<1> DEFINE L == Len(Versions[n])
           s == SoftLines(n, known)
<1>1. L \in Nat \ {0} /\ \A k \in 1..L : Versions[n][k] \in Vars
  BY VersionsOf
<1>2. DOMAIN s = 1..(2 * L - 1)
  BY DEF SoftLines
<1>3. ASSUME NEW k \in 1..(L - 1)
      PROVE  2 * k \in DOMAIN s /\ s[2 * k] = <<"soft", Versions[n][k], Weight[k]>>
  <2>1. 2 * k \in 1..(2 * L - 1) /\ (2 * k) % 2 = 0 /\ (2 * k) \div 2 = k
    BY <1>1
  <2> QED
    BY <2>1 DEF SoftLines, Soft
<1>4. ASSUME NEW m \in DOMAIN s
      PROVE  s[m] = Comment \/ \E k \in 1..(L - 1) : s[m] = <<"soft", Versions[n][k], Weight[k]>>
  <2>1. m \in 1..(2 * L - 1)
    BY <1>2
  <2>2. CASE m % 2 = 1
    BY <2>1, <2>2 DEF SoftLines
  <2>3. CASE m % 2 # 1
    <3>1. m \div 2 \in 1..(L - 1) /\ m = 2 * (m \div 2)
      BY <1>1, <2>1, <2>3, Halves
    <3> QED
      BY <1>3, <3>1
  <2> QED
    BY <2>2, <2>3
<1>5. ASSUME NEW k \in 1..(L - 1) PROVE <<"soft", Versions[n][k], Weight[k]>> # Comment
  BY DEF Comment
<1>6. Clauses(s) = SoftOf({n})
  <2> DEFINE soft == {<<"soft", Versions[n][k], Weight[k]>> : k \in 1..(L - 1)}
  <2>1. ASSUME NEW c \in Clauses(s) PROVE c \in soft
    BY <1>4, Zenon DEF Clauses
  <2>2. ASSUME NEW c \in soft PROVE c \in Clauses(s)
    <3>1. PICK k \in 1..(L - 1) : c = <<"soft", Versions[n][k], Weight[k]>>
      OBVIOUS
    <3> QED
      BY <3>1, <1>3, <1>5, Zenon DEF Clauses
  <2>3. Clauses(s) = soft
    BY <2>1, <2>2, Zenon
  <2> QED
    BY <2>3 DEF SoftOf
<1>7. ASSUME NEW m \in 1..(2 * L - 1) PROVE s[m] \in Line
  <2>1. CASE s[m] = Comment
    BY <2>1 DEF Line
  <2>2. ASSUME NEW k \in 1..(L - 1), s[m] = <<"soft", Versions[n][k], Weight[k]>>
        PROVE  s[m] \in Line
    <3>1. k \in Nat /\ Versions[n][k] \in Vars
      BY <1>1
    <3> QED
      BY <2>2, <3>1, WeightsFall DEF Line
  <2>3. s[m] = Comment \/ \E k \in 1..(L - 1) : s[m] = <<"soft", Versions[n][k], Weight[k]>>
    BY <1>2, <1>4
  <2> QED
    BY <2>1, <2>2, <2>3
<1>8. s \in Seq(Line)
  <2> DEFINE e(m) == IF m % 2 = 1 THEN Comment ELSE Soft(Versions[n][m \div 2], known, m \div 2)
  <2>1. s = [m \in 1..(2 * L - 1) |-> e(m)] /\ 2 * L - 1 \in Nat
    BY <1>1 DEF SoftLines
  <2>2. \A m \in 1..(2 * L - 1) : e(m) \in Line
    BY <1>7, <2>1
  <2> HIDE DEF e, s
  <2> QED
    BY <2>1, <2>2
<1> QED
  BY <1>6, <1>8

LEMMA SoftOfUnion ==
  ASSUME NEW A, NEW B PROVE SoftOf(A \cup B) = SoftOf(A) \cup SoftOf(B)
BY DEF SoftOf
-----------------------------------------------------------------------------
(* The problem, its lines, and what becomes of them.                        *)

LEMMA LinesOf ==
  ASSUME Types
  PROVE  /\ Len(lines) \in Nat /\ DOMAIN lines = 1..Len(lines)
         /\ \A m \in 1..Len(lines) : lines[m].kind \in Kinds /\ lines[m].var \in Vars \cup {None}
<1> DEFINE Entry == [kind: Kinds, var: Vars \cup {None}, long: BOOLEAN]
<1>1. lines \in Seq(Entry)
  BY ProblemsAssumption DEF Types
<1>2. \A e \in Entry : e.kind \in Kinds /\ e.var \in Vars \cup {None}
  OBVIOUS
<1> HIDE DEF Entry
<1>3. Len(lines) \in Nat /\ DOMAIN lines = 1..Len(lines) /\ \A m \in 1..Len(lines) : lines[m] \in Entry
  BY <1>1
<1> QED
  BY <1>2, <1>3

\* A line of the problem becomes one clause, a line for a variable none (sat.go:103-119).
LEMMA TranslationOf ==
  ASSUME Types, d \in DOMAIN lines
  PROVE  /\ Translation(d) \in Seq(Line)
         /\ lines[d].kind = "var" => Clauses(Translation(d)) = {}
         /\ lines[d].kind # "var" => Clauses(Translation(d)) = {Hard(d)}
         /\ HardBefore(d + 1) = HardBefore(d) \cup Clauses(Translation(d))
<1>1. d \in Nat \ {0} /\ lines[d].kind \in Kinds
  BY LinesOf
<1>2. Hard(d) \in Line /\ Comment \in Line /\ Hard(d) # Comment
  BY <1>1 DEF Line, Hard, Comment, Kinds
<1>3. Translation(d) \in Seq(Line)
  BY <1>2 DEF Translation
<1>4. 1..d = 1..(d - 1) \cup {d} /\ d + 1 - 1 = d
  BY <1>1
<1>5. /\ HardBefore(d + 1) = {Hard(m) : m \in {m \in 1..d : lines[m].kind # "var"}}
      /\ HardBefore(d) = {Hard(m) : m \in {m \in 1..(d - 1) : lines[m].kind # "var"}}
  BY <1>4 DEF HardBefore
<1>6. CASE lines[d].kind = "var"
  <2>1. Clauses(Translation(d)) = {}
    BY <1>6 DEF Translation, Clauses
  <2>2. {m \in 1..d : lines[m].kind # "var"} = {m \in 1..(d - 1) : lines[m].kind # "var"}
    BY <1>4, <1>6
  <2> QED
    BY <1>3, <1>6, <2>1, <2>2, <1>5
<1>7. CASE lines[d].kind # "var"
  <2>1. Clauses(Translation(d)) = {Hard(d)}
    BY <1>2, <1>7 DEF Translation, Clauses
  <2>2. {m \in 1..d : lines[m].kind # "var"} = {m \in 1..(d - 1) : lines[m].kind # "var"} \cup {d}
    BY <1>4, <1>7
  <2>3. {Hard(m) : m \in {m \in 1..d : lines[m].kind # "var"}}
        = {Hard(m) : m \in {m \in 1..(d - 1) : lines[m].kind # "var"}} \cup {Hard(d)}
    BY <2>2, Zenon
  <2> QED
    BY <1>3, <1>7, <2>1, <2>3, <1>5
<1> QED
  BY <1>6, <1>7

LEMMA VarsOfNext ==
  ASSUME NEW text, NEW n \in Nat \ {0}
  PROVE  /\ text[n].kind = "var" => VarsOf(text, n + 1) = VarsOf(text, n) \cup {text[n].var}
         /\ text[n].kind # "var" => VarsOf(text, n + 1) = VarsOf(text, n)
<1> DEFINE Before(m) == {l \in 1..(m - 1) : text[l].kind = "var"}
<1>1. 1..(n + 1 - 1) = 1..(n - 1) \cup {n}
  OBVIOUS
<1>2. \A m : VarsOf(text, m) = {text[l].var : l \in Before(m)}
  BY DEF VarsOf
<1>3. ASSUME NEW A, NEW B, VarsOf(text, n) = {text[l].var : l \in A},
             VarsOf(text, n + 1) = {text[l].var : l \in B}
      PROVE  /\ B = A \cup {n} => VarsOf(text, n + 1) = VarsOf(text, n) \cup {text[n].var}
             /\ B = A => VarsOf(text, n + 1) = VarsOf(text, n)
  BY <1>3, Zenon
<1>4. text[n].kind = "var" => Before(n + 1) = Before(n) \cup {n}
  BY <1>1
<1>5. text[n].kind # "var" => Before(n + 1) = Before(n)
  BY <1>1
<1> HIDE DEF Before
<1> QED
  BY <1>2, <1>3, <1>4, <1>5

\* The table of variables is complete when the first soft clause is written,
\* even when the scanner has given up (sat.go:121-134).
LEMMA AllKnown ==
  ASSUME Types, Phases, Conserved, pcT # "scan", NEW n \in Names,
         NEW k \in 1..(Len(Versions[n]) - 1)
  PROVE  Versions[n][k] \in vars
<1>1. PICK m \in DOMAIN lines : lines[m].kind = "var" /\ lines[m].var = Versions[n][k]
  BY DimacsAssumption DEF Types
<1>2. m \in 1..Len(lines) /\ d \in 1..(Len(lines) + 1) /\ Len(lines) \in Nat
  BY LinesOf DEF Types, TypeOK
<1>3. m <= d - 1
  <2>1. CASE Stuck
    <3>1. d <= m => ~lines[d].long
      BY <2>1, <1>1, DimacsAssumption DEF Types, Stuck
    <3> QED
      BY <1>2, <2>1, <3>1 DEF Stuck
  <2>2. CASE pcD \in {"closeChan", "done"}
    BY <1>2, <2>2 DEF Phases
  <2> QED
    BY <2>1, <2>2 DEF Phases
<1>4. m \in {l \in 1..(d - 1) : lines[l].kind = "var"}
  BY <1>1, <1>2, <1>3
<1> QED
  BY <1>1, <1>4, Zenon DEF Conserved, VarsOf
-----------------------------------------------------------------------------
(* The invariant.                                                           *)

LEMMA InvInit == Init => Inv
<1> SUFFICES ASSUME Init PROVE Inv
  OBVIOUS
<1>1. lines \in Problems /\ out = <<>> /\ out \in Seq(Line)
  BY DEF Init
<1>2. Len(lines) \in Nat
  BY <1>1, ProblemsAssumption
<1>3. Types
  BY <1>1, <1>2 DEF Init, Types, TypeOK
<1>4. Phases /\ Channel
  BY DEF Init, Phases, Channel
<1>5. 1..(d - 1) = {} /\ DOMAIN out = {} /\ Names \ left = {}
  BY DEF Init
<1>6. HardBefore(d) = {} /\ Clauses(out) = {} /\ SoftOf(Names \ left) = {}
  BY <1>5 DEF HardBefore, Clauses, SoftOf
<1>7. Conserved
  BY <1>5, <1>6 DEF Init, Conserved, VarsOf
<1> QED
  BY <1>3, <1>4, <1>7 DEF Inv

LEMMA TypesInductive == Inv /\ [Next]_pipeline => Types'
<1> SUFFICES ASSUME Inv, [Next]_pipeline PROVE Types'
  OBVIOUS
<1> USE DEF Inv, Types, TypeOK
<1>1. CASE D_Return
  BY <1>1 DEF D_Return
<1>2. CASE D_Close
  BY <1>2 DEF D_Close
<1>3. CASE D_CloseChan
  BY <1>3 DEF D_CloseChan
<1>4. CASE T_Scan
  <2>1. d \in DOMAIN lines /\ lines[d].var \in Vars \cup {None} /\ Len(lines) \in Nat
    BY <1>4, LinesOf DEF T_Scan
  <2>2. out' \in Seq(Line)
    BY <1>4, <2>1, TranslationOf DEF T_Scan
  <2> QED
    BY <1>4, <2>1, <2>2 DEF T_Scan
<1>5. CASE T_ScanTooLong
  BY <1>5 DEF T_ScanTooLong
<1>6. CASE T_ScanEnd
  BY <1>6 DEF T_ScanEnd
<1>7. CASE T_Return
  BY <1>7 DEF T_Return
<1>8. CASE T_Close
  BY <1>8 DEF T_Close
<1>9. CASE T_CloseChan
  BY <1>9 DEF T_CloseChan
<1>10. ASSUME NEW n \in left, T_SoftRules(n) PROVE Types'
  <2>1. n \in Names /\ out' = SoftLines(n, vars)
    BY <1>10 DEF T_SoftRules
  <2>2. \A k \in 1..(Len(Versions[n]) - 1) : Versions[n][k] \in vars
    BY <1>10, <2>1, AllKnown DEF T_SoftRules
  <2>3. out' \in Seq(Line)
    BY <2>1, <2>2, SoftLinesOf
  <2> QED
    BY <1>10, <2>3 DEF T_SoftRules
<1>11. CASE M_Parse
  <2>1. out' \in Seq(Line)
    BY <1>11, HeadAndTail DEF M_Parse
  <2> QED
    BY <1>11, <2>1 DEF M_Parse
<1>12. CASE M_ParseError
  BY <1>12 DEF M_ParseError
<1>13. CASE M_ParseEnd
  BY <1>13 DEF M_ParseEnd
<1>14. CASE M_RecvSat
  BY <1>14 DEF M_RecvSat
<1>15. CASE M_RecvPw
  BY <1>15 DEF M_RecvPw
<1>16. CASE M_RecvVars
  <2>1. varsChan' = <<>> /\ satVars' = vars
    BY <1>16 DEF M_RecvVars, Channel
  <2> QED
    BY <1>16, <2>1 DEF M_RecvVars
<1>17. CASE UNCHANGED pipeline
  BY <1>17 DEF pipeline
<1> QED
  BY <1>1, <1>2, <1>3, <1>4, <1>5, <1>6, <1>7, <1>8, <1>9, <1>10, <1>11, <1>12, <1>13,
     <1>14, <1>15, <1>16, <1>17 DEF Next, D_Next, T_Next, M_Next

LEMMA PhasesInductive == Inv /\ [Next]_pipeline => Phases'
<1> SUFFICES ASSUME Inv, [Next]_pipeline PROVE Phases'
  OBVIOUS
<1> USE DEF Inv, Phases, Stuck
<1>1. CASE D_Return
  BY <1>1, LinesOf DEF D_Return, Types, TypeOK
<1>2. CASE D_Close \/ D_CloseChan
  BY <1>2 DEF D_Close, D_CloseChan
<1>3. CASE T_Scan \/ T_ScanTooLong \/ T_ScanEnd
  BY <1>3, LinesOf DEF T_Scan, T_ScanTooLong, T_ScanEnd, Types, TypeOK
<1>4. CASE T_Return \/ T_Close \/ T_CloseChan
  BY <1>4 DEF T_Return, T_Close, T_CloseChan
<1>5. ASSUME NEW n \in left, T_SoftRules(n) PROVE Phases'
  BY <1>5 DEF T_SoftRules
<1>6. CASE M_Parse \/ M_ParseError \/ M_ParseEnd
  BY <1>6 DEF M_Parse, M_ParseError, M_ParseEnd
<1>7. CASE M_RecvSat \/ M_RecvPw \/ M_RecvVars
  BY <1>7 DEF M_RecvSat, M_RecvPw, M_RecvVars
<1>8. CASE UNCHANGED pipeline
  BY <1>8 DEF pipeline
<1> QED
  BY <1>1, <1>2, <1>3, <1>4, <1>5, <1>6, <1>7, <1>8 DEF Next, D_Next, T_Next, M_Next

LEMMA ChannelInductive == Inv /\ [Next]_pipeline => Channel'
<1> SUFFICES ASSUME Inv, [Next]_pipeline PROVE Channel'
  OBVIOUS
<1> USE DEF Inv, Channel
<1>1. CASE D_Next
  BY <1>1 DEF D_Next, D_Return, D_Close, D_CloseChan
<1>2. CASE T_Scan \/ T_ScanTooLong \/ T_ScanEnd
  BY <1>2 DEF T_Scan, T_ScanTooLong, T_ScanEnd, Phases
<1>3. CASE T_Return \/ T_Close \/ T_CloseChan
  BY <1>3 DEF T_Return, T_Close, T_CloseChan, Phases
<1>4. ASSUME NEW n \in left, T_SoftRules(n) PROVE Channel'
  BY <1>4 DEF T_SoftRules, Phases
<1>5. CASE M_Parse \/ M_ParseError \/ M_ParseEnd
  BY <1>5 DEF M_Parse, M_ParseError, M_ParseEnd
<1>6. CASE M_RecvSat \/ M_RecvPw
  BY <1>6 DEF M_RecvSat, M_RecvPw
<1>7. CASE M_RecvVars
  <2>1. /\ varsChan # <<>> /\ varsChan' = Tail(varsChan) /\ satVars' = Head(varsChan)
        /\ UNCHANGED <<vars, pcT>>
    BY <1>7 DEF M_RecvVars
  <2>2. varsChan = <<vars>>
    BY <2>1
  <2>3. Head(<<vars>>) = vars /\ Tail(<<vars>>) = <<>>
    OBVIOUS
  <2> QED
    BY <2>1, <2>2, <2>3
<1>8. CASE UNCHANGED pipeline
  BY <1>8 DEF pipeline
<1> QED
  BY <1>1, <1>2, <1>3, <1>4, <1>5, <1>6, <1>7, <1>8 DEF Next, T_Next, M_Next

\* A step that leaves the lines and clauses where they are conserves them.
LEMMA Unmoved ==
  ASSUME Conserved, UNCHANGED <<lines, d, vars, parsed, out, left>> PROVE Conserved'
BY DEF Conserved, HardBefore, Hard, Clauses, SoftOf

LEMMA ConservedInductive == Inv /\ [Next]_pipeline => Conserved'
<1> SUFFICES ASSUME Inv, [Next]_pipeline PROVE Conserved'
  OBVIOUS
<1> USE DEF Inv
<1>1. CASE D_Next \/ UNCHANGED pipeline
  <2>1. UNCHANGED <<lines, d, vars, parsed, out, left>>
    BY <1>1 DEF D_Next, D_Return, D_Close, D_CloseChan, pipeline
  <2> QED
    BY <2>1, Unmoved
<1>2. CASE T_Scan
  <2>1. d \in DOMAIN lines /\ d \in Nat \ {0}
    BY <1>2, LinesOf DEF T_Scan, Types, TypeOK
  <2>2. /\ out = <<>> /\ out' = Translation(d) /\ d' = d + 1 /\ UNCHANGED <<lines, left, parsed>>
        /\ lines[d].kind = "var" => vars' = vars \cup {lines[d].var}
        /\ lines[d].kind # "var" => vars' = vars
    BY <1>2 DEF T_Scan
  <2>3. Clauses(out) = {}
    BY <2>2 DEF Clauses
  <2>4. parsed \cup Clauses(Translation(d)) = HardBefore(d + 1) \cup SoftOf(Names \ left)
    BY <2>1, <2>3, TranslationOf DEF Conserved
  <2>5. parsed' \cup Clauses(out)' = HardBefore(d)' \cup SoftOf(Names \ left)'
    BY <2>2, <2>4 DEF Clauses, HardBefore, Hard, SoftOf
  <2>6. vars' = VarsOf(lines, d + 1)
    BY <2>1, <2>2, VarsOfNext DEF Conserved
  <2>7. d' = d + 1 /\ lines' = lines
    BY <2>2
  <2>8. vars' = VarsOf(lines', d')
    BY <2>6, <2>7
  <2> QED
    BY <2>5, <2>8, Zenon DEF Conserved
<1>3. CASE T_ScanTooLong \/ T_ScanEnd \/ T_Return \/ T_Close \/ T_CloseChan
  <2>1. UNCHANGED <<lines, d, vars, parsed, out, left>>
    BY <1>3 DEF T_ScanTooLong, T_ScanEnd, T_Return, T_Close, T_CloseChan
  <2> QED
    BY <2>1, Unmoved
<1>4. ASSUME NEW n \in left, T_SoftRules(n) PROVE Conserved'
  <2>1. /\ n \in Names /\ out = <<>> /\ out' = SoftLines(n, vars) /\ left' = left \ {n}
        /\ left \subseteq Names /\ UNCHANGED <<lines, d, vars, parsed>>
    BY <1>4 DEF T_SoftRules, Types, TypeOK
  <2>2. Clauses(out) = {}
    BY <2>1 DEF Clauses
  <2>3. \A k \in 1..(Len(Versions[n]) - 1) : Versions[n][k] \in vars
    BY <1>4, <2>1, AllKnown DEF T_SoftRules
  <2>4. Clauses(SoftLines(n, vars)) = SoftOf({n})
    BY <2>1, <2>3, SoftLinesOf
  <2>5. Names \ (left \ {n}) = (Names \ left) \cup {n}
    BY <2>1
  <2>6. SoftOf(Names \ (left \ {n})) = SoftOf(Names \ left) \cup SoftOf({n})
    BY <2>5, SoftOfUnion
  <2>7. parsed \cup Clauses(SoftLines(n, vars)) = HardBefore(d) \cup SoftOf(Names \ (left \ {n}))
    BY <2>2, <2>4, <2>6 DEF Conserved
  <2>8. parsed' \cup Clauses(out)' = HardBefore(d)' \cup SoftOf(Names \ left)'
    BY <2>1, <2>7 DEF Clauses, HardBefore, Hard, SoftOf
  <2> QED
    BY <2>1, <2>8 DEF Conserved
<1>5. CASE M_Parse
  <2>1. /\ out # <<>> /\ out' = Tail(out) /\ UNCHANGED <<lines, d, vars, left>>
        /\ Head(out) = Comment => parsed' = parsed
        /\ Head(out) # Comment => parsed' = parsed \cup {Head(out)}
    BY <1>5 DEF M_Parse
  <2>2. Clauses(out) = ({Head(out)} \ {Comment}) \cup Clauses(Tail(out))
    BY <2>1, HeadAndTail DEF Types
  <2>3. parsed' \cup Clauses(Tail(out)) = parsed \cup Clauses(out)
    BY <2>1, <2>2
  <2>4. parsed' \cup Clauses(out)' = HardBefore(d)' \cup SoftOf(Names \ left)'
    BY <2>1, <2>3 DEF Conserved, Clauses, HardBefore, Hard, SoftOf
  <2> QED
    BY <2>1, <2>4 DEF Conserved
<1>6. CASE M_ParseError \/ M_ParseEnd \/ M_RecvSat \/ M_RecvPw \/ M_RecvVars
  <2>1. UNCHANGED <<lines, d, vars, parsed, out, left>>
    BY <1>6 DEF M_ParseError, M_ParseEnd, M_RecvSat, M_RecvPw, M_RecvVars
  <2> QED
    BY <2>1, Unmoved
<1> QED
  BY <1>1, <1>2, <1>3, <1>4, <1>5, <1>6 DEF Next, T_Next, M_Next
-----------------------------------------------------------------------------
(* What the solver and the reader of its answer are given.                  *)

LEMMA InvAlways == Spec => []Inv
<1>1. Inv /\ [Next]_pipeline => Inv'
  BY TypesInductive, PhasesInductive, ChannelInductive, ConservedInductive DEF Inv
<1> QED
  BY InvInit, <1>1, PTL DEF Spec

\* The clauses parsed are of the problem; those that are soft are for versions
\* that are not the best.
LEMMA ParsedSoft ==
  ASSUME Inv, NEW c \in parsed, c[1] = "soft"
  PROVE  \E n \in Names : \E k \in 1..(Len(Versions[n]) - 1) :
           c = <<"soft", Versions[n][k], Weight[k]>>
<1>1. d \in 1..(Len(lines) + 1)
  BY DEF Inv, Types, TypeOK
<1>2. c \notin HardBefore(d)
  <2>1. ASSUME NEW m \in 1..(d - 1) PROVE Hard(m)[1] # "soft"
    <3>1. lines[m].kind \in Kinds
      BY <1>1, LinesOf DEF Inv
    <3> QED
      BY <3>1 DEF Hard, Kinds
  <2> QED
    BY <2>1 DEF HardBefore
<1>3. c \in SoftOf(Names \ left)
  BY <1>2 DEF Inv, Conserved
<1> QED
  BY <1>3 DEF SoftOf

\* The solver never runs on a truncated problem, whichever goroutine is ahead
\* and even when the scanner gives up (SolvesWholeProblem, sat.go:84-160).
THEOREM WholeProblemSolved == Spec => []SolvesWholeProblem
<1>1. ASSUME Inv, pcM = "solved" PROVE parsed = HardClauses \cup SoftClauses
  <2>1. pcD # "write" /\ left = {} /\ out = <<>> /\ d = Len(lines) + 1
    BY <1>1 DEF Inv, Phases
  <2>2. Clauses(out) = {} /\ Names \ left = Names
    BY <2>1 DEF Clauses
  <2>3. DOMAIN lines = 1..(d - 1)
    BY <1>1, <2>1, LinesOf DEF Inv
  <2>4. HardBefore(d) = HardClauses
    BY <2>3 DEF HardBefore, HardClauses
  <2>5. SoftOf(Names) = SoftClauses
    BY Zenon DEF SoftOf, SoftClauses
  <2> QED
    BY <1>1, <2>2, <2>4, <2>5 DEF Inv, Conserved
<1>2. Inv => SolvesWholeProblem
  BY <1>1 DEF SolvesWholeProblem
<1> QED
  BY <1>2, InvAlways, PTL

\* The variables by which the answer is read are all there, every soft clause
\* names a package, and a better version never costs more than a worse one,
\* however many versions a package has (HandedOver, sat.go:121-172).
THEOREM AllHandedOver == Spec => []HandedOver
<1>1. Inv => SolutionReadable
  <2> SUFFICES ASSUME Inv, pcM = "solved" PROVE satVars = Mapped
    BY DEF SolutionReadable
  <2>1. d = Len(lines) + 1 /\ satVars = vars
    BY DEF Inv, Phases, Channel
  <2>2. DOMAIN lines = 1..(d - 1)
    BY <2>1, LinesOf DEF Inv
  <2>3. VarsOf(lines, d) = Mapped
    BY <2>2 DEF VarsOf, Mapped
  <2> QED
    BY <2>1, <2>3 DEF Inv, Conserved
<1>2. Inv => SoftClausesNamed
  <2> SUFFICES ASSUME Inv, NEW c \in parsed, c[1] = "soft" PROVE c[2] # None
    BY DEF SoftClausesNamed
  <2>1. PICK n \in Names : \E k \in 1..(Len(Versions[n]) - 1) :
          c = <<"soft", Versions[n][k], Weight[k]>>
    BY ParsedSoft
  <2>2. \A k \in 1..Len(Versions[n]) : Versions[n][k] \in Vars
    BY VersionsOf
  <2> QED
    BY <2>1, <2>2, ProblemsAssumption
<1>3. Inv => BetterIsCheaper
  <2> SUFFICES ASSUME Inv, NEW n \in Names,
                      NEW j \in 1..(Len(Versions[n]) - 1), NEW k \in 1..(Len(Versions[n]) - 1),
                      j < k,
                      NEW worse \in [i \in DOMAIN Versions[n] |-> Weights(Versions[n][i])][j],
                      NEW better \in [i \in DOMAIN Versions[n] |-> Weights(Versions[n][i])][k]
               PROVE  better <= worse
    BY DEF BetterIsCheaper
  <2>1. ASSUME NEW i \in 1..(Len(Versions[n]) - 1),
               NEW w \in [h \in DOMAIN Versions[n] |-> Weights(Versions[n][h])][i]
        PROVE  w = Weight[i]
    <3>1. i \in DOMAIN Versions[n]
      BY VersionsOf
    <3>2. PICK c \in parsed : c[1] = "soft" /\ c[2] = Versions[n][i] /\ c[3] = w
      BY <3>1, <2>1 DEF Weights
    <3>3. PICK a \in Names : \E h \in 1..(Len(Versions[a]) - 1) :
            c = <<"soft", Versions[a][h], Weight[h]>>
      BY <3>2, ParsedSoft
    <3>4. PICK h \in DOMAIN Versions[a] : Versions[a][h] = Versions[n][i] /\ w = Weight[h]
      BY <3>2, <3>3, VersionsOf
    <3> QED
      BY <3>1, <3>4, VersionsAssumption
  <2>2. better = Weight[k] /\ worse = Weight[j]
    BY <2>1
  <2>3. j \in Nat /\ k \in Nat
    BY VersionsOf
  <2> QED
    BY <2>2, <2>3, WeightsFall
<1>4. Inv => HandedOver
  BY <1>1, <1>2, <1>3 DEF HandedOver, Inv, Types
<1> QED
  BY <1>4, InvAlways, PTL
=============================================================================

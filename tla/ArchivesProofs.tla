--------------------------- MODULE ArchivesProofs ---------------------------
(***************************************************************************)
(* What rpm2tar writes, for any RPMs and options: all their files, their    *)
(* directories and links, each once, in an order in which the archive can   *)
(* be unpacked.  And what its readers make of it: tar2files the files that  *)
(* are declared, sandbox all of them, where none is in the way of another.  *)
(*                                                                          *)
(* The first part is about lists that are put together of others, the       *)
(* second about the tree: what is said of a path in a sequence of headers,  *)
(* and that a breadth-first walk comes to each node once.  The third is the *)
(* invariant of rpm2tar.  The fourth is about the file system: how the      *)
(* kernel follows a path whose directories are there, and a relative link.  *)
(* The invariants of tar2files and of Untar rest on that.                   *)
(***************************************************************************)
EXTENDS Archives, TLAPS, FiniteSetTheorems, WellFoundedInduction

\* A set of naturals that is not empty has a least element.
LEMMA NatMinimum ==
  ASSUME NEW S \in SUBSET Nat, S # {}
  PROVE  \E x \in S : \A y \in S : x <= y
<1> DEFINE Less == {ss \in Nat \X Nat : ss[1] < ss[2]}
<1>1. IsWellFoundedOn(Less, Nat)
  BY NatLessThanWellFounded, Zenon DEF OpToRel
<1>2. PICK x \in S : \A y \in S : <<y, x>> \notin Less
  BY <1>1, WFMin, Zenon
<1>3. \A y \in S : ~(y < x)
  BY <1>2
<1> QED
  BY <1>3
-----------------------------------------------------------------------------
(* Lists put together of others.                                            *)

LEMMA Appended ==
  ASSUME NEW D, NEW s \in Seq(D), NEW e \in D
  PROVE  /\ Append(s, e) \in Seq(D) /\ Len(Append(s, e)) = Len(s) + 1 /\ Len(s) \in Nat
         /\ DOMAIN s = 1..Len(s) /\ DOMAIN Append(s, e) = 1..(Len(s) + 1)
         /\ Append(s, e)[Len(s) + 1] = e /\ \A k \in 1..Len(s) : Append(s, e)[k] = s[k]
OBVIOUS

LEMMA Single ==
  ASSUME NEW D, NEW e \in D
  PROVE  <<e>> \in Seq(D) /\ Len(<<e>>) = 1 /\ <<e>>[1] = e
OBVIOUS

LEMMA Concatenated ==
  ASSUME NEW D, NEW s \in Seq(D), NEW t \in Seq(D)
  PROVE  /\ s \o t \in Seq(D) /\ Len(s \o t) = Len(s) + Len(t) /\ Len(s) \in Nat /\ Len(t) \in Nat
         /\ DOMAIN s = 1..Len(s) /\ DOMAIN t = 1..Len(t) /\ DOMAIN (s \o t) = 1..(Len(s) + Len(t))
         /\ \A k \in 1..Len(s) : (s \o t)[k] = s[k]
         /\ \A k \in 1..Len(t) : (s \o t)[Len(s) + k] = t[k]
OBVIOUS

LEMMA Beyond ==
  ASSUME NEW m \in Nat, NEW k \in Nat, NEW i \in 1..(m + k), i \notin 1..m
  PROVE  i - m \in 1..k /\ m + (i - m) = i
OBVIOUS

IsFlattening(f, s, n) == f = [i \in 1..n |-> IF i = 1 THEN s[i] ELSE f[i - 1] \o s[i]]

LEMMA FlatteningExists ==
  ASSUME NEW s, NEW n \in Nat
  PROVE  \E f : IsFlattening(f, s, n)
<1> DEFINE Bad == {j \in Nat : ~\E f : IsFlattening(f, s, j)}
<1>1. SUFFICES ASSUME Bad # {} PROVE FALSE
  OBVIOUS
<1>2. PICK j \in Bad : \A i \in Bad : j <= i
  <2>1. Bad \in SUBSET Nat
    OBVIOUS
  <2> HIDE DEF Bad
  <2> QED BY <1>1, <2>1, NatMinimum
<1>3. j # 0
  <2> DEFINE f == [i \in 1..0 |-> s[i]]
  <2>1. IsFlattening(f, s, 0)
    BY DEF IsFlattening
  <2> QED BY <2>1
<1>4. j - 1 \in Nat /\ j - 1 \notin Bad
  <2>1. j \in Nat
    OBVIOUS
  <2> HIDE DEF Bad
  <2> QED BY <1>2, <1>3, <2>1
<1>5. PICK f : IsFlattening(f, s, j - 1)
  BY <1>4
<1> DEFINE g == [i \in 1..j |-> IF i = j THEN (IF j = 1 THEN s[j] ELSE f[j - 1] \o s[j]) ELSE f[i]]
<1>6. \A i \in 1..j : g[i] = IF i = 1 THEN s[i] ELSE g[i - 1] \o s[i]
  <2> TAKE i \in 1..j
  <2>1. CASE i = j
    BY <2>1, <1>3, <1>4
  <2>2. CASE i # j
    <3>1. i \in 1..(j - 1)
      BY <2>2
    <3>2. f[i] = IF i = 1 THEN s[i] ELSE f[i - 1] \o s[i]
      BY <3>1, <1>5 DEF IsFlattening
    <3> QED BY <3>1, <3>2, <2>2
  <2> QED BY <2>1, <2>2
<1>7. IsFlattening(g, s, j)
  BY <1>6 DEF IsFlattening
<1> QED BY <1>7

\* There is but one.
LEMMA FlatteningUnique ==
  ASSUME NEW s, NEW n \in Nat, NEW f, NEW g, IsFlattening(f, s, n), IsFlattening(g, s, n)
  PROVE  \A i \in 1..n : f[i] = g[i]
<1> DEFINE Bad == {i \in 1..n : f[i] # g[i]}
<1>1. SUFFICES ASSUME Bad # {} PROVE FALSE
  OBVIOUS
<1>2. PICK i \in Bad : \A j \in Bad : i <= j
  <2>1. Bad \in SUBSET Nat
    OBVIOUS
  <2> HIDE DEF Bad
  <2> QED BY <1>1, <2>1, NatMinimum
<1>3. i \in 1..n /\ f[i] # g[i]
  OBVIOUS
<1>4. i # 1 => i - 1 \in 1..n /\ ~(i <= i - 1)
  BY <1>3
<1>5. i # 1 => f[i - 1] = g[i - 1]
  <2>1. i # 1 => i - 1 \notin Bad
    <3> HIDE DEF Bad
    <3> QED BY <1>2, <1>4
  <2> QED BY <1>4, <2>1
<1>6. f[i] = (IF i = 1 THEN s[i] ELSE f[i - 1] \o s[i])
  BY <1>3 DEF IsFlattening
<1>7. g[i] = (IF i = 1 THEN s[i] ELSE g[i - 1] \o s[i])
  BY <1>3 DEF IsFlattening
<1> HIDE DEF Bad
<1> QED BY <1>3, <1>5, <1>6, <1>7

\* Each element of a list comes from one place of the parts, in their order.
Places(row, col, list, s, n) ==
  /\ \A j \in 1..Len(list) :
       row[j] \in 1..n /\ col[j] \in DOMAIN s[row[j]] /\ list[j] = s[row[j]][col[j]]
  /\ \A j, k \in 1..Len(list) : j < k => row[j] < row[k] \/ (row[j] = row[k] /\ col[j] < col[k])
  /\ \A i \in 1..n : \A x \in DOMAIN s[i] : \E j \in 1..Len(list) : row[j] = i /\ col[j] = x
LaidOut(list, s, n) ==
  \E row, col \in [1..Len(list) -> Nat] : Places(row, col, list, s, n)

LEMMA LaidOutAppended ==
  ASSUME NEW D, NEW list \in Seq(D), NEW s, NEW n \in Nat, s[n + 1] \in Seq(D), LaidOut(list, s, n)
  PROVE  LaidOut(list \o s[n + 1], s, n + 1)
<1> DEFINE t == s[n + 1]
           u == list \o t
<1>1. t \in Seq(D)
  OBVIOUS
<1>2. PICK row, col \in [1..Len(list) -> Nat] : Places(row, col, list, s, n)
  BY DEF LaidOut
<1> USE DEF Places
<1> HIDE DEF t
<1>3. /\ u \in Seq(D) /\ Len(list) \in Nat /\ Len(t) \in Nat /\ Len(u) = Len(list) + Len(t)
      /\ DOMAIN list = 1..Len(list) /\ DOMAIN t = 1..Len(t)
      /\ \A m \in 1..Len(list) : u[m] = list[m]
      /\ \A m \in 1..Len(t) : u[Len(list) + m] = t[m]
  BY <1>1
<1> HIDE DEF u
<1> DEFINE down == [j \in 1..Len(u) |-> IF j <= Len(list) THEN row[j] ELSE n + 1]
           across == [j \in 1..Len(u) |-> IF j <= Len(list) THEN col[j] ELSE j - Len(list)]
<1>4. down \in [1..Len(u) -> Nat] /\ across \in [1..Len(u) -> Nat]
  BY <1>2, <1>3
<1>5. \A j \in 1..Len(list) : j \in 1..Len(u) /\ down[j] = row[j] /\ across[j] = col[j]
  BY <1>2, <1>3
<1>6. \A j \in 1..Len(u) : j \notin 1..Len(list) =>
        /\ down[j] = n + 1 /\ across[j] = j - Len(list) /\ across[j] \in 1..Len(t)
        /\ j = Len(list) + across[j]
  BY <1>3
<1>7. \A x \in 1..Len(t) : Len(list) + x \in 1..Len(u) /\ Len(list) + x \notin 1..Len(list)
  BY <1>3
<1> HIDE DEF down, across
<1>8. ASSUME NEW j \in 1..Len(u)
      PROVE  down[j] \in 1..(n + 1) /\ across[j] \in DOMAIN s[down[j]] /\ u[j] = s[down[j]][across[j]]
  <2>1. CASE j \in 1..Len(list)
    BY <1>2, <1>3, <1>5, <2>1
  <2>2. CASE j \notin 1..Len(list)
    <3>1. down[j] = n + 1 /\ s[down[j]] = t /\ across[j] \in DOMAIN t /\ u[j] = t[across[j]]
      BY <1>3, <1>6, <2>2 DEF t
    <3> QED BY <3>1
  <2> QED BY <2>1, <2>2
<1>9. ASSUME NEW j \in 1..Len(u), NEW k \in 1..Len(u), j < k
      PROVE  down[j] < down[k] \/ (down[j] = down[k] /\ across[j] < across[k])
  <2>1. CASE k \in 1..Len(list)
    BY <1>2, <1>5, <1>9, <2>1
  <2>2. CASE k \notin 1..Len(list) /\ j \in 1..Len(list)
    BY <1>2, <1>5, <1>6, <2>2
  <2>3. CASE k \notin 1..Len(list) /\ j \notin 1..Len(list)
    BY <1>3, <1>6, <1>9, <2>3
  <2> QED BY <2>1, <2>2, <2>3
<1>10. ASSUME NEW i \in 1..(n + 1), NEW x \in DOMAIN s[i]
       PROVE  \E j \in 1..Len(u) : down[j] = i /\ across[j] = x
  <2>1. CASE i = n + 1
    <3>1. x \in 1..Len(t) /\ Len(list) + x \in 1..Len(u)
      BY <1>3, <1>7, <2>1 DEF t
    <3>2. down[Len(list) + x] = i /\ across[Len(list) + x] = x
      BY <1>3, <1>6, <1>7, <2>1, <3>1
    <3> QED BY <3>1, <3>2
  <2>2. CASE i # n + 1
    <3>1. i \in 1..n
      BY <2>2
    <3>2. PICK j \in 1..Len(list) : row[j] = i /\ col[j] = x
      BY <1>2, <3>1
    <3> QED BY <1>5, <3>2
  <2> QED BY <2>1, <2>2
<1>11. Places(down, across, u, s, n + 1)
  BY <1>8, <1>9, <1>10
<1> HIDE DEF Places
<1>12. LaidOut(u, s, n + 1)
  BY <1>4, <1>11 DEF LaidOut
<1> QED BY <1>12 DEF u, t

\* What has been put together of the first n parts.
LEMMA Flattened ==
  ASSUME NEW D, NEW s, NEW n \in Nat, \A i \in 1..n : s[i] \in Seq(D),
         NEW f, IsFlattening(f, s, n)
  PROVE  \A i \in 1..n : f[i] \in Seq(D) /\ LaidOut(f[i], s, i)
<1>1. \A i \in 1..n : f[i] = IF i = 1 THEN s[i] ELSE f[i - 1] \o s[i]
  BY DEF IsFlattening
<1> DEFINE Good(i) == f[i] \in Seq(D) /\ LaidOut(f[i], s, i)
           Bad == {i \in 1..n : ~Good(i)}
<1>2. SUFFICES ASSUME Bad # {} PROVE FALSE
  OBVIOUS
<1>3. PICK i \in Bad : \A j \in Bad : i <= j
  <2>1. Bad \in SUBSET Nat
    OBVIOUS
  <2> HIDE DEF Bad
  <2> QED BY <1>2, <2>1, NatMinimum
<1>4. i \in 1..n /\ s[i] \in Seq(D) /\ ~Good(i)
  OBVIOUS
<1>5. CASE i = 1
  <2>1. f[1] = s[1] /\ s[1] \in Seq(D) /\ Len(s[1]) \in Nat /\ DOMAIN s[1] = 1..Len(s[1])
    BY <1>1, <1>4, <1>5
  <2> DEFINE row == [j \in 1..Len(s[1]) |-> 1]
             col == [j \in 1..Len(s[1]) |-> j]
  <2>2. row \in [1..Len(s[1]) -> Nat] /\ col \in [1..Len(s[1]) -> Nat]
    BY <2>1
  <2>3. \A j \in 1..Len(s[1]) : row[j] = 1 /\ col[j] = j
    OBVIOUS
  <2> HIDE DEF row, col
  <2>4. LaidOut(s[1], s, 1)
    <3>1. \A j \in 1..Len(s[1]) :
            row[j] \in 1..1 /\ col[j] \in DOMAIN s[row[j]] /\ s[1][j] = s[row[j]][col[j]]
      BY <2>1, <2>3
    <3>2. \A j, k \in 1..Len(s[1]) : j < k => row[j] < row[k] \/ (row[j] = row[k] /\ col[j] < col[k])
      BY <2>3
    <3>3. \A b \in 1..1 : \A x \in DOMAIN s[b] : \E j \in 1..Len(s[1]) : row[j] = b /\ col[j] = x
      BY <2>1, <2>3
    <3>4. Places(row, col, s[1], s, 1)
      BY <3>1, <3>2, <3>3 DEF Places
    <3> QED BY <2>2, <3>4 DEF LaidOut
  <2> QED BY <1>4, <1>5, <2>1, <2>4
<1>6. CASE i # 1
  <2> DEFINE j == i - 1
  <2>1. j \in 1..n /\ j \in Nat /\ j + 1 = i /\ ~(i <= j)
    BY <1>4, <1>6
  <2> HIDE DEF j
  <2>2. Good(j)
    <3>1. j \notin Bad
      <4> HIDE DEF Bad
      <4> QED BY <1>3, <2>1
    <3> QED BY <2>1, <3>1
  <2>3. f[i] = f[j] \o s[j + 1] /\ s[j + 1] \in Seq(D)
    BY <1>1, <1>4, <1>6, <2>1 DEF j
  <2>4. f[i] \in Seq(D)
    BY <2>2, <2>3
  <2>5. LaidOut(f[j] \o s[j + 1], s, j + 1)
    BY <2>1, <2>2, <2>3, LaidOutAppended
  <2> QED BY <1>4, <2>1, <2>3, <2>4, <2>5
<1> QED BY <1>5, <1>6

\* FlattenSeq is the last of them.
LEMMA FlattenSeqIs ==
  ASSUME NEW s, NEW n \in Nat \ {0}, s = [i \in 1..n |-> s[i]], NEW f, IsFlattening(f, s, n)
  PROVE  FlattenSeq(s) = f[n]
<1>1. DOMAIN s = 1..n /\ Len(s) = n
  OBVIOUS
<1> DEFINE flatten[i \in 1..Len(s)] == IF i = 1 THEN s[i] ELSE flatten[i - 1] \o s[i]
<1>2. flatten = [i \in 1..Len(s) |-> IF i = 1 THEN s[i] ELSE flatten[i - 1] \o s[i]]
  <2>1. f = [i \in 1..Len(s) |-> IF i = 1 THEN s[i] ELSE f[i - 1] \o s[i]]
    BY <1>1 DEF IsFlattening
  <2> QED BY <2>1 DEF flatten
<1>3. FlattenSeq(s) = flatten[Len(s)]
  BY <1>1 DEF FlattenSeq
<1> HIDE DEF flatten
<1>4. IsFlattening(flatten, s, n)
  BY <1>1, <1>2 DEF IsFlattening
<1> QED BY <1>1, <1>3, <1>4, FlatteningUnique

LEMMA FlattenSeqLaidOut ==
  ASSUME NEW D, NEW s, NEW n \in Nat, s = [i \in 1..n |-> s[i]], \A i \in 1..n : s[i] \in Seq(D)
  PROVE  FlattenSeq(s) \in Seq(D) /\ LaidOut(FlattenSeq(s), s, n)
<1>1. DOMAIN s = 1..n /\ Len(s) = n
  OBVIOUS
<1>2. CASE n = 0
  <2>1. s = <<>>
    BY <1>2
  <2>2. FlattenSeq(s) = <<>>
    BY <1>1, <1>2, <2>1 DEF FlattenSeq
  <2> DEFINE e == FlattenSeq(s)
  <2>3. Len(e) = 0 /\ e \in Seq(D)
    BY <2>2
  <2> HIDE DEF e
  <2> DEFINE none == [j \in 1..0 |-> 0]
  <2>4. none \in [1..0 -> Nat] /\ 1..0 = {} /\ 1..n = {}
    BY <1>2
  <2>5. LaidOut(e, s, n)
    BY <2>3, <2>4 DEF LaidOut, Places
  <2> QED BY <2>3, <2>5 DEF e
<1>3. CASE n # 0
  <2>1. PICK f : IsFlattening(f, s, n)
    BY FlatteningExists
  <2>2. FlattenSeq(s) = f[n]
    BY <1>3, <2>1, FlattenSeqIs
  <2>3. \A i \in 1..n : f[i] \in Seq(D) /\ LaidOut(f[i], s, i)
    BY <2>1, Flattened
  <2> QED BY <1>3, <2>2, <2>3
<1> QED BY <1>2, <1>3

-----------------------------------------------------------------------------
(* The nodes of the tree.                                                   *)

LEMMA Initial ==
  ASSUME NEW p \in Seq(Name), NEW i \in 0..Len(p)
  PROVE  /\ SubSeq(p, 1, i) \in Seq(Name) /\ Len(SubSeq(p, 1, i)) = i
         /\ i = 0 => SubSeq(p, 1, i) = <<>>
         /\ i < Len(p) => p[i + 1] \in Name /\ Append(SubSeq(p, 1, i), p[i + 1]) = SubSeq(p, 1, i + 1)
         /\ i > 0 => Parent(SubSeq(p, 1, i)) = SubSeq(p, 1, i - 1) /\ SubSeq(p, 1, i)[i] = p[i]
         /\ i = Len(p) => SubSeq(p, 1, i) = p
<1>1. /\ SubSeq(p, 1, i) \in Seq(Name) /\ Len(SubSeq(p, 1, i)) = i /\ Len(p) \in Nat
      /\ \A k \in 1..i : SubSeq(p, 1, i)[k] = p[k]
  OBVIOUS
<1>2. i = 0 => SubSeq(p, 1, i) = <<>>
  BY <1>1
<1>3. ASSUME i < Len(p) PROVE p[i + 1] \in Name /\ Append(SubSeq(p, 1, i), p[i + 1]) = SubSeq(p, 1, i + 1)
  <2>1. p[i + 1] \in Name
    BY <1>3
  <2> DEFINE s == Append(SubSeq(p, 1, i), p[i + 1])
             r == SubSeq(p, 1, i + 1)
  <2>2. s \in Seq(Name) /\ Len(s) = i + 1 /\ s[i + 1] = p[i + 1] /\ \A k \in 1..i : s[k] = p[k]
    BY <1>1, <2>1
  <2>3. r \in Seq(Name) /\ Len(r) = i + 1 /\ \A k \in 1..(i + 1) : r[k] = p[k]
    BY <1>3
  <2> HIDE DEF s, r
  <2>4. \A k \in 1..(i + 1) : s[k] = r[k]
    BY <2>2, <2>3
  <2>5. s = r
    BY <2>2, <2>3, <2>4
  <2> QED BY <2>1, <2>5 DEF s, r
<1>4. ASSUME i > 0 PROVE Parent(SubSeq(p, 1, i)) = SubSeq(p, 1, i - 1) /\ SubSeq(p, 1, i)[i] = p[i]
  <2> DEFINE s == SubSeq(SubSeq(p, 1, i), 1, i - 1)
             r == SubSeq(p, 1, i - 1)
  <2>1. s \in Seq(Name) /\ Len(s) = i - 1 /\ \A k \in 1..(i - 1) : s[k] = p[k]
    BY <1>1, <1>4
  <2>2. r \in Seq(Name) /\ Len(r) = i - 1 /\ \A k \in 1..(i - 1) : r[k] = p[k]
    BY <1>1, <1>4
  <2>3. Parent(SubSeq(p, 1, i)) = s
    BY <1>1 DEF Parent
  <2> HIDE DEF s, r
  <2>4. s = r
    BY <2>1, <2>2
  <2> QED BY <1>1, <1>4, <2>3, <2>4 DEF r
<1>5. i = Len(p) => SubSeq(p, 1, i) = p
  BY <1>1
<1> QED BY <1>1, <1>2, <1>3, <1>4, <1>5

LEMMA ChildOf ==
  ASSUME NEW p \in Seq(Name), NEW name \in Name
  PROVE  /\ Append(p, name) \in Seq(Name) /\ Append(p, name) # <<>>
         /\ Len(Append(p, name)) = Len(p) + 1
         /\ Parent(Append(p, name)) = p /\ Append(p, name)[Len(p) + 1] = name
<1> DEFINE q == Append(p, name)
<1>1. q \in Seq(Name) /\ Len(q) = Len(p) + 1 /\ q[Len(p) + 1] = name /\ \A k \in 1..Len(p) : q[k] = p[k]
  OBVIOUS
<1> HIDE DEF q
<1>2. q # <<>>
  BY <1>1
<1>3. SubSeq(q, 1, Len(p)) \in Seq(Name) /\ Len(SubSeq(q, 1, Len(p))) = Len(p)
      /\ \A k \in 1..Len(p) : SubSeq(q, 1, Len(p))[k] = p[k]
  BY <1>1
<1>4. SubSeq(q, 1, Len(p)) = p
  BY <1>3
<1>5. Len(q) - 1 = Len(p)
  BY <1>1
<1>6. Parent(q) = p
  BY <1>4, <1>5 DEF Parent
<1> QED BY <1>1, <1>2, <1>6 DEF q

LEMMA ParentOf ==
  ASSUME NEW p \in Seq(Name), p # <<>>
  PROVE  /\ Parent(p) \in Seq(Name) /\ Len(Parent(p)) = Len(p) - 1 /\ Len(p) \in Nat \ {0}
         /\ p[Len(p)] \in Name /\ Append(Parent(p), p[Len(p)]) = p
<1>1. Len(p) \in Nat \ {0} /\ p[Len(p)] \in Name
  OBVIOUS
<1> DEFINE i == Len(p) - 1
<1>2. i \in 0..Len(p) /\ i < Len(p) /\ i + 1 = Len(p)
  BY <1>1
<1>3. SubSeq(p, 1, Len(p)) = p
  OBVIOUS
<1>4. Parent(p) = SubSeq(p, 1, i)
  BY DEF Parent
<1> HIDE DEF i
<1> QED BY <1>1, <1>2, <1>3, <1>4, Initial

\* Each name below a node is listed once, and leads to a node; each node is listed.
KeysShape(keys) ==
  /\ DOMAIN keys \subseteq Seq(Name) /\ <<>> \in DOMAIN keys
  /\ \E b \in Nat : \A node \in DOMAIN keys : Len(node) <= b
  /\ \A node \in DOMAIN keys :
       /\ keys[node] \in Seq(Name)
       /\ \A j, k \in DOMAIN keys[node] : keys[node][j] = keys[node][k] => j = k
       /\ \A k \in DOMAIN keys[node] : Append(node, keys[node][k]) \in DOMAIN keys
  /\ \A node \in DOMAIN keys : node # <<>> =>
       Parent(node) \in DOMAIN keys /\ node[Len(node)] \in Range(keys[Parent(node)])

LEMMA GrownShape ==
  ASSUME NEW keys, KeysShape(keys), NEW path \in Path
  PROVE  /\ KeysShape(Grown(keys, path))
         /\ path \in DOMAIN Grown(keys, path) /\ DOMAIN keys \subseteq DOMAIN Grown(keys, path)
<1> DEFINE grown == Grown(keys, path)
           below(node) == IF node \in DOMAIN keys THEN keys[node] ELSE <<>>
<1>1. path \in Seq(Name) /\ path # <<>> /\ Len(path) \in Nat \ {0} /\ \A i \in 1..Len(path) : path[i] \in Name
  BY DEF Path
<1>2. /\ DOMAIN grown = DOMAIN keys \cup Above(path) \cup {path}
      /\ \A node \in DOMAIN grown :
           grown[node] = IF node \in Above(path) /\ path[Len(node) + 1] \notin Range(below(node))
                         THEN Append(below(node), path[Len(node) + 1]) ELSE below(node)
  BY DEF Grown
<1> HIDE DEF grown
<1>3. ASSUME NEW node \in Above(path)
      PROVE  /\ node \in Seq(Name) /\ Len(node) \in Nat /\ Len(node) < Len(path)
             /\ node = SubSeq(path, 1, Len(node)) /\ path[Len(node) + 1] \in Name
             /\ Append(node, path[Len(node) + 1]) \in DOMAIN grown
             /\ node # <<>> => Parent(node) \in Above(path) /\ node[Len(node)] = path[Len(node)]
  <2>1. PICK i \in 0..(Len(path) - 1) : node = SubSeq(path, 1, i)
    BY DEF Above
  <2>2. i \in 0..Len(path) /\ i < Len(path) /\ i + 1 \in 0..Len(path)
    BY <1>1, <2>1
  <2>3. /\ node \in Seq(Name) /\ Len(node) = i /\ path[i + 1] \in Name
        /\ Append(node, path[i + 1]) = SubSeq(path, 1, i + 1)
        /\ i > 0 => Parent(node) = SubSeq(path, 1, i - 1) /\ node[i] = path[i]
    BY <1>1, <2>1, <2>2, Initial
  <2>4. SubSeq(path, 1, i + 1) \in DOMAIN grown
    <3>1. CASE i + 1 = Len(path)
      BY <1>1, <1>2, <2>2, <3>1, Initial
    <3>2. CASE i + 1 # Len(path)
      <4>1. i + 1 \in 0..(Len(path) - 1)
        BY <1>1, <2>2, <3>2
      <4> QED BY <1>2, <4>1 DEF Above
    <3> QED BY <3>1, <3>2
  <2>5. ASSUME node # <<>> PROVE Parent(node) \in Above(path) /\ node[i] = path[i]
    <3>1. i > 0
      BY <1>1, <2>1, <2>2, <2>5, Initial
    <3>2. i - 1 \in 0..(Len(path) - 1)
      BY <2>1, <3>1
    <3> QED BY <2>3, <3>1, <3>2 DEF Above
  <2>6. i = Len(node) /\ i \in Nat /\ i < Len(path)
    BY <2>2, <2>3
  <2>7. node = SubSeq(path, 1, Len(node))
    BY <2>1, <2>6
  <2>8. Append(node, path[Len(node) + 1]) \in DOMAIN grown
    BY <2>3, <2>4, <2>6
  <2> QED BY <2>3, <2>5, <2>6, <2>7, <2>8
<1>4. \A node \in DOMAIN grown : below(node) \in Seq(Name)
  BY DEF KeysShape
<1>5. ASSUME NEW node \in DOMAIN keys PROVE \A k \in DOMAIN keys[node] : Append(node, keys[node][k]) \in DOMAIN grown
  BY <1>2 DEF KeysShape
<1>6. ASSUME NEW node \in DOMAIN grown
      PROVE  /\ grown[node] \in Seq(Name)
             /\ \A j, k \in DOMAIN grown[node] : grown[node][j] = grown[node][k] => j = k
             /\ \A k \in DOMAIN grown[node] : Append(node, grown[node][k]) \in DOMAIN grown
             /\ Range(below(node)) \subseteq Range(grown[node])
             /\ node \in Above(path) => path[Len(node) + 1] \in Range(grown[node])
  <2> DEFINE old == below(node)
  <2>1. /\ old \in Seq(Name) /\ Len(old) \in Nat /\ DOMAIN old = 1..Len(old)
        /\ \A j, k \in DOMAIN old : old[j] = old[k] => j = k
        /\ \A k \in DOMAIN old : Append(node, old[k]) \in DOMAIN grown
    <3>1. CASE node \in DOMAIN keys
      BY <1>4, <1>5, <3>1 DEF KeysShape
    <3>2. CASE node \notin DOMAIN keys
      <4>1. old = <<>>
        BY <3>2
      <4> HIDE DEF old
      <4>2. old \in Seq(Name) /\ Len(old) = 0 /\ DOMAIN old = {} /\ 1..0 = {}
        BY <4>1
      <4> QED BY <4>2
    <3> QED BY <3>1, <3>2
  <2>2. grown[node] = IF node \in Above(path) /\ path[Len(node) + 1] \notin Range(old)
                      THEN Append(old, path[Len(node) + 1]) ELSE old
    BY <1>2
  <2> HIDE DEF old
  <2>3. CASE node \in Above(path) /\ path[Len(node) + 1] \notin Range(old)
    <3>1. PICK name \in Name : name = path[Len(node) + 1]
      BY <1>3, <2>3
    <3> DEFINE new == Append(old, name)
    <3>9. grown[node] = new
      BY <2>2, <2>3, <3>1
    <3>2. /\ new \in Seq(Name) /\ Len(new) = Len(old) + 1 /\ DOMAIN new = 1..(Len(old) + 1)
          /\ new[Len(old) + 1] = name /\ \A k \in 1..Len(old) : new[k] = old[k]
      BY <2>1, Appended
    <3> HIDE DEF new
    <3>3. \A k \in DOMAIN old : old[k] # name
      BY <2>3, <3>1 DEF Range
    <3>4. \A k \in DOMAIN new : k \in DOMAIN old \/ k = Len(old) + 1
      BY <2>1, <3>2
    <3>5. \A j, k \in DOMAIN new : new[j] = new[k] => j = k
      BY <2>1, <3>2, <3>3, <3>4
    <3>6. Append(node, name) \in DOMAIN grown
      BY <1>3, <2>3, <3>1
    <3>7. \A k \in DOMAIN new : Append(node, new[k]) \in DOMAIN grown
      BY <2>1, <3>2, <3>4, <3>6
    <3>8. Range(old) \subseteq Range(new) /\ name \in Range(new)
      <4>1. \A k \in DOMAIN old : k \in DOMAIN new /\ new[k] = old[k]
        BY <2>1, <3>2
      <4>2. Len(old) + 1 \in DOMAIN new
        BY <2>1, <3>2
      <4> QED BY <3>2, <4>1, <4>2 DEF Range
    <3> QED BY <3>1, <3>2, <3>5, <3>7, <3>8, <3>9 DEF old
  <2>4. CASE ~(node \in Above(path) /\ path[Len(node) + 1] \notin Range(old))
    <3>1. grown[node] = old
      BY <2>2, <2>4
    <3> QED BY <2>1, <2>4, <3>1 DEF old
  <2> QED BY <2>3, <2>4
<1>7. ASSUME NEW node \in DOMAIN grown, node # <<>>
      PROVE  Parent(node) \in DOMAIN grown /\ node[Len(node)] \in Range(grown[Parent(node)])
  <2>1. CASE node \in Above(path)
    <3>1. /\ Parent(node) \in Above(path) /\ node[Len(node)] = path[Len(node)]
          /\ node \in Seq(Name)
      BY <1>3, <1>7, <2>1
    <3>2. Len(Parent(node)) = Len(node) - 1 /\ Len(node) \in Nat
      BY <1>7, <3>1, ParentOf
    <3>3. Len(Parent(node)) + 1 = Len(node)
      BY <3>2
    <3> QED BY <1>2, <1>6, <3>1, <3>3
  <2>2. CASE node = path
    <3>1. Parent(path) \in Above(path)
      <4>1. Len(path) - 1 \in 0..(Len(path) - 1)
        BY <1>1
      <4> QED BY <4>1 DEF Above, Parent
    <3>2. Len(Parent(path)) = Len(path) - 1 /\ Len(path) \in Nat
      BY <1>1, ParentOf
    <3>3. Len(Parent(path)) + 1 = Len(path)
      BY <3>2
    <3> QED BY <1>2, <1>6, <2>2, <3>1, <3>3
  <2>3. CASE node \in DOMAIN keys
    <3>1. Parent(node) \in DOMAIN keys /\ node[Len(node)] \in Range(keys[Parent(node)])
      BY <1>7, <2>3 DEF KeysShape
    <3>2. Parent(node) \in DOMAIN grown /\ below(Parent(node)) = keys[Parent(node)]
      BY <1>2, <3>1
    <3> QED BY <1>6, <3>1, <3>2
  <2> QED BY <1>2, <2>1, <2>2, <2>3
<1>8. \E b \in Nat : \A node \in DOMAIN grown : Len(node) <= b
  <2>1. PICK b \in Nat : \A node \in DOMAIN keys : Len(node) <= b
    BY DEF KeysShape
  <2>2. \A node \in DOMAIN grown : Len(node) <= b + Len(path)
    <3> TAKE node \in DOMAIN grown
    <3>1. CASE node \in DOMAIN keys
      <4>1. Len(node) \in Nat
        BY <3>1 DEF KeysShape
      <4> QED BY <1>1, <2>1, <3>1, <4>1
    <3>2. CASE node \in Above(path) \cup {path}
      BY <1>1, <1>3, <3>2
    <3> QED BY <1>2, <3>1, <3>2
  <2>3. b + Len(path) \in Nat
    BY <1>1
  <2> QED BY <2>2, <2>3
<1>9. DOMAIN grown \subseteq Seq(Name) /\ <<>> \in DOMAIN grown
  BY <1>1, <1>2, <1>3 DEF KeysShape
<1>10. KeysShape(grown)
  BY <1>6, <1>7, <1>8, <1>9 DEF KeysShape
<1> QED BY <1>2, <1>10 DEF grown

-----------------------------------------------------------------------------
(* What has been said of a path.                                            *)

Shape(t) ==
  /\ KeysShape(t.keys)
  /\ \A p \in DOMAIN t.header :
       /\ p \in DOMAIN t.keys /\ p \in Path
       /\ t.header[p] \in TarHeader /\ t.header[p].path = p /\ t.header[p].kind \in {"dir", "symlink"}

\* The header of a path is the first link of that path in a sequence, or a directory.
SaidOf(header, p, s) ==
  \E k \in DOMAIN s :
    /\ s[k].path = p /\ s[k].kind = header[p].kind /\ s[k].to = header[p].to
    /\ \A j \in DOMAIN s : s[j].path = p /\ s[j].kind = "symlink" => header[p].kind = "symlink" /\ k <= j
SaidBy(header, s) ==
  /\ \A p \in DOMAIN header : SaidOf(header, p, s)
  /\ \A k \in DOMAIN s : s[k].kind \in {"dir", "symlink"} => s[k].path \in DOMAIN header

LEMMA AddKeeps ==
  ASSUME NEW t, Shape(t), NEW D, NEW s \in Seq(D), SaidBy(t.header, s),
         NEW e \in D, NEW h \in TarHeader, h.path = e.path, h.kind = e.kind, h.to = e.to
  PROVE  Shape(Add(t, h)) /\ SaidBy(Add(t, h).header, Append(s, e))
<1> DEFINE u == Append(s, e)
<1>1. /\ u \in Seq(D) /\ Len(s) \in Nat /\ DOMAIN s = 1..Len(s) /\ DOMAIN u = 1..(Len(s) + 1)
      /\ u[Len(s) + 1] = e /\ \A k \in 1..Len(s) : u[k] = s[k]
  BY Appended
<1> HIDE DEF u
<1>2. \A k \in DOMAIN u : k \in DOMAIN s \/ k = Len(s) + 1
  BY <1>1
<1>3. \A k \in DOMAIN s : k \in DOMAIN u /\ u[k] = s[k] /\ k <= Len(s) + 1
  BY <1>1
<1>4. Len(s) + 1 \in DOMAIN u
  BY <1>1
\* What has been said of other paths, or of a path that keeps its header.
<1>5. ASSUME NEW p, SaidOf(t.header, p, s),
             e.kind # "symlink" \/ e.path # p \/ t.header[p].kind = "symlink"
      PROVE  SaidOf(t.header, p, u)
  <2>1. PICK k \in DOMAIN s :
          /\ s[k].path = p /\ s[k].kind = t.header[p].kind /\ s[k].to = t.header[p].to
          /\ \A j \in DOMAIN s : s[j].path = p /\ s[j].kind = "symlink" => t.header[p].kind = "symlink" /\ k <= j
    BY <1>5 DEF SaidOf
  <2>2. k \in DOMAIN u /\ u[k] = s[k] /\ k <= Len(s) + 1
    BY <1>3
  <2>3. \A j \in DOMAIN u : u[j].path = p /\ u[j].kind = "symlink" => t.header[p].kind = "symlink" /\ k <= j
    BY <1>1, <1>2, <1>3, <1>5, <2>1, <2>2
  <2> QED BY <2>1, <2>2, <2>3 DEF SaidOf
<1>6. CASE h.kind \notin {"dir", "symlink"}
  <2>1. Add(t, h) = t
    BY <1>6 DEF Add
  <2>2. \A p \in DOMAIN t.header : SaidOf(t.header, p, u)
    BY <1>5, <1>6 DEF SaidBy
  <2>3. \A k \in DOMAIN u : u[k].kind \in {"dir", "symlink"} => u[k].path \in DOMAIN t.header
    BY <1>1, <1>2, <1>3, <1>6 DEF SaidBy
  <2> QED BY <2>1, <2>2, <2>3 DEF SaidBy, u
<1>7. CASE h.kind \in {"dir", "symlink"}
  <2> DEFINE kept == h.path \in DOMAIN t.header /\ t.header[h.path].kind # "dir"
             keys == Grown(t.keys, h.path)
             header == IF kept THEN t.header ELSE With(t.header, h.path, h)
  <2>1. Add(t, h) = [keys |-> keys, header |-> header]
    BY <1>7 DEF Add
  <2>2. h.path \in Path
    BY DEF TarHeader
  <2>3. KeysShape(keys) /\ h.path \in DOMAIN keys /\ DOMAIN t.keys \subseteq DOMAIN keys
    BY <2>2, GrownShape DEF Shape
  <2>4. /\ DOMAIN header = DOMAIN t.header \cup {h.path}
        /\ ~kept => header[h.path] = h
        /\ \A p \in DOMAIN t.header : kept \/ p # h.path => header[p] = t.header[p]
    BY DEF With
  <2> HIDE DEF keys, header
  <2>5. Shape([keys |-> keys, header |-> header])
    <3> SUFFICES ASSUME NEW p \in DOMAIN header
                 PROVE  /\ p \in DOMAIN keys /\ p \in Path
                        /\ header[p] \in TarHeader /\ header[p].path = p
                        /\ header[p].kind \in {"dir", "symlink"}
      BY <2>3 DEF Shape
    <3>1. CASE p \in DOMAIN t.header /\ (kept \/ p # h.path)
      BY <2>3, <2>4, <3>1 DEF Shape
    <3>2. CASE p = h.path /\ ~kept
      BY <1>7, <2>2, <2>3, <2>4, <3>2
    <3> QED BY <2>4, <3>1, <3>2
  <2>6. ASSUME NEW p \in DOMAIN header PROVE SaidOf(header, p, u)
    <3>1. CASE p \in DOMAIN t.header /\ (kept \/ p # h.path)
      <4>1. SaidOf(t.header, p, s)
        BY <3>1 DEF SaidBy
      <4>2. e.kind # "symlink" \/ e.path # p \/ t.header[p].kind = "symlink"
        BY <3>1 DEF Shape
      <4>3. SaidOf(t.header, p, u)
        BY <1>5, <4>1, <4>2
      <4> QED BY <2>4, <3>1, <4>3 DEF SaidOf
    <3>2. CASE p = h.path /\ ~kept
      <4>1. header[p] = h
        BY <2>4, <3>2
      <4>2. ASSUME NEW j \in DOMAIN u, u[j].path = p, u[j].kind = "symlink"
            PROVE  h.kind = "symlink" /\ Len(s) + 1 <= j
        <5>1. j \notin DOMAIN s
          <6> SUFFICES ASSUME j \in DOMAIN s PROVE FALSE
            OBVIOUS
          <6>1. s[j].path = p /\ s[j].kind = "symlink" /\ p \in DOMAIN t.header
            BY <1>3, <4>2 DEF SaidBy
          <6>2. SaidOf(t.header, p, s)
            BY <6>1 DEF SaidBy
          <6>3. t.header[p].kind = "symlink"
            BY <6>1, <6>2 DEF SaidOf
          <6> QED BY <3>2, <6>1, <6>3
        <5>2. j = Len(s) + 1
          BY <1>2, <5>1
        <5> QED BY <1>1, <4>2, <5>2
      <4> QED BY <1>1, <1>4, <3>2, <4>1, <4>2 DEF SaidOf
    <3> QED BY <2>4, <3>1, <3>2
  <2>7. \A k \in DOMAIN u : u[k].kind \in {"dir", "symlink"} => u[k].path \in DOMAIN header
    BY <1>1, <1>2, <1>3, <2>4 DEF SaidBy
  <2> QED BY <2>1, <2>5, <2>6, <2>7 DEF SaidBy, u
<1> QED BY <1>6, <1>7

\* The headers of an RPM come one after the other.
IsAdding(f, t, hs, n) == f = [k \in 0..n |-> IF k = 0 THEN t ELSE Add(f[k - 1], hs[k])]

LEMMA AddingExists ==
  ASSUME NEW t, NEW hs, NEW n \in Nat
  PROVE  \E f : IsAdding(f, t, hs, n)
<1> DEFINE Bad == {m \in Nat : ~\E f : IsAdding(f, t, hs, m)}
<1>1. SUFFICES ASSUME Bad # {} PROVE FALSE
  OBVIOUS
<1>2. PICK m \in Bad : \A i \in Bad : m <= i
  <2>1. Bad \in SUBSET Nat
    OBVIOUS
  <2> HIDE DEF Bad
  <2> QED BY <1>1, <2>1, NatMinimum
<1>3. m \in Nat /\ ~\E f : IsAdding(f, t, hs, m)
  OBVIOUS
<1>4. CASE m = 0
  <2> DEFINE f == [k \in 0..m |-> t]
  <2>1. IsAdding(f, t, hs, m)
    BY <1>4 DEF IsAdding
  <2> QED BY <1>3, <2>1
<1>5. CASE m # 0
  <2>1. m - 1 \in Nat /\ m - 1 \notin Bad
    <3>1. m - 1 \in Nat /\ ~(m <= m - 1)
      BY <1>3, <1>5
    <3> HIDE DEF Bad
    <3> QED BY <1>2, <3>1
  <2>2. PICK f : IsAdding(f, t, hs, m - 1)
    BY <2>1
  <2> DEFINE g == [k \in 0..m |-> IF k = m THEN Add(f[m - 1], hs[m]) ELSE f[k]]
  <2>3. \A k \in 0..m : g[k] = IF k = 0 THEN t ELSE Add(g[k - 1], hs[k])
    <3> TAKE k \in 0..m
    <3>1. CASE k = m
      BY <1>5, <2>1, <3>1
    <3>2. CASE k # m
      <4>1. k \in 0..(m - 1) /\ g[k] = f[k] /\ (k # 0 => g[k - 1] = f[k - 1])
        BY <2>1, <3>2
      <4>2. f[k] = IF k = 0 THEN t ELSE Add(f[k - 1], hs[k])
        BY <2>2, <4>1 DEF IsAdding
      <4> QED BY <4>1, <4>2
    <3> QED BY <3>1, <3>2
  <2>4. g = [k \in 0..m |-> g[k]]
    OBVIOUS
  <2> HIDE DEF g
  <2>5. IsAdding(g, t, hs, m)
    BY <2>3, <2>4 DEF IsAdding
  <2> QED BY <1>3, <2>5
<1> QED BY <1>4, <1>5

LEMMA AddAllKeeps ==
  ASSUME NEW t, Shape(t), NEW D, NEW s \in Seq(D), SaidBy(t.header, s),
         NEW hs \in Seq(TarHeader), NEW es \in Seq(D), Len(hs) = Len(es),
         \A k \in DOMAIN es : hs[k].path = es[k].path /\ hs[k].kind = es[k].kind /\ hs[k].to = es[k].to
  PROVE  Shape(AddAll(t, hs)) /\ SaidBy(AddAll(t, hs).header, s \o es)
<1> DEFINE n == Len(hs)
           added[k \in 0..Len(hs)] == IF k = 0 THEN t ELSE Add(added[k - 1], hs[k])
<1>1. n \in Nat /\ DOMAIN hs = 1..n /\ DOMAIN es = 1..n /\ Len(s) \in Nat
  OBVIOUS
<1>2. added = [k \in 0..Len(hs) |-> IF k = 0 THEN t ELSE Add(added[k - 1], hs[k])]
  <2>1. PICK f : IsAdding(f, t, hs, n)
    BY <1>1, AddingExists
  <2>2. f = [k \in 0..Len(hs) |-> IF k = 0 THEN t ELSE Add(f[k - 1], hs[k])]
    BY <2>1 DEF IsAdding
  <2> QED BY <2>2 DEF added
<1>3. AddAll(t, hs) = added[n]
  BY DEF AddAll
<1> HIDE DEF added
<1>4. \A k \in 0..n : added[k] = IF k = 0 THEN t ELSE Add(added[k - 1], hs[k])
  BY <1>2
<1> DEFINE so(k) == s \o SubSeq(es, 1, k)
<1>5. so(0) = s /\ so(n) = s \o es
  BY <1>1
<1>6. ASSUME NEW k \in 1..n PROVE so(k - 1) \in Seq(D) /\ so(k) = Append(so(k - 1), es[k])
  <2> DEFINE a == SubSeq(es, 1, k - 1)
             b == SubSeq(es, 1, k)
  <2>1. a \in Seq(D) /\ Len(a) = k - 1 /\ \A i \in 1..(k - 1) : a[i] = es[i]
    BY <1>1
  <2>2. b \in Seq(D) /\ Len(b) = k /\ \A i \in 1..k : b[i] = es[i]
    BY <1>1
  <2>3. es[k] \in D
    BY <1>1
  <2> HIDE DEF a, b
  <2>4. /\ s \o a \in Seq(D) /\ Len(s \o a) = Len(s) + k - 1
        /\ \A i \in 1..Len(s) : (s \o a)[i] = s[i]
        /\ \A i \in 1..(k - 1) : (s \o a)[Len(s) + i] = es[i]
    <3>1. /\ s \o a \in Seq(D) /\ Len(s \o a) = Len(s) + Len(a) /\ Len(s) \in Nat
          /\ \A i \in 1..Len(s) : (s \o a)[i] = s[i]
          /\ \A i \in 1..Len(a) : (s \o a)[Len(s) + i] = a[i]
      <4>1. a \in Seq(D)
        BY <2>1
      <4> QED BY <4>1, Concatenated
    <3>2. k \in Nat
      BY <1>1
    <3> QED BY <2>1, <3>1, <3>2
  <2>5. /\ s \o b \in Seq(D) /\ Len(s \o b) = Len(s) + k
        /\ \A i \in 1..Len(s) : (s \o b)[i] = s[i]
        /\ \A i \in 1..k : (s \o b)[Len(s) + i] = es[i]
    <3>1. /\ s \o b \in Seq(D) /\ Len(s \o b) = Len(s) + Len(b) /\ Len(s) \in Nat
          /\ \A i \in 1..Len(s) : (s \o b)[i] = s[i]
          /\ \A i \in 1..Len(b) : (s \o b)[Len(s) + i] = b[i]
      <4>1. b \in Seq(D)
        BY <2>2
      <4> QED BY <4>1, Concatenated
    <3> QED BY <2>2, <3>1
  <2> DEFINE c == s \o a
             d == s \o b
             x == Append(c, es[k])
  <2>6. /\ x \in Seq(D) /\ Len(x) = Len(s) + k /\ x[Len(s) + k] = es[k]
        /\ \A i \in 1..(Len(s) + k - 1) : x[i] = c[i]
    <3> HIDE DEF c
    <3>1. c \in Seq(D) /\ Len(c) = Len(s) + k - 1
      BY <2>4 DEF c
    <3>2. Len(c) + 1 = Len(s) + k
      BY <1>1, <3>1
    <3> QED BY <2>3, <3>1, <3>2, Appended
  <2>7. d \in Seq(D) /\ Len(d) = Len(s) + k
    BY <2>5
  <2>8. \A i \in 1..(Len(s) + k) : x[i] = d[i]
    <3> HIDE DEF x, c, d
    <3> TAKE i \in 1..(Len(s) + k)
    <3>1. CASE i \in 1..Len(s)
      <4>1. i \in 1..(Len(s) + k - 1)
        BY <1>1, <3>1
      <4> QED BY <2>4, <2>5, <2>6, <3>1, <4>1 DEF c, d
    <3>2. CASE i \notin 1..Len(s) /\ i # Len(s) + k
      <4>1. /\ i - Len(s) \in 1..k /\ i - Len(s) \in 1..(k - 1) /\ Len(s) + (i - Len(s)) = i
            /\ i \in 1..(Len(s) + k - 1)
        <5>1. Len(s) \in Nat /\ k \in Nat
          BY <1>1
        <5>2. i - Len(s) \in 1..k /\ Len(s) + (i - Len(s)) = i
          BY <3>2, <5>1, Beyond
        <5>3. i \in 1..(Len(s) + k - 1)
          BY <3>2, <5>1
        <5>4. i - Len(s) # k
          BY <3>2, <5>1, <5>2
        <5> QED BY <5>1, <5>2, <5>3, <5>4
      <4>2. c[i] = es[i - Len(s)]
        BY <2>4, <4>1 DEF c
      <4>3. d[i] = es[i - Len(s)]
        BY <2>5, <4>1 DEF d
      <4> QED BY <2>6, <4>1, <4>2, <4>3
    <3>3. CASE i = Len(s) + k
      <4>1. k \in 1..k
        OBVIOUS
      <4>2. d[Len(s) + k] = es[k]
        BY <2>5, <4>1 DEF d
      <4> QED BY <2>6, <3>3, <4>2
    <3> QED BY <3>1, <3>2, <3>3
  <2>9. x = d
    <3> HIDE DEF x, d
    <3> QED BY <2>6, <2>7, <2>8
  <2> QED BY <2>4, <2>9 DEF a, b
<1> HIDE DEF so, n
<1> DEFINE Good(k) == Shape(added[k]) /\ SaidBy(added[k].header, so(k))
           Bad == {k \in 0..n : ~Good(k)}
<1>7. SUFFICES ASSUME Bad # {} PROVE FALSE
  <2>1. n \in 0..n
    BY <1>1
  <2>2. Bad = {} => Good(n)
    BY <2>1
  <2> QED BY <1>3, <1>5, <1>7, <2>2
<1>8. PICK k \in Bad : \A i \in Bad : k <= i
  <2>1. Bad \in SUBSET Nat
    BY <1>1
  <2> HIDE DEF Bad
  <2> QED BY <1>7, <2>1, NatMinimum
<1>9. k \in 0..n /\ ~Good(k)
  OBVIOUS
<1>10. CASE k = 0
  BY <1>4, <1>5, <1>9, <1>10
<1>11. CASE k # 0
  <2>1. k \in 1..n /\ k - 1 \in 0..n /\ ~(k <= k - 1)
    BY <1>1, <1>9, <1>11
  <2>2. Good(k - 1)
    <3>1. k - 1 \notin Bad
      <4> HIDE DEF Bad
      <4> QED BY <1>8, <2>1
    <3> QED BY <2>1, <3>1
  <2>3. added[k] = Add(added[k - 1], hs[k])
    BY <1>4, <1>9, <1>11
  <2>4. hs[k] \in TarHeader /\ es[k] \in D /\ hs[k].path = es[k].path /\ hs[k].kind = es[k].kind
        /\ hs[k].to = es[k].to
    BY <1>1, <2>1
  <2>5. so(k - 1) \in Seq(D) /\ so(k) = Append(so(k - 1), es[k])
    BY <1>6, <2>1
  <2>6. Good(k)
    BY <2>2, <2>3, <2>4, <2>5, AddKeeps
  <2> QED BY <1>9, <2>6
<1> QED BY <1>10, <1>11

-----------------------------------------------------------------------------
(* A walk through the tree comes to each node once, and to those below it    *)
(* later.                                                                    *)

LEMMA DepthOf ==
  ASSUME NEW keys, KeysShape(keys)
  PROVE  /\ Max({Len(node) : node \in DOMAIN keys}) \in Nat
         /\ \A node \in DOMAIN keys : Len(node) \in Nat /\ Len(node) <= Max({Len(p) : p \in DOMAIN keys})
<1> DEFINE S == {Len(node) : node \in DOMAIN keys}
           B == {b \in Nat : \A x \in S : x <= b}
<1>1. S \in SUBSET Nat /\ 0 \in S
  BY DEF KeysShape
<1>2. B # {}
  BY DEF KeysShape
<1>3. PICK b \in B : \A c \in B : b <= c
  <2>1. B \in SUBSET Nat
    OBVIOUS
  <2> HIDE DEF B
  <2> QED BY <1>2, <2>1, NatMinimum
<1>4. b \in Nat /\ \A x \in S : x <= b
  OBVIOUS
<1>5. b \in S
  <2> HIDE DEF S
  <2> SUFFICES ASSUME b \notin S PROVE FALSE
    OBVIOUS
  <2>1. b - 1 \in Nat /\ ~(b <= b - 1)
    BY <1>1, <1>4
  <2>2. \A x \in S : x <= b - 1
    BY <1>1, <1>4
  <2>3. b - 1 \in B
    BY <2>1, <2>2
  <2> HIDE DEF B
  <2> QED BY <1>3, <2>1, <2>3
<1>6. Max(S) = CHOOSE x \in S : \A y \in S : x >= y
  BY DEF Max
<1> DEFINE depth == CHOOSE x \in S : \A y \in S : x >= y
<1>7. depth \in S /\ \A y \in S : depth >= y
  <2> HIDE DEF S
  <2>1. \A y \in S : b >= y
    BY <1>1, <1>4
  <2> QED BY <1>5, <2>1
<1> HIDE DEF depth
<1>8. depth \in Nat /\ \A y \in S : y \in Nat /\ y <= depth
  <2> HIDE DEF S
  <2> QED BY <1>1, <1>7
<1>9. Max(S) = depth
  BY <1>6 DEF depth
<1> QED BY <1>8, <1>9

\* All nodes of one depth, each once.
IsLevel(keys, nodes, d) ==
  /\ nodes \in Seq(DOMAIN keys)
  /\ \A j, k \in 1..Len(nodes) : nodes[j] = nodes[k] => j = k
  /\ \A j \in 1..Len(nodes) : Len(nodes[j]) = d
  /\ \A node \in DOMAIN keys : Len(node) = d => \E j \in 1..Len(nodes) : nodes[j] = node

LEMMA LevelBelow ==
  ASSUME NEW t, KeysShape(t.keys), NEW d \in Nat, NEW nodes, IsLevel(t.keys, nodes, d)
  PROVE  IsLevel(t.keys, Below(t, nodes), d + 1)
<1> DEFINE keys == t.keys
           D == DOMAIN keys
           n == Len(nodes)
           s == [m \in DOMAIN nodes |-> [k \in DOMAIN keys[nodes[m]] |-> Append(nodes[m], keys[nodes[m]][k])]]
           b == Below(t, nodes)
<1>1. n \in Nat /\ DOMAIN nodes = 1..n /\ \A m \in 1..n : nodes[m] \in D /\ nodes[m] \in Seq(Name)
  BY DEF IsLevel, KeysShape
<1>2. b = FlattenSeq(s)
  BY DEF Below
<1>3. s = [m \in 1..n |-> s[m]] /\ DOMAIN s = 1..n
  BY <1>1
<1>4. ASSUME NEW m \in 1..n
      PROVE  /\ s[m] \in Seq(D) /\ DOMAIN s[m] = DOMAIN keys[nodes[m]]
             /\ \A k \in DOMAIN s[m] : /\ s[m][k] = Append(nodes[m], keys[nodes[m]][k])
                                       /\ keys[nodes[m]][k] \in Name
  <2>1. /\ keys[nodes[m]] \in Seq(Name)
        /\ \A k \in DOMAIN keys[nodes[m]] : Append(nodes[m], keys[nodes[m]][k]) \in D
    BY <1>1 DEF KeysShape
  <2>2. s[m] = [k \in DOMAIN keys[nodes[m]] |-> Append(nodes[m], keys[nodes[m]][k])]
    BY <1>1, <1>4
  <2> HIDE DEF s
  <2> DEFINE names == keys[nodes[m]]
             p == nodes[m]
  <2>3. names \in Seq(Name) /\ DOMAIN names = 1..Len(names) /\ Len(names) \in Nat
    BY <2>1
  <2>4. \A k \in DOMAIN names : names[k] \in Name
    BY <2>3
  <2>5. \A k \in 1..Len(names) : Append(p, names[k]) \in D
    BY <2>1, <2>3
  <2>6. s[m] = [k \in 1..Len(names) |-> Append(p, names[k])]
    BY <2>2, <2>3
  <2> HIDE DEF names, p, D
  <2>7. s[m] \in Seq(D) /\ DOMAIN s[m] = DOMAIN names /\ \A k \in DOMAIN s[m] : s[m][k] = Append(p, names[k])
    BY <2>3, <2>5, <2>6
  <2> QED BY <2>4, <2>7 DEF names, p
<1> HIDE DEF s
<1>5. b \in Seq(D) /\ LaidOut(b, s, n)
  <2>1. \A i \in 1..n : s[i] \in Seq(D)
    BY <1>4
  <2> HIDE DEF D, b, n
  <2>2. FlattenSeq(s) \in Seq(D) /\ LaidOut(FlattenSeq(s), s, n)
    BY <1>1, <1>3, <2>1, FlattenSeqLaidOut
  <2> QED BY <1>2, <2>2
<1> HIDE DEF b
<1>6. PICK row, col \in [1..Len(b) -> Nat] : Places(row, col, b, s, n)
  BY <1>5 DEF LaidOut
<1>7. ASSUME NEW j \in 1..Len(b)
      PROVE  /\ row[j] \in 1..n /\ col[j] \in DOMAIN keys[nodes[row[j]]]
             /\ keys[nodes[row[j]]][col[j]] \in Name
             /\ b[j] = Append(nodes[row[j]], keys[nodes[row[j]]][col[j]])
             /\ Parent(b[j]) = nodes[row[j]] /\ Len(b[j]) = d + 1
             /\ b[j][d + 1] = keys[nodes[row[j]]][col[j]]
  <2>1. /\ row[j] \in 1..n /\ col[j] \in DOMAIN keys[nodes[row[j]]]
        /\ keys[nodes[row[j]]][col[j]] \in Name
        /\ b[j] = Append(nodes[row[j]], keys[nodes[row[j]]][col[j]])
    BY <1>4, <1>6 DEF Places
  <2>2. nodes[row[j]] \in Seq(Name) /\ Len(nodes[row[j]]) = d
    BY <1>1, <2>1 DEF IsLevel
  <2> QED BY <2>1, <2>2, ChildOf
<1>8. ASSUME NEW j \in 1..Len(b), NEW k \in 1..Len(b), b[j] = b[k] PROVE j = k
  <2>1. row[j] = row[k]
    BY <1>1, <1>7, <1>8 DEF IsLevel
  <2>2. col[j] = col[k]
    <3>1. keys[nodes[row[j]]][col[j]] = keys[nodes[row[j]]][col[k]]
      BY <1>7, <1>8, <2>1
    <3>2. nodes[row[j]] \in D /\ col[j] \in DOMAIN keys[nodes[row[j]]] /\ col[k] \in DOMAIN keys[nodes[row[j]]]
      BY <1>1, <1>7, <2>1
    <3> QED BY <3>1, <3>2 DEF KeysShape
  <2>4. ASSUME NEW x \in 1..Len(b), NEW y \in 1..Len(b), row[x] = row[y], col[x] = col[y] PROVE ~(x < y)
    <3>1. x < y => row[x] < row[y] \/ (row[x] = row[y] /\ col[x] < col[y])
      BY <1>6 DEF Places
    <3>2. row[x] \in Nat /\ col[x] \in Nat
      OBVIOUS
    <3> QED BY <2>4, <3>1, <3>2
  <2>5. ~(j < k) /\ ~(k < j) /\ j \in Int /\ k \in Int
    BY <1>5, <2>1, <2>2, <2>4
  <2> QED BY <2>5
<1>9. ASSUME NEW node \in D, Len(node) = d + 1 PROVE \E j \in 1..Len(b) : b[j] = node
  <2>1. node \in Seq(Name) /\ node # <<>>
    BY <1>9 DEF KeysShape
  <2>2. /\ Parent(node) \in D /\ Len(Parent(node)) = d /\ node[Len(node)] \in Range(keys[Parent(node)])
        /\ Append(Parent(node), node[Len(node)]) = node
    <3>1. Len(Parent(node)) = Len(node) - 1 /\ Append(Parent(node), node[Len(node)]) = node
      BY <2>1, ParentOf
    <3>2. Parent(node) \in D /\ node[Len(node)] \in Range(keys[Parent(node)])
      BY <2>1 DEF KeysShape
    <3> QED BY <1>9, <3>1, <3>2
  <2>3. PICK m \in 1..n : nodes[m] = Parent(node)
    BY <2>2 DEF IsLevel
  <2>4. PICK x \in DOMAIN keys[nodes[m]] : keys[nodes[m]][x] = node[Len(node)]
    BY <2>2, <2>3 DEF Range
  <2>5. x \in DOMAIN s[m]
    BY <1>4, <2>4
  <2>6. PICK j \in 1..Len(b) : row[j] = m /\ col[j] = x
    BY <1>6, <2>5 DEF Places
  <2> QED BY <1>7, <2>2, <2>3, <2>4, <2>6
<1>10. IsLevel(keys, b, d + 1)
  BY <1>5, <1>7, <1>8, <1>9 DEF IsLevel
<1> QED BY <1>10 DEF b

IsWalk(f, t, n) == f = [d \in 0..n |-> IF d = 0 THEN << <<>> >> ELSE Below(t, f[d - 1])]

LEMMA WalkExists ==
  ASSUME NEW t, NEW n \in Nat
  PROVE  \E f : IsWalk(f, t, n)
<1> DEFINE Bad == {m \in Nat : ~\E f : IsWalk(f, t, m)}
<1>1. SUFFICES ASSUME Bad # {} PROVE FALSE
  OBVIOUS
<1>2. PICK m \in Bad : \A i \in Bad : m <= i
  <2>1. Bad \in SUBSET Nat
    OBVIOUS
  <2> HIDE DEF Bad
  <2> QED BY <1>1, <2>1, NatMinimum
<1>3. m \in Nat /\ ~\E f : IsWalk(f, t, m)
  OBVIOUS
<1>4. CASE m = 0
  <2> DEFINE f == [k \in 0..m |-> << <<>> >>]
  <2>1. IsWalk(f, t, m)
    BY <1>4 DEF IsWalk
  <2> QED BY <1>3, <2>1
<1>5. CASE m # 0
  <2>1. m - 1 \in Nat /\ m - 1 \notin Bad
    <3>1. m - 1 \in Nat /\ ~(m <= m - 1)
      BY <1>3, <1>5
    <3> HIDE DEF Bad
    <3> QED BY <1>2, <3>1
  <2>2. PICK f : IsWalk(f, t, m - 1)
    BY <2>1
  <2> DEFINE g == [k \in 0..m |-> IF k = m THEN Below(t, f[m - 1]) ELSE f[k]]
  <2>3. \A k \in 0..m : g[k] = IF k = 0 THEN << <<>> >> ELSE Below(t, g[k - 1])
    <3> TAKE k \in 0..m
    <3>1. CASE k = m
      BY <1>5, <2>1, <3>1
    <3>2. CASE k # m
      <4>1. k \in 0..(m - 1) /\ g[k] = f[k] /\ (k # 0 => g[k - 1] = f[k - 1])
        BY <2>1, <3>2
      <4>2. f[k] = IF k = 0 THEN << <<>> >> ELSE Below(t, f[k - 1])
        BY <2>2, <4>1 DEF IsWalk
      <4> QED BY <4>1, <4>2
    <3> QED BY <3>1, <3>2
  <2>4. g = [k \in 0..m |-> g[k]]
    OBVIOUS
  <2> HIDE DEF g
  <2>5. IsWalk(g, t, m)
    BY <2>3, <2>4 DEF IsWalk
  <2> QED BY <1>3, <2>5
<1> QED BY <1>4, <1>5

LEMMA WalkLevels ==
  ASSUME NEW t, KeysShape(t.keys), NEW n \in Nat, NEW f, IsWalk(f, t, n)
  PROVE  \A d \in 0..n : IsLevel(t.keys, f[d], d)
<1>1. \A d \in 0..n : f[d] = IF d = 0 THEN << <<>> >> ELSE Below(t, f[d - 1])
  BY DEF IsWalk
<1> DEFINE Bad == {d \in 0..n : ~IsLevel(t.keys, f[d], d)}
<1>2. SUFFICES ASSUME Bad # {} PROVE FALSE
  OBVIOUS
<1>3. PICK d \in Bad : \A i \in Bad : d <= i
  <2>1. Bad \in SUBSET Nat
    OBVIOUS
  <2> HIDE DEF Bad
  <2> QED BY <1>2, <2>1, NatMinimum
<1>4. d \in 0..n /\ ~IsLevel(t.keys, f[d], d)
  OBVIOUS
<1>5. CASE d = 0
  <2>1. PICK e \in DOMAIN t.keys : e = <<>>
    BY DEF KeysShape
  <2> DEFINE root == <<e>>
  <2>2. root \in Seq(DOMAIN t.keys) /\ Len(root) = 1 /\ root[1] = e /\ 1..1 = {1} /\ Len(e) = 0
    <3>1. Len(e) = 0
      BY <2>1
    <3>2. root \in Seq(DOMAIN t.keys) /\ Len(root) = 1 /\ root[1] = e
      BY Single
    <3> QED BY <3>1, <3>2
  <2>3. \A node \in DOMAIN t.keys : Len(node) = 0 => node = <<>>
    BY DEF KeysShape
  <2> HIDE DEF root
  <2>4. IsLevel(t.keys, root, 0)
    BY <2>1, <2>2, <2>3 DEF IsLevel
  <2> QED BY <1>1, <1>4, <1>5, <2>1, <2>4 DEF root
<1>6. CASE d # 0
  <2>1. d - 1 \in 0..n /\ ~(d <= d - 1) /\ d - 1 \in Nat /\ (d - 1) + 1 = d
    BY <1>4, <1>6
  <2>2. IsLevel(t.keys, f[d - 1], d - 1)
    <3>1. d - 1 \notin Bad
      <4> HIDE DEF Bad
      <4> QED BY <1>3, <2>1
    <3> QED BY <2>1, <3>1
  <2>3. IsLevel(t.keys, Below(t, f[d - 1]), (d - 1) + 1)
    BY <2>1, <2>2, LevelBelow
  <2> QED BY <1>1, <1>4, <1>6, <2>1, <2>3
<1> QED BY <1>5, <1>6

LEMMA AboveIsShorter ==
  ASSUME NEW p \in Seq(Name), NEW q \in Above(p)
  PROVE  q \in Seq(Name) /\ Len(q) \in Nat /\ Len(p) \in Nat /\ Len(q) < Len(p)
<1>1. PICK i \in 0..(Len(p) - 1) : q = SubSeq(p, 1, i)
  BY DEF Above
<1>2. Len(p) \in Nat
  OBVIOUS
<1>3. i \in 0..Len(p) /\ i < Len(p) /\ i \in Nat
  BY <1>1, <1>2
<1>4. q \in Seq(Name) /\ Len(q) = i
  BY <1>1, <1>3, Initial
<1> QED BY <1>2, <1>3, <1>4

\* All nodes but the root, each once, and none before one that is nearer to the root.
IsOrder(keys, nodes) ==
  /\ nodes \in Seq(DOMAIN keys)
  /\ \A j, k \in 1..Len(nodes) : j < k => nodes[j] # nodes[k] /\ Len(nodes[j]) <= Len(nodes[k])
  /\ \A node \in DOMAIN keys : node # <<>> => \E j \in 1..Len(nodes) : nodes[j] = node

LEMMA LevelsInOrder ==
  ASSUME NEW t, KeysShape(t.keys), NEW n \in Nat, NEW f, IsWalk(f, t, n),
         \A node \in DOMAIN t.keys : Len(node) \in Nat /\ Len(node) <= n
  PROVE  IsOrder(t.keys, FlattenSeq([d \in 1..n |-> f[d]]))
<1> DEFINE s == [d \in 1..n |-> f[d]]
           D == DOMAIN t.keys
           b == FlattenSeq(s)
<1>1. \A d \in 0..n : IsLevel(t.keys, f[d], d)
  BY WalkLevels
<1>2. \A d \in 1..n : d \in Nat /\ s[d] = f[d] /\ IsLevel(t.keys, s[d], d) /\ s[d] \in Seq(D)
  <2> TAKE d \in 1..n
  <2>1. d \in 0..n /\ d \in Nat /\ s[d] = f[d]
    OBVIOUS
  <2> HIDE DEF s
  <2>2. IsLevel(t.keys, s[d], d)
    BY <1>1, <2>1
  <2> QED BY <2>1, <2>2 DEF IsLevel
<1>3. s = [d \in 1..n |-> s[d]]
  OBVIOUS
<1> HIDE DEF s
<1>4. b \in Seq(D) /\ LaidOut(b, s, n)
  <2>1. \A d \in 1..n : s[d] \in Seq(D)
    BY <1>2
  <2> HIDE DEF D
  <2> QED BY <1>3, <2>1, FlattenSeqLaidOut
<1> HIDE DEF b
<1>5. PICK row, col \in [1..Len(b) -> Nat] : Places(row, col, b, s, n)
  BY <1>4 DEF LaidOut
<1>6. ASSUME NEW j \in 1..Len(b)
      PROVE  /\ row[j] \in 1..n /\ row[j] \in Nat /\ col[j] \in Nat /\ col[j] \in 1..Len(s[row[j]])
             /\ b[j] = s[row[j]][col[j]] /\ Len(b[j]) = row[j]
  <2>1. row[j] \in 1..n /\ col[j] \in DOMAIN s[row[j]] /\ b[j] = s[row[j]][col[j]]
    BY <1>5 DEF Places
  <2>2. DOMAIN s[row[j]] = 1..Len(s[row[j]])
    BY <1>2, <2>1
  <2>3. Len(b[j]) = row[j]
    BY <1>2, <2>1, <2>2 DEF IsLevel
  <2> QED BY <2>1, <2>2, <2>3
<1>7. ASSUME NEW j \in 1..Len(b), NEW k \in 1..Len(b), j < k
      PROVE  b[j] # b[k] /\ Len(b[j]) <= Len(b[k])
  <2>1. row[j] < row[k] \/ (row[j] = row[k] /\ col[j] < col[k])
    BY <1>5, <1>7 DEF Places
  <2>2. CASE row[j] < row[k]
    <3>1. Len(b[j]) < Len(b[k]) /\ Len(b[j]) \in Nat /\ Len(b[k]) \in Nat
      BY <1>6, <2>2
    <3> QED BY <3>1
  <2>3. CASE row[j] = row[k] /\ col[j] < col[k]
    <3>1. col[j] # col[k]
      BY <1>6, <2>3
    <3>2. b[j] # b[k]
      <4>1. IsLevel(t.keys, s[row[j]], row[j]) /\ col[j] \in 1..Len(s[row[j]]) /\ col[k] \in 1..Len(s[row[j]])
        BY <1>2, <1>6, <2>3
      <4>2. s[row[j]][col[j]] # s[row[j]][col[k]]
        BY <3>1, <4>1 DEF IsLevel
      <4> QED BY <1>6, <2>3, <4>2
    <3>3. Len(b[j]) <= Len(b[k])
      BY <1>6, <2>3
    <3> QED BY <3>2, <3>3
  <2> QED BY <2>1, <2>2, <2>3
<1>8. ASSUME NEW node \in D, node # <<>> PROVE \E j \in 1..Len(b) : b[j] = node
  <2>1. node \in Seq(Name) /\ Len(node) \in Nat /\ Len(node) <= n
    BY DEF KeysShape
  <2>2. Len(node) \in 1..n
    BY <1>8, <2>1
  <2>3. PICK x \in 1..Len(s[Len(node)]) : s[Len(node)][x] = node
    BY <1>2, <2>2 DEF IsLevel
  <2>4. DOMAIN s[Len(node)] = 1..Len(s[Len(node)])
    BY <1>2, <2>2
  <2>5. PICK j \in 1..Len(b) : row[j] = Len(node) /\ col[j] = x
    BY <1>5, <2>2, <2>3, <2>4 DEF Places
  <2> QED BY <1>6, <2>3, <2>5
<1> QED BY <1>4, <1>7, <1>8 DEF IsOrder, b, s

\* What a walk writes: each header once, and none before one above it.
IsTraversal(list, t) ==
  /\ list \in Seq(TarHeader)
  /\ \A j \in DOMAIN list : list[j].path \in DOMAIN t.header /\ list[j] = t.header[list[j].path]
  /\ \A j, k \in DOMAIN list : j < k =>
       list[j].path # list[k].path /\ list[k].path \notin Above(list[j].path)
  /\ \A p \in DOMAIN t.header : \E j \in DOMAIN list : list[j].path = p

LEMMA HeadersInOrder ==
  ASSUME NEW t, Shape(t), NEW nodes, IsOrder(t.keys, nodes)
  PROVE  IsTraversal(Headers(t, nodes), t)
<1> DEFINE n == Len(nodes)
           has(m) == nodes[m] \in DOMAIN t.header
           s == [m \in DOMAIN nodes |-> IF has(m) THEN <<t.header[nodes[m]]>> ELSE <<>>]
           b == Headers(t, nodes)
<1>1. n \in Nat /\ DOMAIN nodes = 1..n /\ \A m \in 1..n : nodes[m] \in DOMAIN t.keys /\ nodes[m] \in Seq(Name)
  BY DEF IsOrder, Shape, KeysShape
<1>2. b = FlattenSeq(s)
  BY DEF Headers
<1>3. s = [m \in 1..n |-> s[m]]
  BY <1>1
<1>4. ASSUME NEW m \in 1..n
      PROVE  /\ s[m] \in Seq(TarHeader) /\ (has(m) => 1 \in DOMAIN s[m])
             /\ \A k \in DOMAIN s[m] : k = 1 /\ has(m) /\ s[m][k] = t.header[nodes[m]]
  <2>1. s[m] = IF has(m) THEN <<t.header[nodes[m]]>> ELSE <<>>
    BY <1>1
  <2> HIDE DEF s
  <2>2. CASE has(m)
    <3>1. PICK h \in TarHeader : h = t.header[nodes[m]]
      BY <2>2 DEF Shape
    <3> DEFINE one == <<h>>
    <3>2. one \in Seq(TarHeader) /\ Len(one) = 1 /\ one[1] = h
      BY Single
    <3>3. s[m] = one
      BY <2>1, <2>2, <3>1
    <3> HIDE DEF one
    <3>4. DOMAIN one = 1..1
      BY <3>2
    <3> QED BY <2>2, <3>1, <3>2, <3>3, <3>4
  <2>3. CASE ~has(m)
    <3> DEFINE none == <<>>
    <3>1. none \in Seq(TarHeader) /\ DOMAIN none = {}
      OBVIOUS
    <3>2. s[m] = none
      BY <2>1, <2>3
    <3> HIDE DEF none
    <3> QED BY <2>3, <3>1, <3>2
  <2> QED BY <2>2, <2>3
<1> HIDE DEF s
<1>5. b \in Seq(TarHeader) /\ LaidOut(b, s, n)
  <2>1. \A m \in 1..n : s[m] \in Seq(TarHeader)
    BY <1>4
  <2> HIDE DEF b, n
  <2> QED BY <1>1, <1>2, <1>3, <2>1, FlattenSeqLaidOut
<1> HIDE DEF b
<1>6. PICK row, col \in [1..Len(b) -> Nat] : Places(row, col, b, s, n)
  BY <1>5 DEF LaidOut
<1>7. DOMAIN b = 1..Len(b)
  BY <1>5
<1>8. ASSUME NEW j \in DOMAIN b
      PROVE  /\ row[j] \in 1..n /\ col[j] = 1 /\ nodes[row[j]] \in DOMAIN t.header
             /\ b[j] = t.header[nodes[row[j]]] /\ b[j].path = nodes[row[j]]
  <2>1. row[j] \in 1..n /\ col[j] \in DOMAIN s[row[j]] /\ b[j] = s[row[j]][col[j]]
    BY <1>6, <1>7 DEF Places
  <2>2. col[j] = 1 /\ has(row[j]) /\ b[j] = t.header[nodes[row[j]]]
    BY <1>4, <2>1
  <2> QED BY <2>1, <2>2 DEF Shape
<1>9. ASSUME NEW j \in DOMAIN b, NEW k \in DOMAIN b, j < k
      PROVE  b[j].path # b[k].path /\ b[k].path \notin Above(b[j].path)
  <2>1. row[j] < row[k]
    <3>1. row[j] < row[k] \/ (row[j] = row[k] /\ col[j] < col[k])
      BY <1>6, <1>7, <1>9 DEF Places
    <3> QED BY <1>8, <3>1
  <2>2. nodes[row[j]] # nodes[row[k]] /\ Len(nodes[row[j]]) <= Len(nodes[row[k]])
    BY <1>8, <2>1 DEF IsOrder
  <2>3. nodes[row[j]] \in Seq(Name)
    BY <1>1, <1>8
  <2>4. nodes[row[k]] \in Above(nodes[row[j]]) => FALSE
    <3> SUFFICES ASSUME nodes[row[k]] \in Above(nodes[row[j]]) PROVE FALSE
      OBVIOUS
    <3>1. /\ Len(nodes[row[k]]) \in Nat /\ Len(nodes[row[j]]) \in Nat
          /\ Len(nodes[row[k]]) < Len(nodes[row[j]])
      BY <2>3, AboveIsShorter
    <3> QED BY <2>2, <3>1
  <2> QED BY <1>8, <2>2, <2>4
<1>10. ASSUME NEW p \in DOMAIN t.header PROVE \E j \in DOMAIN b : b[j].path = p
  <2>1. p \in DOMAIN t.keys /\ p # <<>>
    BY DEF Shape, Path
  <2>2. PICK m \in 1..n : nodes[m] = p
    BY <2>1 DEF IsOrder
  <2>3. 1 \in DOMAIN s[m]
    BY <1>4, <2>2
  <2>4. PICK j \in 1..Len(b) : row[j] = m /\ col[j] = 1
    BY <1>6, <2>3 DEF Places
  <2> QED BY <1>7, <1>8, <2>2, <2>4
<1>11. IsTraversal(b, t)
  <2>1. \A j \in DOMAIN b : b[j].path \in DOMAIN t.header /\ b[j] = t.header[b[j].path]
    BY <1>8
  <2>2. \A j, k \in DOMAIN b : j < k => b[j].path # b[k].path /\ b[k].path \notin Above(b[j].path)
    BY <1>9
  <2>3. \A p \in DOMAIN t.header : \E j \in DOMAIN b : b[j].path = p
    BY <1>10
  <2>4. b \in Seq(TarHeader)
    BY <1>5
  <2> QED BY <2>1, <2>2, <2>3, <2>4, Zenon DEF IsTraversal
<1> QED BY <1>11 DEF b

LEMMA TraverseInOrder ==
  ASSUME NEW t, Shape(t)
  PROVE  IsTraversal(Traverse(t), t)
<1> DEFINE depth == Max({Len(node) : node \in DOMAIN t.keys})
           level[d \in 0..depth] == IF d = 0 THEN << <<>> >> ELSE Below(t, level[d - 1])
<1>1. depth \in Nat /\ \A node \in DOMAIN t.keys : Len(node) \in Nat /\ Len(node) <= depth
  BY DepthOf DEF Shape
<1>2. level = [d \in 0..depth |-> IF d = 0 THEN << <<>> >> ELSE Below(t, level[d - 1])]
  <2>1. PICK f : IsWalk(f, t, depth)
    BY <1>1, WalkExists
  <2>2. f = [d \in 0..depth |-> IF d = 0 THEN << <<>> >> ELSE Below(t, f[d - 1])]
    BY <2>1 DEF IsWalk
  <2> QED BY <2>2 DEF level
<1>3. Traverse(t) = Headers(t, FlattenSeq([d \in 1..depth |-> level[d]]))
  BY DEF Traverse
<1> HIDE DEF level
<1>4. IsWalk(level, t, depth)
  BY <1>2 DEF IsWalk
<1>5. IsOrder(t.keys, FlattenSeq([d \in 1..depth |-> level[d]]))
  <2>1. KeysShape(t.keys)
    BY DEF Shape
  <2> HIDE DEF depth
  <2> QED BY <1>1, <1>4, <2>1, LevelsInOrder
<1> QED BY <1>3, <1>5, HeadersInOrder
-----------------------------------------------------------------------------
(* The invariant of the command.                                            *)

\* What the first RPMs say.
Said(s, n) == FlattenSeq(SubSeq(s, 1, n))

Given ==
  /\ options.stdin \in BOOLEAN
  /\ options.symlinks \in Seq(TarHeader)
  /\ \A h \in Range(options.symlinks) : h.kind = "symlink"
  /\ Len(rpms) \in Nat \ {0} /\ rpms \in Seq(Seq(RpmEntry))
  /\ \A n \in 1..Len(rpms) : IsRpm(rpms[n])

Typed ==
  /\ pc \in {"tree", "files", "done", "failed"}
  /\ rpm \in 1..(Len(rpms) + 1) /\ entry \in Nat \ {0}
  /\ pc = "files" => rpm <= Len(rpms)
  /\ pc = "done" => rpm = Len(rpms) + 1
  /\ archive \in Seq(TarHeader)
  /\ Shape(tree)

\* While the tree is made, nothing else is.
Growing ==
  pc = "tree" =>
    /\ ~options.stdin /\ entry = 1
    /\ archive = <<>> /\ createdPaths = {} /\ DOMAIN inodes = {} /\ DOMAIN hardLinks = {}
    /\ SaidBy(tree.header, Said(rpms, rpm - 1))

\* Then it is in the archive, and all that is there.
AllClaims == Claims \o (IF options.stdin THEN <<>> ELSE options.symlinks)
IsOfTree(a) == ~options.stdin /\ a.kind \in {"dir", "symlink"}
TreeThere ==
  pc \in {"files", "done"} /\ ~options.stdin =>
    /\ SaidBy(tree.header, AllClaims)
    /\ \A j \in DOMAIN archive : IsOfTree(archive[j]) =>
         archive[j].path \in DOMAIN tree.header /\ archive[j] = tree.header[archive[j].path]
    /\ \A p \in DOMAIN tree.header : \E j \in DOMAIN archive :
         archive[j].path = p /\ IsOfTree(archive[j])

\* A path has been created when an entry with it has been met.
Met(n, k) == n < rpm \/ (n = rpm /\ k < entry)
Created ==
  \A p \in createdPaths : \E n \in 1..Len(rpms) : \E k \in DOMAIN rpms[n] :
    rpms[n][k].path = p /\ Met(n, k)

\* Names that wait, and paths with the body of an inode.
Waits(p) == \E node \in DOMAIN hardLinks : \E k \in DOMAIN hardLinks[node] : hardLinks[node][k].path = p
FileThere(o) ==
  \E j \in DOMAIN archive : archive[j].path = o.path /\ archive[j].kind = "file" /\ archive[j].body = o.body
IsSource(n, o, ino) == o \in Range(rpms[n]) /\ o.kind = "file" /\ ~IsLink(o) /\ o.ino = ino /\ FileThere(o)

Waiting ==
  /\ IsFiniteSet(DOMAIN hardLinks) /\ DOMAIN hardLinks \subseteq Nat
  /\ \A node \in DOMAIN hardLinks :
       /\ hardLinks[node] \in Seq(TarHeader)
       /\ \A k \in DOMAIN hardLinks[node] :
            /\ hardLinks[node][k].kind = "link" /\ hardLinks[node][k].path \in createdPaths
            /\ hardLinks[node][k].attributes = Attributes(hardLinks[node][k])
  /\ \A node, other \in DOMAIN hardLinks :
       \A k \in DOMAIN hardLinks[node], i \in DOMAIN hardLinks[other] :
         hardLinks[node][k].path = hardLinks[other][i].path => node = other /\ k = i

Sources ==
  \A node \in DOMAIN inodes :
    /\ rpm \in 1..Len(rpms) /\ inodes[node] \in createdPaths /\ ~Waits(inodes[node])
    /\ \E o \in Range(rpms[rpm]) : o.path = inodes[node] /\ IsSource(rpm, o, node)

\* Nothing is written again, and nothing that belongs before what is there.
Ordered ==
  /\ \A j \in DOMAIN archive : ~IsOfTree(archive[j]) =>
       archive[j].path \in createdPaths /\ ~Waits(archive[j].path)
  /\ \A j \in DOMAIN archive : archive[j].kind = "link" =>
       archive[j].to \in createdPaths /\ ~Waits(archive[j].to)
  /\ \A j, k \in DOMAIN archive : j < k =>
       /\ archive[j].path = archive[k].path => IsOfTree(archive[j]) /\ ~IsOfTree(archive[k])
       /\ IsOfTree(archive[k]) => IsOfTree(archive[j]) /\ archive[k].path \notin Above(archive[j].path)
       /\ archive[j].kind = "link" => archive[j].to # archive[k].path

Attributed ==
  \A j \in DOMAIN archive : archive[j].kind \in {"file", "link"} =>
    archive[j].attributes = Attributes(archive[j])

\* A file that no earlier RPM has a path of has come into the archive or waits.
Fresh(n, e) == \A m \in 1..(n - 1) : \A o \in Range(rpms[m]) : o.path # e.path
Arrived(n, e) ==
  IF ~IsLink(e) THEN FileThere(e)
  ELSE \E j \in DOMAIN archive :
         /\ archive[j].path = e.path /\ archive[j].kind = "link"
         /\ \E o \in Range(rpms[n]) : o.path = archive[j].to /\ IsSource(n, o, e.ino)
WaitsOrArrived(e) ==
  IF ~IsLink(e) THEN FileThere(e)
  ELSE e.ino \in DOMAIN hardLinks /\ \E k \in DOMAIN hardLinks[e.ino] : hardLinks[e.ino][k].path = e.path
AllArrived ==
  /\ pc \in {"files", "done"} => \A n \in 1..(rpm - 1) : \A e \in Range(rpms[n]) :
       e.kind = "file" /\ Fresh(n, e) => Arrived(n, e)
  /\ pc = "files" => \A k \in DOMAIN rpms[rpm] :
       k < entry /\ rpms[rpm][k].kind = "file" /\ Fresh(rpm, rpms[rpm][k]) => WaitsOrArrived(rpms[rpm][k])

InvArchive ==
  /\ Given /\ Typed /\ Growing /\ TreeThere /\ Created /\ Waiting /\ Sources /\ Ordered
  /\ Attributed /\ AllArrived

-----------------------------------------------------------------------------
LEMMA SaidIs ==
  ASSUME NEW D, NEW s \in Seq(Seq(D)), NEW f, IsFlattening(f, s, Len(s)), NEW n \in 1..Len(s)
  PROVE  Said(s, n) = f[n] /\ f[n] \in Seq(D)
<1> DEFINE r == SubSeq(s, 1, n)
           g == [i \in 1..n |-> f[i]]
<1>1. Len(s) \in Nat /\ n \in Nat \ {0} /\ \A i \in 1..n : i \in 1..Len(s) /\ (i # 1 => i - 1 \in 1..n)
  OBVIOUS
<1>2. r = [i \in 1..n |-> s[i]]
  BY <1>1
<1>3. \A i \in 1..Len(s) : f[i] = IF i = 1 THEN s[i] ELSE f[i - 1] \o s[i]
  BY DEF IsFlattening
<1>4. \A i \in 1..n : r[i] = s[i] /\ g[i] = f[i]
  BY <1>2
<1>5. r = [i \in 1..n |-> r[i]] /\ g = [i \in 1..n |-> g[i]]
  BY <1>2
<1> HIDE DEF r, g
<1>6. \A i \in 1..n : g[i] = IF i = 1 THEN r[i] ELSE g[i - 1] \o r[i]
  BY <1>1, <1>3, <1>4
<1>7. IsFlattening(g, r, n)
  BY <1>5, <1>6 DEF IsFlattening
<1>8. FlattenSeq(r) = g[n]
  BY <1>1, <1>5, <1>7, FlattenSeqIs
<1>9. n \in 1..n
  BY <1>1
<1>10. \A i \in 1..Len(s) : s[i] \in Seq(D)
  OBVIOUS
<1>11. f[n] \in Seq(D)
  BY <1>1, <1>10, Flattened
<1> QED BY <1>4, <1>8, <1>9, <1>11 DEF Said, r

LEMMA SaidGrows ==
  ASSUME NEW D, NEW s \in Seq(Seq(D))
  PROVE  /\ Said(s, 0) = <<>>
         /\ \A n \in 0..Len(s) : Said(s, n) \in Seq(D)
         /\ \A n \in 1..Len(s) : Said(s, n) = Said(s, n - 1) \o s[n]
         /\ Len(s) # 0 => Said(s, Len(s)) = FlattenSeq(s)
<1>1. Len(s) \in Nat /\ \A i \in 1..Len(s) : s[i] \in Seq(D)
  OBVIOUS
<1>2. PICK f : IsFlattening(f, s, Len(s))
  BY <1>1, FlatteningExists
<1>3. Said(s, 0) = <<>> /\ Said(s, 0) \in Seq(D)
  <2>1. SubSeq(s, 1, 0) = <<>>
    OBVIOUS
  <2>2. Len(<<>>) = 0
    OBVIOUS
  <2>3. FlattenSeq(<<>>) = <<>>
    BY <2>2 DEF FlattenSeq
  <2> DEFINE none == <<>>
  <2>4. none \in Seq(D)
    OBVIOUS
  <2> QED BY <2>1, <2>3, <2>4 DEF Said
<1>4. \A n \in 1..Len(s) : Said(s, n) = f[n] /\ f[n] \in Seq(D)
  BY <1>2, SaidIs
<1>5. \A n \in 0..Len(s) : n = 0 \/ n \in 1..Len(s)
  BY <1>1
<1>6. ASSUME NEW n \in 1..Len(s) PROVE Said(s, n) = Said(s, n - 1) \o s[n]
  <2>1. f[n] = IF n = 1 THEN s[n] ELSE f[n - 1] \o s[n]
    BY <1>2 DEF IsFlattening
  <2>2. CASE n = 1
    <3> DEFINE r == s[n]
    <3>1. r \in Seq(D)
      BY <1>1
    <3> HIDE DEF r
    <3>2. <<>> \o r = r
      BY <3>1
    <3>3. n - 1 = 0
      BY <2>2
    <3> QED BY <1>3, <1>4, <2>1, <2>2, <3>2, <3>3 DEF r
  <2>3. CASE n # 1
    <3>1. n - 1 \in 1..Len(s)
      BY <1>1, <2>3
    <3> QED BY <1>4, <2>1, <2>3, <3>1
  <2> QED BY <2>2, <2>3
<1>7. ASSUME Len(s) # 0 PROVE Said(s, Len(s)) = FlattenSeq(s)
  <2>1. SubSeq(s, 1, Len(s)) = s
    OBVIOUS
  <2> QED BY <2>1 DEF Said
<1>8. \A n \in 0..Len(s) : Said(s, n) \in Seq(D)
  BY <1>3, <1>4, <1>5
<1> QED BY <1>3, <1>6, <1>7, <1>8

LEMMA InitHolds == Init => InvArchive
<1> SUFFICES ASSUME NEW c \in Commands, Start(c) PROVE InvArchive
  BY DEF Init
<1>1. /\ c.most \in Nat /\ \A r \in c.rpms : IsRpm(r)
      /\ options.stdin \in BOOLEAN /\ options.symlinks \in Seq(TarHeader)
      /\ \A h \in Range(options.symlinks) : h.kind = "symlink"
  BY CommandsAssumption DEF Start
<1>2. /\ tree = NewDirectoryTree /\ archive = <<>> /\ createdPaths = {} /\ inodes = <<>>
      /\ hardLinks = <<>> /\ rpm = 1 /\ entry = 1
      /\ pc = IF options.stdin THEN "files" ELSE "tree"
  BY DEF Start
<1>3. PICK n \in Nat \ {0} : rpms \in [1..n -> c.rpms]
  <2>1. PICK n \in 1..(IF options.stdin THEN 1 ELSE c.most) : rpms \in [1..n -> c.rpms]
    BY DEF Start
  <2>2. n \in Nat \ {0}
    BY <1>1, <2>1
  <2> QED BY <2>1, <2>2
<1>4. Len(rpms) = n /\ rpms \in Seq(Seq(RpmEntry)) /\ \A k \in 1..n : IsRpm(rpms[k])
  <2>1. \A k \in 1..n : IsRpm(rpms[k]) /\ rpms[k] \in Seq(RpmEntry)
    BY <1>1, <1>3 DEF IsRpm
  <2>2. rpms \in [1..n -> Seq(RpmEntry)]
    BY <1>3, <2>1
  <2>3. Len(rpms) = n /\ rpms \in Seq(Seq(RpmEntry))
    BY <1>3, <2>2
  <2> QED BY <2>1, <2>3
<1>5. Given
  BY <1>1, <1>3, <1>4 DEF Given
<1>6. DOMAIN inodes = {} /\ DOMAIN hardLinks = {} /\ DOMAIN archive = {} /\ archive \in Seq(TarHeader)
  BY <1>2
<1>7. tree.keys = [node \in {<<>>} |-> <<>>] /\ tree.header = <<>>
  BY <1>2 DEF NewDirectoryTree
<1>8. Shape(tree)
  <2> DEFINE none == <<>>
  <2>1. none \in Seq(Name) /\ Len(none) = 0 /\ DOMAIN none = {} /\ 0 \in Nat
    OBVIOUS
  <2>2. DOMAIN tree.keys = {none} /\ tree.keys[none] = none /\ DOMAIN tree.header = {}
    BY <1>7
  <2> HIDE DEF none
  <2>3. \A node \in DOMAIN tree.keys : Len(node) <= 0
    BY <2>1, <2>2
  <2>4. none = <<>>
    BY DEF none
  <2>5. KeysShape(tree.keys)
    <3>1. DOMAIN tree.keys \subseteq Seq(Name) /\ <<>> \in DOMAIN tree.keys
      BY <2>1, <2>2, <2>4
    <3>2. \E b \in Nat : \A node \in DOMAIN tree.keys : Len(node) <= b
      BY <2>1, <2>3
    <3> QED BY <2>1, <2>2, <2>4, <3>1, <3>2 DEF KeysShape
  <2> QED BY <2>2, <2>5 DEF Shape
<1>9. Typed
  BY <1>2, <1>3, <1>4, <1>6, <1>8 DEF Typed
<1>10. Growing
  <2>1. Said(rpms, 0) = <<>> /\ rpm - 1 = 0
    <3>1. rpms \in Seq(Seq(RpmEntry))
      BY <1>4
    <3>2. Said(rpms, 0) = <<>>
      BY <3>1, SaidGrows
    <3> QED BY <1>2, <3>2
  <2>2. DOMAIN tree.header = {} /\ DOMAIN <<>> = {}
    BY <1>7
  <2>3. SaidBy(tree.header, <<>>)
    BY <2>2 DEF SaidBy
  <2> QED BY <1>1, <1>2, <1>6, <2>1, <2>3 DEF Growing
<1>11. TreeThere /\ Created /\ Sources /\ Ordered /\ Attributed
  BY <1>1, <1>2, <1>6 DEF TreeThere, Created, Sources, Ordered, Attributed
<1>12. Waiting
  BY <1>6, FS_EmptySet DEF Waiting
<1>13. AllArrived
  <2>1. \A k \in Nat \ {0} : ~(k < 1)
    OBVIOUS
  <2>2. rpms[1] \in Seq(RpmEntry)
    BY <1>3, <1>4
  <2>3. \A k \in DOMAIN rpms[1] : ~(k < 1)
    BY <2>2
  <2>4. 1..(rpm - 1) = {}
    BY <1>2
  <2> QED BY <1>2, <2>3, <2>4 DEF AllArrived
<1> QED BY <1>5, <1>9, <1>10, <1>11, <1>12, <1>13 DEF InvArchive

-----------------------------------------------------------------------------
(* Each step keeps it.                                                      *)

LEMMA HeaderIs ==
  ASSUME NEW e \in RpmEntry, NEW kind \in {"dir", "symlink", "file", "special", "link"},
         NEW attributes \in SUBSET {"capability", "selinux"}
  PROVE  /\ Header(e, kind, attributes) \in TarHeader
         /\ Header(e, kind, attributes).path = e.path /\ Header(e, kind, attributes).kind = kind
         /\ Header(e, kind, attributes).to = e.to /\ Header(e, kind, attributes).body = e.body
         /\ Header(e, kind, attributes).attributes = attributes
BY DEF Header, TarHeader, RpmEntry

\* What is looked up for an entry depends on its path alone.
LEMMA AttributesAre ==
  /\ \A e : Attributes(e) \in SUBSET {"capability", "selinux"}
  /\ \A e, a : e.path = a.path => Attributes(e) = Attributes(a)
  /\ options' = options => \A e : Attributes(e)' = Attributes(e)
<1>1. \A e : Attributes(e) \in SUBSET {"capability", "selinux"}
  BY DEF Attributes
<1>2. \A e, a : e.path = a.path => Attributes(e) = Attributes(a)
  BY DEF Attributes, HasCapabilities, FileName
<1>3. options' = options => \A e : Attributes(e)' = Attributes(e)
  BY DEF Attributes
<1> QED BY <1>1, <1>2, <1>3

LEMMA RpmsAre ==
  ASSUME Given
  PROVE  \A n \in 1..Len(rpms) :
           /\ rpms[n] \in Seq(RpmEntry) /\ DOMAIN rpms[n] = 1..Len(rpms[n]) /\ Len(rpms[n]) \in Nat
           /\ Said(rpms, n) = Said(rpms, n - 1) \o rpms[n]
           /\ Said(rpms, n - 1) \in Seq(RpmEntry)
<1>1. rpms \in Seq(Seq(RpmEntry)) /\ Len(rpms) \in Nat
  BY DEF Given
<1>2. /\ \A n \in 0..Len(rpms) : Said(rpms, n) \in Seq(RpmEntry)
      /\ \A n \in 1..Len(rpms) : Said(rpms, n) = Said(rpms, n - 1) \o rpms[n]
  <2>1. rpms \in Seq(Seq(RpmEntry))
    BY <1>1
  <2> QED BY <2>1, SaidGrows
<1>3. \A n \in 1..Len(rpms) : n - 1 \in 0..Len(rpms)
  BY <1>1
<1>4. \A n \in 1..Len(rpms) : rpms[n] \in Seq(RpmEntry)
  BY <1>1
<1>5. \A r \in Seq(RpmEntry) : DOMAIN r = 1..Len(r) /\ Len(r) \in Nat
  OBVIOUS
<1> QED BY <1>2, <1>3, <1>4, <1>5

LEMMA AddRPMKeeps == InvArchive /\ AddRPM => InvArchive'
<1> SUFFICES ASSUME InvArchive, AddRPM PROVE InvArchive'
  OBVIOUS
<1> USE DEF InvArchive
<1> DEFINE r == rpms[rpm]
           hs == [n \in DOMAIN r |-> CPIOToTarHeader(r[n])]
<1>1. /\ pc = "tree" /\ rpm <= Len(rpms)
      /\ options' = options /\ rpms' = rpms /\ archive' = archive /\ createdPaths' = createdPaths
      /\ inodes' = inodes /\ hardLinks' = hardLinks /\ entry' = entry
  BY DEF AddRPM
<1>2. /\ ~options.stdin /\ entry = 1
      /\ archive = <<>> /\ createdPaths = {} /\ DOMAIN inodes = {} /\ DOMAIN hardLinks = {}
      /\ SaidBy(tree.header, Said(rpms, rpm - 1))
  BY <1>1 DEF Growing
<1>3. Given'
  BY <1>1 DEF Given
<1>4. rpm \in 1..Len(rpms) /\ rpm \in Nat /\ Len(rpms) \in Nat
  BY <1>1 DEF Typed, Given
<1>5. DOMAIN archive = {}
  BY <1>2
<1>6. Created' /\ Waiting' /\ Sources' /\ Ordered' /\ Attributed'
  <2>1. Created' /\ Sources' /\ Ordered' /\ Attributed'
    BY <1>1, <1>2, <1>5 DEF Created, Sources, Ordered, Attributed
  <2>2. Waiting'
    BY <1>1, <1>2, FS_EmptySet DEF Waiting
  <2> QED BY <2>1, <2>2
<1>7. /\ Typed' /\ Growing' /\ pc' \notin {"files", "done"}
  <2>1. CASE \E e \in Range(r) : e.kind = "socket"
    <3>1. pc' = "failed" /\ tree' = tree /\ rpm' = rpm
      BY <2>1 DEF AddRPM
    <3> QED BY <1>1, <3>1 DEF Typed, Growing
  <2>2. CASE ~\E e \in Range(r) : e.kind = "socket"
    <3>1. tree' = AddAll(tree, hs) /\ rpm' = rpm + 1 /\ pc' = pc
      BY <2>2 DEF AddRPM
    <3>2. /\ r \in Seq(RpmEntry) /\ DOMAIN r = 1..Len(r) /\ Len(r) \in Nat
          /\ Said(rpms, rpm) = Said(rpms, rpm - 1) \o r /\ Said(rpms, rpm - 1) \in Seq(RpmEntry)
      BY <1>4, RpmsAre
    <3>3. ASSUME NEW n \in DOMAIN r
          PROVE  /\ hs[n] \in TarHeader /\ hs[n].path = r[n].path /\ hs[n].kind = r[n].kind
                 /\ hs[n].to = r[n].to
      <4> DEFINE e == r[n]
      <4>1. e \in RpmEntry /\ e.kind # "socket" /\ hs[n] = Header(e, e.kind, {})
        BY <2>2, <3>2 DEF Range, CPIOToTarHeader
      <4> HIDE DEF e, hs
      <4>2. e.kind \in {"dir", "symlink", "file", "special", "link"}
        BY <4>1 DEF RpmEntry
      <4>3. {} \in SUBSET {"capability", "selinux"}
        OBVIOUS
      <4> QED BY <4>1, <4>2, <4>3, HeaderIs DEF e
    <3>4. hs \in Seq(TarHeader) /\ Len(hs) = Len(r)
      <4>1. hs = [n \in 1..Len(r) |-> hs[n]]
        BY <3>2
      <4> HIDE DEF hs, r
      <4> QED BY <3>2, <3>3, <4>1
    <3>5. Shape(tree)
      BY DEF Typed
    <3>6. Shape(AddAll(tree, hs)) /\ SaidBy(AddAll(tree, hs).header, Said(rpms, rpm - 1) \o r)
      <4> HIDE DEF hs, r
      <4> QED BY <1>2, <3>2, <3>3, <3>4, <3>5, AddAllKeeps
    <3>7. Typed'
      BY <1>1, <1>4, <3>1, <3>6 DEF Typed
    <3>8. rpm' - 1 = rpm
      BY <1>4, <3>1
    <3>9. Growing'
      BY <1>1, <1>2, <3>1, <3>2, <3>6, <3>8 DEF Growing
    <3> QED BY <1>1, <3>1, <3>7, <3>9
  <2> QED BY <2>1, <2>2
<1>8. TreeThere' /\ AllArrived'
  BY <1>7 DEF TreeThere, AllArrived
<1> QED BY <1>3, <1>6, <1>7, <1>8

LEMMA WriteTreeKeeps == InvArchive /\ WriteTree => InvArchive'
<1> SUFFICES ASSUME InvArchive, WriteTree PROVE InvArchive'
  OBVIOUS
<1> USE DEF InvArchive
<1> DEFINE asked == options.symlinks
           said == Said(rpms, rpm - 1)
           D == RpmEntry \cup TarHeader
<1>1. /\ pc = "tree" /\ rpm > Len(rpms)
      /\ tree' = AddAll(tree, asked) /\ archive' = Traverse(tree') /\ rpm' = 1 /\ pc' = "files"
      /\ options' = options /\ rpms' = rpms /\ createdPaths' = createdPaths
      /\ inodes' = inodes /\ hardLinks' = hardLinks /\ entry' = entry
  BY DEF WriteTree
<1>2. /\ ~options.stdin /\ entry = 1 /\ createdPaths = {} /\ DOMAIN inodes = {} /\ DOMAIN hardLinks = {}
      /\ SaidBy(tree.header, said)
  BY <1>1 DEF Growing
<1>3. Given'
  BY <1>1 DEF Given
<1>4. rpm = Len(rpms) + 1 /\ rpm - 1 = Len(rpms) /\ Len(rpms) \in Nat \ {0} /\ 1 <= Len(rpms)
  BY <1>1 DEF Typed, Given
<1>5. said = FlattenSeq(rpms) /\ said \in Seq(RpmEntry) /\ asked \in Seq(TarHeader)
  <2>1. rpms \in Seq(Seq(RpmEntry)) /\ Len(rpms) # 0 /\ Len(rpms) \in 0..Len(rpms)
    BY <1>4 DEF Given
  <2>2. Said(rpms, Len(rpms)) \in Seq(RpmEntry) /\ Said(rpms, Len(rpms)) = FlattenSeq(rpms)
    <3>1. rpms \in Seq(Seq(RpmEntry))
      BY <2>1
    <3> QED BY <2>1, <3>1, SaidGrows
  <2> QED BY <1>4, <2>2 DEF Given
<1>6. Shape(tree') /\ SaidBy(tree'.header, said \o asked)
  <2>1. Shape(tree)
    BY DEF Typed
  <2>2. said \in Seq(D) /\ asked \in Seq(D)
    BY <1>5
  <2> HIDE DEF said, asked, D
  <2>3. \A k \in DOMAIN asked : /\ asked[k].path = asked[k].path /\ asked[k].kind = asked[k].kind
                                /\ asked[k].to = asked[k].to
    OBVIOUS
  <2>4. Len(asked) = Len(asked)
    OBVIOUS
  <2> QED BY <1>1, <1>2, <1>5, <2>1, <2>2, <2>3, <2>4, AddAllKeeps
<1>7. SaidBy(tree'.header, AllClaims')
  BY <1>1, <1>2, <1>5, <1>6 DEF AllClaims, Claims
<1>8. IsTraversal(archive', tree')
  BY <1>1, <1>6, TraverseInOrder
<1>9. \A j \in DOMAIN archive' : /\ archive'[j].path \in DOMAIN tree'.header
                                 /\ archive'[j] = tree'.header[archive'[j].path]
                                 /\ archive'[j].kind \in {"dir", "symlink"} /\ IsOfTree(archive[j])'
  <2>1. \A j \in DOMAIN archive' : /\ archive'[j].path \in DOMAIN tree'.header
                                   /\ archive'[j] = tree'.header[archive'[j].path]
    BY <1>8 DEF IsTraversal
  <2>2. \A j \in DOMAIN archive' : archive'[j].kind \in {"dir", "symlink"}
    BY <1>6, <2>1 DEF Shape
  <2> QED BY <1>1, <1>2, <2>1, <2>2 DEF IsOfTree
<1>10. TreeThere'
  <2>1. \A p \in DOMAIN tree'.header : \E j \in DOMAIN archive' : archive'[j].path = p
    BY <1>8 DEF IsTraversal
  <2> QED BY <1>7, <1>9, <2>1 DEF TreeThere
<1>11. Typed'
  <2>1. archive' \in Seq(TarHeader)
    BY <1>8 DEF IsTraversal
  <2> QED BY <1>1, <1>2, <1>4, <1>6, <2>1 DEF Typed
<1>12. Ordered'
  <2>1. \A j, k \in DOMAIN archive' : j < k =>
          archive'[j].path # archive'[k].path /\ archive'[k].path \notin Above(archive'[j].path)
    BY <1>8 DEF IsTraversal
  <2>2. \A j \in DOMAIN archive' : archive'[j].kind # "link"
    BY <1>9
  <2> QED BY <1>9, <2>1, <2>2 DEF Ordered
<1>13. Attributed'
  BY <1>9 DEF Attributed
<1>14. Created' /\ Sources'
  BY <1>1, <1>2 DEF Created, Sources
<1>15. Waiting'
  BY <1>1, <1>2, FS_EmptySet DEF Waiting
<1>16. Growing'
  BY <1>1 DEF Growing
<1>17. AllArrived'
  <2>1. rpms'[1] \in Seq(RpmEntry)
    BY <1>1, <1>4, RpmsAre
  <2>2. \A k \in DOMAIN rpms'[1] : ~(k < 1)
    BY <2>1
  <2>3. 1..(rpm' - 1) = {}
    BY <1>1
  <2> QED BY <1>1, <1>2, <2>2, <2>3 DEF AllArrived
<1> QED BY <1>3, <1>7, <1>10, <1>11, <1>12, <1>13, <1>14, <1>15, <1>16, <1>17

\* Nothing that has been written is lost.
Written == rpms' = rpms /\ \A j \in DOMAIN archive : j \in DOMAIN archive' /\ archive'[j] = archive[j]

LEMMA ArrivedStays ==
  ASSUME Written
  PROVE  /\ \A o : FileThere(o) => FileThere(o)'
         /\ \A n, o, ino : IsSource(n, o, ino) => IsSource(n, o, ino)'
         /\ \A n, e : Arrived(n, e) => Arrived(n, e)'
         /\ \A n, e : Fresh(n, e)' <=> Fresh(n, e)
<1>1. ASSUME NEW o, FileThere(o) PROVE FileThere(o)'
  BY <1>1 DEF FileThere, Written
<1>2. ASSUME NEW n, NEW o, NEW ino, IsSource(n, o, ino) PROVE IsSource(n, o, ino)'
  BY <1>1, <1>2 DEF IsSource, Written
<1>3. ASSUME NEW n, NEW e, Arrived(n, e) PROVE Arrived(n, e)'
  <2>1. CASE ~IsLink(e)
    BY <1>1, <1>3, <2>1 DEF Arrived
  <2>2. CASE IsLink(e)
    <3>1. PICK j \in DOMAIN archive :
            /\ archive[j].path = e.path /\ archive[j].kind = "link"
            /\ \E o \in Range(rpms[n]) : o.path = archive[j].to /\ IsSource(n, o, e.ino)
      BY <1>3, <2>2 DEF Arrived
    <3>2. PICK o \in Range(rpms[n]) : o.path = archive[j].to /\ IsSource(n, o, e.ino)
      BY <3>1
    <3>3. j \in DOMAIN archive' /\ archive'[j] = archive[j] /\ o \in Range(rpms'[n])
      BY DEF Written
    <3>4. IsSource(n, o, e.ino)'
      BY <1>2, <3>2
    <3> QED BY <2>2, <3>1, <3>2, <3>3, <3>4 DEF Arrived
  <2> QED BY <2>1, <2>2
<1>4. \A n, e : Fresh(n, e)' <=> Fresh(n, e)
  BY DEF Fresh, Written
<1> QED BY <1>1, <1>2, <1>3, <1>4

LEMMA ReadingIs ==
  ASSUME InvArchive, Reading
  PROVE  /\ pc = "files" /\ rpm \in 1..Len(rpms) /\ entry \in DOMAIN rpms[rpm] /\ Len(rpms) \in Nat
         /\ IsRpm(rpms[rpm]) /\ DOMAIN rpms[rpm] \subseteq Nat
         /\ Entry \in RpmEntry /\ Entry \in Range(rpms[rpm]) /\ Entry = rpms[rpm][entry]
<1> USE DEF InvArchive
<1>1. pc = "files" /\ rpm \in 1..Len(rpms) /\ IsRpm(rpms[rpm]) /\ entry <= Len(rpms[rpm]) /\ entry \in Nat \ {0}
      /\ Len(rpms) \in Nat
  BY DEF Reading, Typed, Given
<1>2. rpms[rpm] \in Seq(RpmEntry) /\ DOMAIN rpms[rpm] = 1..Len(rpms[rpm]) /\ Len(rpms[rpm]) \in Nat
  BY <1>1, RpmsAre
<1>3. entry \in DOMAIN rpms[rpm]
  BY <1>1, <1>2
<1>4. rpms[rpm][entry] \in RpmEntry
  BY <1>2, <1>3
<1> QED BY <1>1, <1>2, <1>3, <1>4 DEF Entry, Range

\* The entry that comes next is a duplicate if it is one of a path of an earlier RPM.
LEMMA DuplicateIsNotFresh ==
  ASSUME InvArchive, Reading, Duplicate(Entry)
  PROVE  ~Fresh(rpm, Entry)
<1> USE DEF InvArchive
<1>1. /\ pc = "files" /\ rpm \in 1..Len(rpms) /\ entry \in DOMAIN rpms[rpm] /\ Len(rpms) \in Nat
      /\ IsRpm(rpms[rpm]) /\ DOMAIN rpms[rpm] \subseteq Nat /\ Entry = rpms[rpm][entry]
  BY ReadingIs
<1>2. PICK n \in 1..Len(rpms) : \E k \in DOMAIN rpms[n] : rpms[n][k].path = Entry.path /\ Met(n, k)
  BY DEF Created, Duplicate
<1>3. PICK k \in DOMAIN rpms[n] : rpms[n][k].path = Entry.path /\ Met(n, k)
  BY <1>2
<1>4. CASE n < rpm
  <2>1. n \in 1..(rpm - 1) /\ rpms[n][k] \in Range(rpms[n])
    BY <1>1, <1>4 DEF Range
  <2> QED BY <1>3, <2>1 DEF Fresh
<1>5. CASE n = rpm /\ k < entry
  <2>1. k # entry
    BY <1>1, <1>5
  <2> QED BY <1>1, <1>3, <1>5, <2>1 DEF IsRpm
<1> QED BY <1>3, <1>4, <1>5 DEF Met

LEMMA CreatedKeeps ==
  ASSUME InvArchive, Reading, rpms' = rpms, rpm' = rpm, entry' = entry + 1,
         createdPaths' \subseteq createdPaths \cup {Entry.path}
  PROVE  Created'
<1> USE DEF InvArchive
<1>1. /\ rpm \in 1..Len(rpms) /\ entry \in DOMAIN rpms[rpm] /\ Entry = rpms[rpm][entry]
      /\ DOMAIN rpms[rpm] \subseteq Nat
  BY ReadingIs
<1>2. ASSUME NEW n \in 1..Len(rpms), NEW k \in DOMAIN rpms[n], Met(n, k) PROVE Met(n, k)'
  BY <1>1, <1>2 DEF Met
<1>3. \A n, k : n = rpm /\ k = entry => Met(n, k)'
  BY <1>1 DEF Met
<1>4. ASSUME NEW p \in createdPaths'
      PROVE  \E n \in 1..Len(rpms) : \E k \in DOMAIN rpms[n] : rpms[n][k].path = p /\ Met(n, k)'
  <2>1. CASE p \in createdPaths
    <3>1. PICK n \in 1..Len(rpms) : \E k \in DOMAIN rpms[n] : rpms[n][k].path = p /\ Met(n, k)
      BY <2>1 DEF Created
    <3> QED BY <1>2, <3>1
  <2>2. CASE p = Entry.path
    <3>1. PICK n \in 1..Len(rpms) : n = rpm
      BY <1>1
    <3>2. PICK k \in DOMAIN rpms[n] : k = entry
      BY <1>1, <3>1
    <3>3. Met(n, k)' /\ rpms[n][k].path = p
      BY <1>1, <1>3, <2>2, <3>1, <3>2
    <3> QED BY <3>3
  <2> QED BY <2>1, <2>2
<1> QED BY <1>4 DEF Created

LEMMA AllArrivedKeeps ==
  ASSUME InvArchive, Reading, Written, pc' = pc, rpm' = rpm, entry' = entry + 1,
         \A node \in DOMAIN hardLinks : node \in DOMAIN hardLinks' /\
           \A k \in DOMAIN hardLinks[node] :
             k \in DOMAIN hardLinks'[node] /\ hardLinks'[node][k].path = hardLinks[node][k].path,
         \A e : e = Entry /\ e.kind = "file" /\ Fresh(rpm, e) => WaitsOrArrived(e)'
  PROVE  AllArrived'
<1> USE DEF InvArchive
<1>1. /\ pc = "files" /\ rpm \in 1..Len(rpms) /\ entry \in DOMAIN rpms[rpm] /\ Entry = rpms[rpm][entry]
      /\ DOMAIN rpms[rpm] \subseteq Nat
  BY ReadingIs
<1>2. rpms' = rpms
  BY DEF Written
<1>3. \A n \in 1..(rpm - 1) : \A e \in Range(rpms[n]) : e.kind = "file" /\ Fresh(n, e)' => Arrived(n, e)'
  BY <1>1, ArrivedStays DEF AllArrived
<1>4. ASSUME NEW k \in DOMAIN rpms[rpm], k < entry + 1,
             rpms[rpm][k].kind = "file", NEW e, e = rpms[rpm][k], Fresh(rpm, e)
      PROVE  WaitsOrArrived(e)'
  <2>1. CASE k = entry
    BY <1>1, <1>4, <2>1
  <2>2. CASE k # entry
    <3>1. k < entry
      BY <1>1, <1>4, <2>2
    <3>2. WaitsOrArrived(e)
      BY <1>1, <1>4, <3>1 DEF AllArrived
    <3>3. CASE IsLink(e)
      BY <3>2, <3>3 DEF WaitsOrArrived
    <3>4. CASE ~IsLink(e)
      BY <3>2, <3>4, ArrivedStays DEF WaitsOrArrived
    <3> QED BY <3>3, <3>4
  <2> QED BY <2>1, <2>2
<1>5. ASSUME NEW k \in DOMAIN rpms'[rpm'], k < entry', rpms'[rpm'][k].kind = "file",
             Fresh(rpm, rpms[rpm][k])
      PROVE  WaitsOrArrived(rpms[rpm][k])'
  <2> DEFINE e == rpms[rpm][k]
  <2>1. PICK x : x = e
    OBVIOUS
  <2>2. WaitsOrArrived(x)'
    BY <1>2, <1>4, <1>5, <2>1
  <2>3. x = rpms'[rpm'][k]
    BY <1>2, <2>1
  <2> QED BY <2>2, <2>3 DEF WaitsOrArrived, FileThere
<1>6. \A k \in DOMAIN rpms'[rpm'] : Fresh(rpm, rpms[rpm][k])' <=> Fresh(rpm, rpms[rpm][k])
  BY <1>2 DEF Fresh
<1> QED BY <1>1, <1>2, <1>3, <1>5, <1>6 DEF AllArrived, Fresh

LEMMA Undisturbed ==
  ASSUME InvArchive, options' = options, rpms' = rpms, tree' = tree, archive' = archive,
         createdPaths' = createdPaths, inodes' = inodes, hardLinks' = hardLinks, rpm' = rpm
  PROVE  /\ Given' /\ Waiting' /\ Sources' /\ Ordered' /\ Attributed'
         /\ pc' \in {pc, "failed"} => TreeThere'
<1> USE DEF InvArchive
<1>1. Given'
  BY DEF Given
<1>2. \A e : Attributes(e)' = Attributes(e)
  BY AttributesAre
<1>3. Waiting'
  <2>1. \A node \in DOMAIN hardLinks : \A k \in DOMAIN hardLinks[node] :
          hardLinks'[node][k].attributes = Attributes(hardLinks[node][k])'
    BY <1>2 DEF Waiting
  <2> QED BY <2>1 DEF Waiting
<1>4. Attributed'
  <2>1. \A j \in DOMAIN archive : Attributes(archive[j])' = Attributes(archive[j])
    BY <1>2
  <2> QED BY <2>1 DEF Attributed
<1>5. Sources'
  BY DEF Sources, Waits, IsSource, FileThere
<1>6. Ordered'
  BY DEF Ordered, Waits, IsOfTree
<1>7. pc' \in {pc, "failed"} => TreeThere'
  BY DEF TreeThere, IsOfTree, AllClaims, Claims
<1> QED BY <1>1, <1>3, <1>4, <1>5, <1>6, <1>7

LEMMA SkipDuplicateKeeps == InvArchive /\ SkipDuplicate => InvArchive'
<1> SUFFICES ASSUME InvArchive, SkipDuplicate PROVE InvArchive'
  OBVIOUS
<1>1. /\ Reading /\ Duplicate(Entry) /\ entry' = entry + 1
      /\ options' = options /\ rpms' = rpms /\ tree' = tree /\ archive' = archive
      /\ createdPaths' = createdPaths /\ inodes' = inodes /\ hardLinks' = hardLinks /\ rpm' = rpm
      /\ pc' = pc
  BY DEF SkipDuplicate
<1>2. Given' /\ Waiting' /\ Sources' /\ Ordered' /\ Attributed' /\ TreeThere'
  BY <1>1, Undisturbed
<1>3. pc = "files"
  BY <1>1, ReadingIs
<1>4. Typed' /\ Growing'
  BY <1>1, <1>3 DEF InvArchive, Typed, Growing
<1>5. Created'
  BY <1>1, CreatedKeeps
<1>6. AllArrived'
  <2>1. Written
    BY <1>1 DEF Written
  <2>2. \A e : e = Entry /\ e.kind = "file" /\ Fresh(rpm, e) => WaitsOrArrived(e)'
    BY <1>1, DuplicateIsNotFresh
  <2> QED BY <1>1, <2>1, <2>2, AllArrivedKeeps
<1> QED BY <1>2, <1>4, <1>5, <1>6 DEF InvArchive

LEMMA GivingUpKeeps == InvArchive /\ (AttributesFail \/ UnknownMode) => InvArchive'
<1> SUFFICES ASSUME InvArchive, AttributesFail \/ UnknownMode PROVE InvArchive'
  OBVIOUS
<1>1. /\ pc' = "failed" /\ entry' = entry
      /\ options' = options /\ rpms' = rpms /\ tree' = tree /\ archive' = archive
      /\ createdPaths' = createdPaths /\ inodes' = inodes /\ hardLinks' = hardLinks /\ rpm' = rpm
  BY DEF AttributesFail, UnknownMode
<1>2. Given' /\ Waiting' /\ Sources' /\ Ordered' /\ Attributed' /\ TreeThere'
  BY <1>1, Undisturbed
<1>3. Typed' /\ Growing' /\ AllArrived'
  BY <1>1 DEF InvArchive, Typed, Growing, AllArrived
<1>4. Created'
  BY <1>1 DEF InvArchive, Created, Met
<1> QED BY <1>2, <1>3, <1>4 DEF InvArchive

LEMMA StayKeeps == InvArchive /\ UNCHANGED vars => InvArchive'
<1> SUFFICES ASSUME InvArchive, UNCHANGED vars PROVE InvArchive'
  OBVIOUS
<1>1. /\ pc' = pc /\ entry' = entry
      /\ options' = options /\ rpms' = rpms /\ tree' = tree /\ archive' = archive
      /\ createdPaths' = createdPaths /\ inodes' = inodes /\ hardLinks' = hardLinks /\ rpm' = rpm
  BY DEF vars
<1>2. Given' /\ Waiting' /\ Sources' /\ Ordered' /\ Attributed' /\ TreeThere'
  BY <1>1, Undisturbed
<1>3. Typed' /\ Growing'
  BY <1>1 DEF InvArchive, Typed, Growing
<1>4. Created'
  BY <1>1 DEF InvArchive, Created, Met
<1>5. AllArrived'
  BY <1>1 DEF InvArchive, AllArrived, Fresh, Arrived, WaitsOrArrived, IsSource, FileThere
<1> QED BY <1>2, <1>3, <1>4, <1>5 DEF InvArchive

LEMMA CopyEntryKeeps == InvArchive /\ CopyEntry => InvArchive'
<1> SUFFICES ASSUME InvArchive, CopyEntry PROVE InvArchive'
  OBVIOUS
<1>1. /\ Reading /\ ~Duplicate(Entry) /\ ~InTree(Entry) /\ ~IsLink(Entry) /\ Entry.kind # "socket"
      /\ archive' = Append(archive, Header(Entry, Entry.kind, Attributes(Entry)))
      /\ inodes' = IF Entry.kind = "file" THEN With(inodes, Entry.ino, Entry.path) ELSE inodes
      /\ createdPaths' = createdPaths \cup {Entry.path} /\ entry' = entry + 1
      /\ options' = options /\ rpms' = rpms /\ tree' = tree /\ hardLinks' = hardLinks /\ rpm' = rpm
      /\ pc' = pc
  BY DEF CopyEntry
<1>2. /\ pc = "files" /\ rpm \in 1..Len(rpms) /\ Entry \in RpmEntry /\ Entry \in Range(rpms[rpm])
  BY <1>1, ReadingIs
<1>3. PICK e : e = Entry
  OBVIOUS
<1>4. /\ e \in RpmEntry /\ e \in Range(rpms[rpm]) /\ e.path \notin createdPaths /\ ~IsLink(e)
      /\ ~IsOfTree(e) /\ e.kind \in {"dir", "symlink", "file", "special"}
  BY <1>1, <1>2, <1>3 DEF Duplicate, InTree, IsOfTree, RpmEntry
<1>5. PICK h : h = Header(e, e.kind, Attributes(e))
  OBVIOUS
<1>6. /\ h \in TarHeader /\ h.path = e.path /\ h.kind = e.kind /\ h.body = e.body
      /\ h.attributes = Attributes(h)
  <2>1. Attributes(e) \in SUBSET {"capability", "selinux"}
    BY AttributesAre
  <2>2. e.kind \in {"dir", "symlink", "file", "special", "link"}
    BY <1>4
  <2>3. /\ h \in TarHeader /\ h.path = e.path /\ h.kind = e.kind /\ h.body = e.body
        /\ h.attributes = Attributes(e)
    BY <1>4, <1>5, <2>1, <2>2, HeaderIs
  <2> QED BY <2>3, AttributesAre
<1> DEFINE L == Len(archive)
<1>7. /\ archive' \in Seq(TarHeader) /\ L \in Nat /\ DOMAIN archive = 1..L /\ DOMAIN archive' = 1..(L + 1)
      /\ archive'[L + 1] = h /\ \A j \in 1..L : archive'[j] = archive[j]
  <2>1. archive \in Seq(TarHeader) /\ archive' = Append(archive, h)
    BY <1>1, <1>3, <1>5 DEF InvArchive, Typed
  <2> QED BY <1>6, <2>1, Appended
<1> HIDE DEF L
<1>8. /\ Written /\ L + 1 \in DOMAIN archive'
      /\ \A j \in DOMAIN archive' : (j \in DOMAIN archive /\ archive'[j] = archive[j]) \/ (j = L + 1 /\ archive'[j] = h)
  BY <1>1, <1>7 DEF Written
<1>9. /\ createdPaths' = createdPaths \cup {e.path}
      /\ \A p : Waits(p)' <=> Waits(p)
      /\ \A a : IsOfTree(a)' <=> IsOfTree(a)
  BY <1>1, <1>3 DEF Waits, IsOfTree
<1>10. ~Waits(e.path)
  BY <1>4 DEF InvArchive, Waiting, Waits
<1>11. Given' /\ Growing'
  BY <1>1, <1>2 DEF InvArchive, Given, Growing
<1>12. Typed'
  BY <1>1, <1>2, <1>7 DEF InvArchive, Typed
<1>13. TreeThere'
  <2> SUFFICES ASSUME ~options.stdin PROVE TreeThere'
    BY <1>1 DEF TreeThere
  <2>1. /\ SaidBy(tree.header, AllClaims)
        /\ \A j \in DOMAIN archive : IsOfTree(archive[j]) =>
             archive[j].path \in DOMAIN tree.header /\ archive[j] = tree.header[archive[j].path]
        /\ \A p \in DOMAIN tree.header : \E j \in DOMAIN archive :
             archive[j].path = p /\ IsOfTree(archive[j])
    BY <1>2 DEF InvArchive, TreeThere
  <2>2. ~IsOfTree(h)
    BY <1>4, <1>6 DEF IsOfTree
  <2>3. \A j \in DOMAIN archive' : IsOfTree(archive'[j]) =>
          archive'[j].path \in DOMAIN tree.header /\ archive'[j] = tree.header[archive'[j].path]
    BY <1>8, <2>1, <2>2
  <2>4. \A p \in DOMAIN tree.header : \E j \in DOMAIN archive' :
          archive'[j].path = p /\ IsOfTree(archive'[j])
    BY <1>8, <2>1 DEF Written
  <2>5. SaidBy(tree.header, AllClaims)' <=> SaidBy(tree.header, AllClaims)
    BY <1>1 DEF AllClaims, Claims
  <2> QED BY <1>1, <2>1, <2>3, <2>4, <2>5 DEF TreeThere, IsOfTree
<1>14. Created'
  BY <1>1, CreatedKeeps
<1>15. Waiting'
  <2>1. \A a : Attributes(a)' = Attributes(a)
    BY <1>1, AttributesAre
  <2>2. \A node \in DOMAIN hardLinks : \A k \in DOMAIN hardLinks[node] :
          hardLinks'[node][k].attributes = Attributes(hardLinks[node][k])'
    BY <1>1, <2>1 DEF InvArchive, Waiting
  <2> QED BY <1>1, <2>2 DEF InvArchive, Waiting
<1>16. FileThere(e)' \/ e.kind # "file"
  BY <1>6, <1>7, <1>8 DEF FileThere
<1>17. Sources'
  <2> SUFFICES ASSUME NEW node \in DOMAIN inodes'
               PROVE  /\ inodes'[node] \in createdPaths' /\ ~Waits(inodes'[node])
                      /\ \E o \in Range(rpms'[rpm']) : o.path = inodes'[node] /\ IsSource(rpm, o, node)'
    BY <1>1, <1>2, <1>9 DEF Sources, Waits, IsSource
  <2>1. CASE e.kind = "file" /\ node = e.ino
    <3>1. inodes'[node] = e.path
      BY <1>1, <1>3, <2>1 DEF With
    <3>2. IsSource(rpm, e, node)'
      BY <1>1, <1>4, <1>16, <2>1 DEF IsSource
    <3> QED BY <1>1, <1>4, <1>9, <1>10, <3>1, <3>2
  <2>2. CASE ~(e.kind = "file" /\ node = e.ino)
    <3>1. node \in DOMAIN inodes /\ inodes'[node] = inodes[node]
      BY <1>1, <1>3, <2>2 DEF With
    <3>2. inodes[node] \in createdPaths /\ ~Waits(inodes[node])
      BY <3>1 DEF InvArchive, Sources
    <3>3. PICK o \in Range(rpms[rpm]) : o.path = inodes[node] /\ IsSource(rpm, o, node)
      BY <3>1 DEF InvArchive, Sources
    <3>4. IsSource(rpm, o, node)'
      BY <1>1, <1>8, <3>3, ArrivedStays DEF IsSource, FileThere
    <3> QED BY <1>1, <1>9, <3>1, <3>2, <3>3, <3>4
  <2> QED BY <2>1, <2>2
<1>18. Ordered'
  <2>1. ~IsOfTree(h) /\ h.kind # "link"
    BY <1>4, <1>6 DEF IsOfTree
  <2>2. \A j \in DOMAIN archive' : ~IsOfTree(archive'[j]) =>
          archive'[j].path \in createdPaths' /\ ~Waits(archive'[j].path)
    BY <1>6, <1>8, <1>9, <1>10 DEF InvArchive, Ordered
  <2>3. \A j \in DOMAIN archive' : archive'[j].kind = "link" =>
          archive'[j].to \in createdPaths' /\ ~Waits(archive'[j].to)
    BY <1>8, <1>9, <2>1 DEF InvArchive, Ordered
  <2>4. ASSUME NEW j \in DOMAIN archive', NEW k \in DOMAIN archive', j < k
        PROVE  /\ archive'[j].path = archive'[k].path => IsOfTree(archive'[j]) /\ ~IsOfTree(archive'[k])
               /\ IsOfTree(archive'[k]) => IsOfTree(archive'[j]) /\ archive'[k].path \notin Above(archive'[j].path)
               /\ archive'[j].kind = "link" => archive'[j].to # archive'[k].path
    <3>1. CASE k \in DOMAIN archive
      <4>1. j \in DOMAIN archive /\ archive'[j] = archive[j] /\ archive'[k] = archive[k]
        BY <1>7, <2>4, <3>1
      <4> QED BY <2>4, <3>1, <4>1 DEF InvArchive, Ordered
    <3>2. CASE k = L + 1
      <4>1. j \in DOMAIN archive /\ archive'[j] = archive[j] /\ archive'[k] = h
        BY <1>7, <2>4, <3>2
      <4>2. ~IsOfTree(archive[j]) => archive[j].path \in createdPaths
        BY <4>1 DEF InvArchive, Ordered
      <4>3. archive[j].kind = "link" => archive[j].to \in createdPaths
        BY <4>1 DEF InvArchive, Ordered
      <4> QED BY <1>4, <1>6, <2>1, <4>1, <4>2, <4>3
    <3> QED BY <1>8, <3>1, <3>2
  <2>5. \A j \in DOMAIN archive' : IsOfTree(archive[j])' <=> IsOfTree(archive'[j])
    BY <1>1 DEF IsOfTree
  <2>6. \A j \in DOMAIN archive' : /\ Waits(archive[j].path)' <=> Waits(archive'[j].path)
                                   /\ Waits(archive[j].to)' <=> Waits(archive'[j].to)
    BY <1>1 DEF Waits
  <2> QED BY <2>2, <2>3, <2>4, <2>5, <2>6 DEF Ordered
<1>19. Attributed'
  <2>1. \A j \in DOMAIN archive' : archive'[j].kind \in {"file", "link"} =>
          archive'[j].attributes = Attributes(archive'[j])
    BY <1>6, <1>8 DEF InvArchive, Attributed
  <2>2. \A j \in DOMAIN archive' : Attributes(archive[j])' = Attributes(archive'[j])
    BY <1>1 DEF Attributes
  <2> QED BY <2>1, <2>2 DEF Attributed
<1>20. AllArrived'
  <2>1. \A x : x = Entry /\ x.kind = "file" /\ Fresh(rpm, x) => WaitsOrArrived(x)'
    BY <1>3, <1>4, <1>16 DEF WaitsOrArrived
  <2>2. \A node \in DOMAIN hardLinks : node \in DOMAIN hardLinks' /\
          \A k \in DOMAIN hardLinks[node] :
            k \in DOMAIN hardLinks'[node] /\ hardLinks'[node][k].path = hardLinks[node][k].path
    BY <1>1
  <2> QED BY <1>1, <1>8, <2>1, <2>2, AllArrivedKeeps
<1> QED BY <1>11, <1>12, <1>13, <1>14, <1>15, <1>17, <1>18, <1>19, <1>20 DEF InvArchive

LEMMA PassOverKeeps == InvArchive /\ PassOver => InvArchive'
<1> SUFFICES ASSUME InvArchive, PassOver PROVE InvArchive'
  OBVIOUS
<1> DEFINE known(node) == IF node \in DOMAIN hardLinks THEN hardLinks[node] ELSE <<>>
<1>1. /\ Reading /\ ~Duplicate(Entry) /\ (InTree(Entry) \/ IsLink(Entry))
      /\ hardLinks' = IF ~IsLink(Entry) THEN hardLinks
                      ELSE With(hardLinks, Entry.ino,
                                Append(known(Entry.ino), Header(Entry, "link", Attributes(Entry))))
      /\ createdPaths' = createdPaths \cup {Entry.path} /\ entry' = entry + 1
      /\ options' = options /\ rpms' = rpms /\ tree' = tree /\ archive' = archive /\ inodes' = inodes
      /\ rpm' = rpm /\ pc' = pc
  BY DEF PassOver
<1>2. /\ pc = "files" /\ rpm \in 1..Len(rpms) /\ Entry \in RpmEntry /\ Entry \in Range(rpms[rpm])
  BY <1>1, ReadingIs
<1>3. PICK e : e = Entry
  OBVIOUS
<1>4. e \in RpmEntry /\ e.path \notin createdPaths /\ e.ino \in Nat /\ (IsLink(e) => e.kind = "file")
  BY <1>1, <1>2, <1>3 DEF Duplicate, RpmEntry, IsLink
<1>5. PICK h : h = Header(e, "link", Attributes(e))
  OBVIOUS
<1>6. h \in TarHeader /\ h.path = e.path /\ h.kind = "link" /\ h.attributes = Attributes(h)
  <2>1. Attributes(e) \in SUBSET {"capability", "selinux"}
    BY AttributesAre
  <2>2. "link" \in {"dir", "symlink", "file", "special", "link"}
    OBVIOUS
  <2>3. h \in TarHeader /\ h.path = e.path /\ h.kind = "link" /\ h.attributes = Attributes(e)
    BY <1>4, <1>5, <2>1, <2>2, HeaderIs
  <2> QED BY <2>3, AttributesAre
<1>7. \A node \in DOMAIN hardLinks : /\ hardLinks[node] \in Seq(TarHeader)
                                     /\ DOMAIN hardLinks[node] = 1..Len(hardLinks[node])
                                     /\ Len(hardLinks[node]) \in Nat
  BY DEF InvArchive, Waiting
<1>8. known(e.ino) \in Seq(TarHeader)
  <2>1. CASE e.ino \in DOMAIN hardLinks
    BY <1>7, <2>1
  <2>2. CASE e.ino \notin DOMAIN hardLinks
    <3> DEFINE none == <<>>
    <3>1. none \in Seq(TarHeader)
      OBVIOUS
    <3> QED BY <2>2, <3>1
  <2> QED BY <2>1, <2>2
<1> DEFINE old == known(e.ino)
           new == Append(old, h)
<1>9. /\ new \in Seq(TarHeader) /\ Len(old) \in Nat /\ DOMAIN old = 1..Len(old)
      /\ DOMAIN new = 1..(Len(old) + 1) /\ new[Len(old) + 1] = h
      /\ \A k \in 1..Len(old) : new[k] = old[k]
  <2> HIDE DEF old
  <2>1. old \in Seq(TarHeader)
    BY <1>8 DEF old
  <2> QED BY <1>6, <2>1, Appended
<1>10. /\ e.ino \in DOMAIN hardLinks => old = hardLinks[e.ino]
       /\ e.ino \notin DOMAIN hardLinks => old = <<>>
  OBVIOUS
<1> HIDE DEF new, known, old
<1>11. IsLink(e) => hardLinks' = With(hardLinks, e.ino, new)
  BY <1>1, <1>3, <1>5 DEF new, old, known
<1>12. ~IsLink(e) => hardLinks' = hardLinks
  BY <1>1, <1>3
\* What waits: what waited before, and the entry if it is a link.
<1>13. ASSUME IsLink(e)
       PROVE  /\ DOMAIN hardLinks' = DOMAIN hardLinks \cup {e.ino} /\ hardLinks'[e.ino] = new
              /\ \A node \in DOMAIN hardLinks : node # e.ino => hardLinks'[node] = hardLinks[node]
  BY <1>11, <1>13 DEF With
<1>14. ASSUME NEW node \in DOMAIN hardLinks', NEW k \in DOMAIN hardLinks'[node]
       PROVE  \/ /\ node \in DOMAIN hardLinks /\ k \in DOMAIN hardLinks[node]
                 /\ hardLinks'[node][k] = hardLinks[node][k]
              \/ IsLink(e) /\ node = e.ino /\ k = Len(old) + 1 /\ hardLinks'[node][k] = h
  <2>1. CASE ~IsLink(e)
    BY <1>12, <1>14, <2>1
  <2>2. CASE IsLink(e) /\ node # e.ino
    BY <1>13, <1>14, <2>2
  <2>3. CASE IsLink(e) /\ node = e.ino
    <3>1. hardLinks'[node] = new /\ k \in 1..(Len(old) + 1)
      BY <1>9, <1>13, <1>14, <2>3
    <3>2. CASE k = Len(old) + 1
      BY <1>9, <2>3, <3>1, <3>2
    <3>3. CASE k # Len(old) + 1
      <4>1. k \in DOMAIN old /\ new[k] = old[k]
        BY <1>9, <3>1, <3>3
      <4>2. e.ino \in DOMAIN hardLinks
        <5>1. DOMAIN <<>> = {}
          OBVIOUS
        <5> QED BY <1>10, <4>1, <5>1
      <4> QED BY <1>10, <2>3, <3>1, <4>1, <4>2
    <3> QED BY <3>2, <3>3
  <2> QED BY <2>1, <2>2, <2>3
<1>15. ASSUME NEW node \in DOMAIN hardLinks
       PROVE  /\ node \in DOMAIN hardLinks'
              /\ \A k \in DOMAIN hardLinks[node] :
                   k \in DOMAIN hardLinks'[node] /\ hardLinks'[node][k] = hardLinks[node][k]
  <2>1. CASE ~IsLink(e)
    BY <1>12, <1>15, <2>1
  <2>2. CASE IsLink(e) /\ node # e.ino
    BY <1>13, <1>15, <2>2
  <2>3. CASE IsLink(e) /\ node = e.ino
    BY <1>9, <1>10, <1>13, <1>15, <2>3
  <2> QED BY <2>1, <2>2, <2>3
<1>16. \A p : Waits(p)' => Waits(p) \/ p = e.path
  BY <1>6, <1>14 DEF Waits
<1>17. /\ createdPaths' = createdPaths \cup {e.path}
       /\ \A a : IsOfTree(a)' <=> IsOfTree(a)
       /\ Written
  BY <1>1, <1>3 DEF IsOfTree, Written
<1>18. Given' /\ Growing' /\ Typed'
  BY <1>1, <1>2 DEF InvArchive, Given, Growing, Typed
<1>19. TreeThere'
  BY <1>1 DEF InvArchive, TreeThere, IsOfTree, AllClaims, Claims
<1>20. Created'
  BY <1>1, CreatedKeeps
<1>21. Waiting'
  <2>1. IsFiniteSet(DOMAIN hardLinks') /\ DOMAIN hardLinks' \subseteq Nat
    <3>1. IsFiniteSet(DOMAIN hardLinks) /\ DOMAIN hardLinks \subseteq Nat
      BY DEF InvArchive, Waiting
    <3>2. CASE IsLink(e)
      <4>1. IsFiniteSet(DOMAIN hardLinks \cup {e.ino})
        BY <3>1, FS_AddElement
      <4> QED BY <1>4, <1>13, <3>1, <3>2, <4>1
    <3> QED BY <1>12, <3>1, <3>2
  <2>2. \A node \in DOMAIN hardLinks' : hardLinks'[node] \in Seq(TarHeader)
    BY <1>7, <1>9, <1>12, <1>13
  <2>3. ASSUME NEW node \in DOMAIN hardLinks', NEW k \in DOMAIN hardLinks'[node]
        PROVE  /\ hardLinks'[node][k].kind = "link" /\ hardLinks'[node][k].path \in createdPaths'
               /\ hardLinks'[node][k].attributes = Attributes(hardLinks'[node][k])
    BY <1>6, <1>14, <1>17 DEF InvArchive, Waiting
  <2>4. ASSUME NEW node \in DOMAIN hardLinks', NEW other \in DOMAIN hardLinks',
               NEW k \in DOMAIN hardLinks'[node], NEW i \in DOMAIN hardLinks'[other],
               hardLinks'[node][k].path = hardLinks'[other][i].path
        PROVE  node = other /\ k = i
    <3>1. \A x \in DOMAIN hardLinks : \A y \in DOMAIN hardLinks[x] : hardLinks[x][y].path \in createdPaths
      BY DEF InvArchive, Waiting
    <3>2. \A x, z \in DOMAIN hardLinks : \A y \in DOMAIN hardLinks[x], w \in DOMAIN hardLinks[z] :
            hardLinks[x][y].path = hardLinks[z][w].path => x = z /\ y = w
      BY DEF InvArchive, Waiting
    <3>3. \/ /\ node \in DOMAIN hardLinks /\ k \in DOMAIN hardLinks[node]
             /\ hardLinks'[node][k] = hardLinks[node][k]
          \/ node = e.ino /\ k = Len(old) + 1 /\ hardLinks'[node][k] = h
      BY <1>14
    <3>4. \/ /\ other \in DOMAIN hardLinks /\ i \in DOMAIN hardLinks[other]
             /\ hardLinks'[other][i] = hardLinks[other][i]
          \/ other = e.ino /\ i = Len(old) + 1 /\ hardLinks'[other][i] = h
      BY <1>14
    <3> QED BY <1>4, <1>6, <2>4, <3>1, <3>2, <3>3, <3>4
  <2>5. \A node \in DOMAIN hardLinks' : \A k \in DOMAIN hardLinks'[node] :
          Attributes(hardLinks[node][k])' = Attributes(hardLinks'[node][k])
    BY <1>1 DEF Attributes
  <2> QED BY <2>1, <2>2, <2>3, <2>4, <2>5 DEF Waiting
<1>22. Sources'
  <2> SUFFICES ASSUME NEW node \in DOMAIN inodes
               PROVE  /\ inodes[node] \in createdPaths' /\ ~Waits(inodes[node])'
                      /\ \E o \in Range(rpms[rpm]) : o.path = inodes[node] /\ IsSource(rpm, o, node)'
    BY <1>1, <1>2 DEF Sources, Waits, IsSource
  <2>1. inodes[node] \in createdPaths /\ ~Waits(inodes[node])
    BY DEF InvArchive, Sources
  <2>2. PICK p : p = inodes[node]
    OBVIOUS
  <2>3. ~Waits(p)'
    BY <1>4, <1>16, <2>1, <2>2
  <2>4. Waits(inodes[node])' <=> Waits(p)'
    BY <1>1, <2>2 DEF Waits
  <2>5. PICK o \in Range(rpms[rpm]) : o.path = inodes[node] /\ IsSource(rpm, o, node)
    BY DEF InvArchive, Sources
  <2>6. IsSource(rpm, o, node)'
    BY <1>1, <2>5 DEF IsSource, FileThere
  <2> QED BY <1>17, <2>1, <2>3, <2>4, <2>5, <2>6
<1>23. Ordered'
  <2>1. \A j \in DOMAIN archive : ~IsOfTree(archive[j]) =>
          archive[j].path \in createdPaths /\ archive[j].path # e.path /\ ~Waits(archive[j].path)
    BY <1>4 DEF InvArchive, Ordered
  <2>2. \A j \in DOMAIN archive : archive[j].kind = "link" =>
          archive[j].to \in createdPaths /\ archive[j].to # e.path /\ ~Waits(archive[j].to)
    BY <1>4 DEF InvArchive, Ordered
  <2>3. \A j \in DOMAIN archive : IsOfTree(archive[j])' <=> IsOfTree(archive[j])
    BY <1>1 DEF IsOfTree
  <2>4. ASSUME NEW p, ~Waits(p), p # e.path PROVE ~Waits(p)'
    BY <1>16, <2>4
  <2>5. \A j \in DOMAIN archive : \A p : p = archive[j].path => (Waits(archive[j].path)' <=> Waits(p)')
    BY <1>1 DEF Waits
  <2>6. \A j \in DOMAIN archive : \A p : p = archive[j].to => (Waits(archive[j].to)' <=> Waits(p)')
    BY <1>1 DEF Waits
  <2>7. \A j \in DOMAIN archive : ~IsOfTree(archive[j]) => ~Waits(archive[j].path)'
    BY <2>1, <2>4, <2>5
  <2>8. \A j \in DOMAIN archive : archive[j].kind = "link" => ~Waits(archive[j].to)'
    BY <2>2, <2>4, <2>6
  <2>9. \A j, k \in DOMAIN archive : j < k =>
          /\ archive[j].path = archive[k].path => IsOfTree(archive[j]) /\ ~IsOfTree(archive[k])
          /\ IsOfTree(archive[k]) => IsOfTree(archive[j]) /\ archive[k].path \notin Above(archive[j].path)
          /\ archive[j].kind = "link" => archive[j].to # archive[k].path
    BY DEF InvArchive, Ordered
  <2> QED BY <1>1, <1>17, <2>1, <2>2, <2>3, <2>7, <2>8, <2>9 DEF Ordered
<1>24. Attributed'
  <2>1. \A j \in DOMAIN archive : Attributes(archive[j])' = Attributes(archive[j])
    BY <1>1 DEF Attributes
  <2> QED BY <1>1, <2>1 DEF InvArchive, Attributed
<1>25. AllArrived'
  <2>1. \A x : x = Entry /\ x.kind = "file" /\ Fresh(rpm, x) => WaitsOrArrived(x)'
    <3> SUFFICES ASSUME e.kind = "file" PROVE WaitsOrArrived(e)'
      BY <1>3
    <3>1. IsLink(e)
      BY <1>1, <1>3 DEF InTree
    <3>2. Len(old) + 1 \in DOMAIN new
      BY <1>9
    <3> QED BY <1>6, <1>9, <1>13, <3>1, <3>2 DEF WaitsOrArrived
  <2>2. \A node \in DOMAIN hardLinks : node \in DOMAIN hardLinks' /\
          \A k \in DOMAIN hardLinks[node] :
            k \in DOMAIN hardLinks'[node] /\ hardLinks'[node][k].path = hardLinks[node][k].path
    BY <1>15
  <2> QED BY <1>1, <1>17, <2>1, <2>2, AllArrivedKeeps
<1> QED BY <1>18, <1>19, <1>20, <1>21, <1>22, <1>23, <1>24, <1>25 DEF InvArchive

\* The inodes in their order are all of them.
LEMMA SortedIsAll ==
  ASSUME NEW S \in SUBSET Nat, IsFiniteSet(S), NEW s \in Sorted(S)
  PROVE  /\ Cardinality(S) \in Nat /\ s \in [1..Cardinality(S) -> S]
         /\ \A m, n \in 1..Cardinality(S) : s[m] = s[n] => m = n
         /\ \A x \in S : \E n \in 1..Cardinality(S) : s[n] = x
<1> DEFINE c == Cardinality(S)
<1>1. c \in Nat
  BY FS_CardinalityType
<1>2. s \in [1..c -> S] /\ \A m, n \in 1..c : m < n => s[m] < s[n]
  BY DEF Sorted
<1> HIDE DEF c
<1>3. \A m, n \in 1..c : s[m] = s[n] => m = n
  <2> TAKE m, n \in 1..c
  <2>1. s[m] \in Nat /\ s[n] \in Nat /\ m \in Nat /\ n \in Nat
    <3>1. s[m] \in S /\ s[n] \in S
      BY <1>2
    <3>2. m \in Nat /\ n \in Nat
      BY <1>1
    <3> QED BY <3>1, <3>2
  <2>2. m < n \/ n < m \/ m = n
    BY <2>1
  <2>3. s[m] < s[n] \/ s[n] < s[m] \/ m = n
    BY <1>2, <2>2
  <2> QED BY <2>1, <2>3
<1>4. IsFiniteSet(1..c) /\ Cardinality(1..c) = c
  BY <1>1, FS_Interval
<1>5. s \in Injection(1..c, S)
  BY <1>2, <1>3 DEF Injection, IsInjective
<1>6. Cardinality(1..c) = Cardinality(S)
  BY <1>4 DEF c
<1>7. s \in Surjection(1..c, S)
  BY <1>5, <1>6, FS_Injection
<1>8. \A x \in S : \E n \in 1..c : s[n] = x
  BY <1>7 DEF Surjection
<1> QED BY <1>1, <1>2, <1>3, <1>8 DEF c

AllLinks(s) == FlattenSeq([n \in DOMAIN s |-> LinksTo(s[n])])
LinkTo(a, node, k) == a = [hardLinks[node][k] EXCEPT !.to = inodes[node]]

LEMMA LinksWritten ==
  ASSUME InvArchive, NEW ready \in SUBSET (DOMAIN hardLinks \cap DOMAIN inodes), NEW s \in Sorted(ready),
         NEW b, b = AllLinks(s)
  PROVE  /\ b \in Seq(TarHeader)
         /\ \A j \in DOMAIN b : \E node \in ready : \E k \in DOMAIN hardLinks[node] : LinkTo(b[j], node, k)
         /\ \A i, j \in DOMAIN b : i < j => b[i].path # b[j].path
         /\ \A node \in ready : \A k \in DOMAIN hardLinks[node] : \E j \in DOMAIN b : LinkTo(b[j], node, k)
<1> USE DEF InvArchive
<1> DEFINE c == Cardinality(ready)
           parts == [n \in DOMAIN s |-> LinksTo(s[n])]
<1>1. IsFiniteSet(ready) /\ ready \subseteq Nat
  BY FS_Subset DEF Waiting
<1>2. /\ c \in Nat /\ s \in [1..c -> ready]
      /\ \A m, n \in 1..c : s[m] = s[n] => m = n
      /\ \A x \in ready : \E n \in 1..c : s[n] = x
  BY <1>1, SortedIsAll
<1> HIDE DEF c
<1>3. parts = [n \in 1..c |-> parts[n]] /\ \A n \in 1..c : parts[n] = LinksTo(s[n])
  BY <1>2
<1> HIDE DEF parts
<1>4. ASSUME NEW node \in ready
      PROVE  /\ LinksTo(node) \in Seq(TarHeader) /\ DOMAIN LinksTo(node) = DOMAIN hardLinks[node]
             /\ \A k \in DOMAIN hardLinks[node] : /\ LinkTo(LinksTo(node)[k], node, k)
                                                  /\ LinksTo(node)[k].path = hardLinks[node][k].path
  <2> DEFINE w == hardLinks[node]
             resolved == [n \in DOMAIN w |-> [w[n] EXCEPT !.to = inodes[node]]]
  <2>1. w \in Seq(TarHeader) /\ LinksTo(node) = resolved
    BY DEF Waiting, LinksTo
  <2>2. DOMAIN w = 1..Len(w) /\ Len(w) \in Nat /\ \A n \in DOMAIN w : w[n] \in TarHeader
    BY <2>1
  <2>3. inodes[node] \in Seq(Name)
    <3>1. rpm \in 1..Len(rpms) /\ \E o \in Range(rpms[rpm]) : o.path = inodes[node]
      BY DEF Sources
    <3>2. rpms[rpm] \in Seq(RpmEntry)
      BY <3>1, RpmsAre
    <3>4. PICK i \in DOMAIN rpms[rpm] : rpms[rpm][i].path = inodes[node]
      BY <3>1 DEF Range
    <3>5. rpms[rpm][i] \in RpmEntry
      BY <3>2
    <3>3. inodes[node] \in Path
      BY <3>4, <3>5 DEF RpmEntry
    <3> QED BY <3>3 DEF Path
  <2>4. ASSUME NEW n \in DOMAIN w
        PROVE  [w[n] EXCEPT !.to = inodes[node]] \in TarHeader /\ [w[n] EXCEPT !.to = inodes[node]].path = w[n].path
    BY <2>2, <2>3 DEF TarHeader
  <2> HIDE DEF w
  <2>5. \A n \in DOMAIN w : /\ resolved[n] \in TarHeader /\ resolved[n].path = w[n].path
                            /\ resolved[n] = [w[n] EXCEPT !.to = inodes[node]]
    BY <2>4
  <2>6. resolved \in Seq(TarHeader) /\ DOMAIN resolved = DOMAIN w
    <3>1. resolved = [n \in 1..Len(w) |-> resolved[n]]
      BY <2>2
    <3> HIDE DEF resolved
    <3> QED BY <2>2, <2>5, <3>1
  <2> HIDE DEF resolved
  <2> QED BY <2>1, <2>5, <2>6 DEF LinkTo, w
<1>5. b \in Seq(TarHeader) /\ LaidOut(b, parts, c)
  <2>1. \A n \in 1..c : parts[n] \in Seq(TarHeader)
    BY <1>2, <1>3, <1>4
  <2>2. b = FlattenSeq(parts)
    BY DEF parts, AllLinks
  <2>3. FlattenSeq(parts) \in Seq(TarHeader) /\ LaidOut(FlattenSeq(parts), parts, c)
    <3>1. c \in Nat /\ parts = [n \in 1..c |-> parts[n]]
      BY <1>2, <1>3
    <3> QED BY <2>1, <3>1, FlattenSeqLaidOut
  <2> QED BY <2>2, <2>3
<1>6. PICK row, col \in [1..Len(b) -> Nat] : Places(row, col, b, parts, c)
  BY <1>5 DEF LaidOut
<1>7. DOMAIN b = 1..Len(b)
  BY <1>5
<1>8. ASSUME NEW j \in DOMAIN b
      PROVE  /\ row[j] \in 1..c /\ s[row[j]] \in ready /\ col[j] \in DOMAIN hardLinks[s[row[j]]]
             /\ LinkTo(b[j], s[row[j]], col[j]) /\ b[j].path = hardLinks[s[row[j]]][col[j]].path
             /\ row[j] \in Nat /\ col[j] \in Nat
  <2>1. row[j] \in 1..c /\ col[j] \in DOMAIN parts[row[j]] /\ b[j] = parts[row[j]][col[j]]
    BY <1>6, <1>7 DEF Places
  <2>2. s[row[j]] \in ready /\ parts[row[j]] = LinksTo(s[row[j]])
    BY <1>2, <1>3, <2>1
  <2>3. row[j] \in Nat /\ col[j] \in Nat
    BY <1>6, <1>7
  <2> QED BY <1>4, <2>1, <2>2, <2>3
<1>9. ASSUME NEW i \in DOMAIN b, NEW j \in DOMAIN b, i < j PROVE b[i].path # b[j].path
  <2> SUFFICES ASSUME b[i].path = b[j].path PROVE FALSE
    OBVIOUS
  <2>1. row[i] < row[j] \/ (row[i] = row[j] /\ col[i] < col[j])
    BY <1>6, <1>7, <1>9 DEF Places
  <2>2. s[row[i]] = s[row[j]] /\ col[i] = col[j]
    <3>1. \A node, other \in ready : \A k \in DOMAIN hardLinks[node], x \in DOMAIN hardLinks[other] :
            hardLinks[node][k].path = hardLinks[other][x].path => node = other /\ k = x
      BY DEF Waiting
    <3> DEFINE n == s[row[i]]
               m == s[row[j]]
               k == col[i]
               x == col[j]
    <3>2. /\ s[row[i]] \in ready /\ col[i] \in DOMAIN hardLinks[s[row[i]]]
          /\ s[row[j]] \in ready /\ col[j] \in DOMAIN hardLinks[s[row[j]]]
          /\ hardLinks[s[row[i]]][col[i]].path = hardLinks[s[row[j]]][col[j]].path
      BY <1>8
    <3>3. /\ n \in ready /\ k \in DOMAIN hardLinks[n] /\ m \in ready /\ x \in DOMAIN hardLinks[m]
          /\ hardLinks[n][k].path = hardLinks[m][x].path
      BY <3>2
    <3> HIDE DEF n, m, k, x
    <3>4. n = m /\ k = x
      BY <3>1, <3>3
    <3> QED BY <3>4 DEF n, m, k, x
  <2>3. row[i] = row[j]
    BY <1>2, <1>8, <2>2
  <2>4. row[i] \in Nat /\ row[j] \in Nat /\ col[i] \in Nat /\ col[j] \in Nat
    BY <1>8
  <2> QED BY <2>1, <2>2, <2>3, <2>4
<1>10. ASSUME NEW node \in ready, NEW k \in DOMAIN hardLinks[node]
       PROVE  \E j \in DOMAIN b : LinkTo(b[j], node, k)
  <2>1. PICK n \in 1..c : s[n] = node
    BY <1>2
  <2>2. k \in DOMAIN parts[n]
    BY <1>3, <1>4, <2>1
  <2>3. PICK j \in 1..Len(b) : row[j] = n /\ col[j] = k
    BY <1>6, <2>2 DEF Places
  <2> QED BY <1>7, <1>8, <2>1, <2>3
<1>11. \A j \in DOMAIN b : \E node \in ready : \E k \in DOMAIN hardLinks[node] : LinkTo(b[j], node, k)
  BY <1>8
<1> QED BY <1>5, <1>9, <1>10, <1>11

LEMMA WriteHardLinksKeeps == InvArchive /\ WriteHardLinks => InvArchive'
<1> SUFFICES ASSUME InvArchive, WriteHardLinks PROVE InvArchive'
  OBVIOUS
<1> DEFINE lost == DOMAIN hardLinks \ DOMAIN inodes
           ready == {node \in DOMAIN hardLinks : \A l \in lost : node < l}
           L == Len(archive)
<1>1. /\ pc = "files" /\ rpm <= Len(rpms) /\ entry > Len(rpms[rpm])
      /\ inodes' = <<>> /\ hardLinks' = <<>> /\ rpm' = rpm + 1 /\ entry' = 1
      /\ pc' = IF lost # {} THEN "failed" ELSE IF rpm = Len(rpms) THEN "done" ELSE pc
      /\ options' = options /\ rpms' = rpms /\ tree' = tree /\ createdPaths' = createdPaths
  BY DEF WriteHardLinks, NextMaps
<1>2. PICK s \in Sorted(ready) : archive' = archive \o AllLinks(s)
  BY DEF WriteHardLinks, AllLinks
<1>3. ready \in SUBSET (DOMAIN hardLinks \cap DOMAIN inodes) /\ (lost = {} => ready = DOMAIN hardLinks)
  <2>1. \A node \in DOMAIN hardLinks : ~(node < node)
    BY DEF InvArchive, Waiting
  <2> QED BY <2>1
<1> HIDE DEF ready
<1>4. PICK b : b = AllLinks(s)
  OBVIOUS
<1>5. /\ b \in Seq(TarHeader)
      /\ \A j \in DOMAIN b : \E node \in ready : \E k \in DOMAIN hardLinks[node] : LinkTo(b[j], node, k)
      /\ \A i, j \in DOMAIN b : i < j => b[i].path # b[j].path
      /\ \A node \in ready : \A k \in DOMAIN hardLinks[node] : \E j \in DOMAIN b : LinkTo(b[j], node, k)
  BY <1>3, <1>4, LinksWritten
<1>6. /\ archive' \in Seq(TarHeader) /\ L \in Nat /\ DOMAIN archive = 1..L
      /\ DOMAIN b = 1..Len(b) /\ Len(b) \in Nat /\ DOMAIN archive' = 1..(L + Len(b))
      /\ \A j \in 1..L : archive'[j] = archive[j]
      /\ \A j \in 1..Len(b) : archive'[L + j] = b[j]
  <2>1. archive \in Seq(TarHeader) /\ archive' = archive \o b
    BY <1>2, <1>4 DEF InvArchive, Typed
  <2> QED BY <1>5, <2>1, Concatenated
<1> HIDE DEF L
<1>7. Written
  BY <1>1, <1>6 DEF Written
<1>8. ASSUME NEW j \in DOMAIN archive', j \notin DOMAIN archive
      PROVE  j - L \in DOMAIN b /\ archive'[j] = b[j - L]
  <2>1. j - L \in 1..Len(b) /\ L + (j - L) = j
    BY <1>6, <1>8, Beyond
  <2> QED BY <1>6, <2>1
<1>9. ASSUME NEW a, NEW node \in ready, NEW k \in DOMAIN hardLinks[node], LinkTo(a, node, k)
      PROVE  /\ a.path = hardLinks[node][k].path /\ a.kind = "link" /\ a.to = inodes[node]
             /\ a.attributes = Attributes(a)
             /\ a.path \in createdPaths /\ Waits(a.path) /\ a.to \in createdPaths /\ ~Waits(a.to)
  <2>1. /\ hardLinks[node] \in Seq(TarHeader) /\ node \in DOMAIN inodes
        /\ hardLinks[node][k].kind = "link" /\ hardLinks[node][k].path \in createdPaths
        /\ hardLinks[node][k].attributes = Attributes(hardLinks[node][k])
    BY <1>3 DEF InvArchive, Waiting
  <2>2. PICK w \in TarHeader : w = hardLinks[node][k]
    BY <2>1
  <2>3. /\ a.path = w.path /\ a.kind = w.kind /\ a.to = inodes[node] /\ a.attributes = w.attributes
    BY <1>9, <2>2 DEF LinkTo, TarHeader
  <2>4. Attributes(a) = Attributes(w)
    BY <2>3, AttributesAre
  <2>5. inodes[node] \in createdPaths /\ ~Waits(inodes[node])
    BY <2>1 DEF InvArchive, Sources
  <2>6. Waits(w.path)
    BY <1>3, <2>2 DEF Waits
  <2> QED BY <2>1, <2>2, <2>3, <2>4, <2>5, <2>6
<1>10. ASSUME NEW j \in DOMAIN b
       PROVE  /\ b[j].kind = "link" /\ b[j].attributes = Attributes(b[j]) /\ ~IsOfTree(b[j])
              /\ b[j].path \in createdPaths /\ Waits(b[j].path) /\ b[j].to \in createdPaths /\ ~Waits(b[j].to)
  <2>1. PICK node \in ready : \E k \in DOMAIN hardLinks[node] : LinkTo(b[j], node, k)
    BY <1>5
  <2>2. PICK k \in DOMAIN hardLinks[node] : LinkTo(b[j], node, k)
    BY <2>1
  <2> QED BY <1>9, <2>2 DEF IsOfTree
<1>11. DOMAIN inodes' = {} /\ DOMAIN hardLinks' = {}
  BY <1>1
<1>12. \A p : ~Waits(p)'
  BY <1>11 DEF Waits
<1>13. rpm \in 1..Len(rpms) /\ Len(rpms) \in Nat
  BY <1>1 DEF InvArchive, Typed, Given
<1>14. Given' /\ Growing'
  BY <1>1 DEF InvArchive, Given, Growing
<1>15. Typed'
  BY <1>1, <1>6, <1>13 DEF InvArchive, Typed
<1>16. TreeThere'
  <2> SUFFICES ASSUME ~options.stdin PROVE TreeThere'
    BY <1>1 DEF TreeThere
  <2>1. /\ SaidBy(tree.header, AllClaims)
        /\ \A j \in DOMAIN archive : IsOfTree(archive[j]) =>
             archive[j].path \in DOMAIN tree.header /\ archive[j] = tree.header[archive[j].path]
        /\ \A p \in DOMAIN tree.header : \E j \in DOMAIN archive :
             archive[j].path = p /\ IsOfTree(archive[j])
    BY <1>1 DEF InvArchive, TreeThere
  <2>3. \A j \in DOMAIN archive' : IsOfTree(archive'[j]) =>
          archive'[j].path \in DOMAIN tree.header /\ archive'[j] = tree.header[archive'[j].path]
    BY <1>7, <1>8, <1>10, <2>1 DEF Written
  <2>4. \A p \in DOMAIN tree.header : \E j \in DOMAIN archive' :
          archive'[j].path = p /\ IsOfTree(archive'[j])
    BY <1>7, <2>1 DEF Written
  <2>5. SaidBy(tree.header, AllClaims)' <=> SaidBy(tree.header, AllClaims)
    BY <1>1 DEF AllClaims, Claims
  <2> QED BY <1>1, <2>1, <2>3, <2>4, <2>5 DEF TreeThere, IsOfTree
<1>17. Created'
  <2>1. \A n \in 1..Len(rpms) : \A k \in DOMAIN rpms[n] : Met(n, k) => Met(n, k)'
    BY <1>1, <1>13 DEF Met
  <2> QED BY <1>1, <2>1 DEF InvArchive, Created
<1>18. Waiting' /\ Sources'
  BY <1>11, FS_EmptySet DEF Waiting, Sources
<1>19. Ordered'
  <2>1. ASSUME NEW j \in DOMAIN archive'
        PROVE  /\ ~IsOfTree(archive'[j]) => archive'[j].path \in createdPaths
               /\ archive'[j].kind = "link" => archive'[j].to \in createdPaths
    <3>1. CASE j \in DOMAIN archive
      BY <1>7, <3>1 DEF Written, InvArchive, Ordered
    <3>2. CASE j \notin DOMAIN archive
      BY <1>8, <1>10, <3>2
    <3> QED BY <3>1, <3>2
  <2>2. ASSUME NEW j \in DOMAIN archive', NEW k \in DOMAIN archive', j < k
        PROVE  /\ archive'[j].path = archive'[k].path => IsOfTree(archive'[j]) /\ ~IsOfTree(archive'[k])
               /\ IsOfTree(archive'[k]) => IsOfTree(archive'[j]) /\ archive'[k].path \notin Above(archive'[j].path)
               /\ archive'[j].kind = "link" => archive'[j].to # archive'[k].path
    <3>1. CASE k \in DOMAIN archive
      <4>1. j \in DOMAIN archive /\ archive'[j] = archive[j] /\ archive'[k] = archive[k]
        BY <1>6, <2>2, <3>1
      <4> QED BY <2>2, <3>1, <4>1 DEF InvArchive, Ordered
    <3>2. CASE k \notin DOMAIN archive /\ j \in DOMAIN archive
      <4>1. k - L \in DOMAIN b /\ archive'[k] = b[k - L] /\ archive'[j] = archive[j]
        BY <1>6, <1>8, <3>2
      <4>2. ~IsOfTree(archive[j]) => ~Waits(archive[j].path)
        BY <3>2 DEF InvArchive, Ordered
      <4>3. archive[j].kind = "link" => ~Waits(archive[j].to)
        BY <3>2 DEF InvArchive, Ordered
      <4>4. Waits(archive'[k].path) /\ ~IsOfTree(archive'[k])
        BY <1>10, <4>1
      <4>5. \A p, q : Waits(p) /\ ~Waits(q) => p # q
        OBVIOUS
      <4> QED BY <4>1, <4>2, <4>3, <4>4, <4>5
    <3>3. CASE k \notin DOMAIN archive /\ j \notin DOMAIN archive
      <4>1. /\ k - L \in DOMAIN b /\ archive'[k] = b[k - L]
            /\ j - L \in DOMAIN b /\ archive'[j] = b[j - L]
        BY <1>8, <3>3
      <4>2. j - L < k - L
        BY <1>6, <2>2
      <4>3. archive'[j].path # archive'[k].path
        BY <1>5, <4>1, <4>2
      <4>4. ~IsOfTree(archive'[k]) /\ Waits(archive'[k].path) /\ ~Waits(archive'[j].to)
        BY <1>10, <4>1
      <4> QED BY <4>3, <4>4
    <3> QED BY <3>1, <3>2, <3>3
  <2>3. \A j \in DOMAIN archive' : IsOfTree(archive[j])' <=> IsOfTree(archive'[j])
    BY <1>1 DEF IsOfTree
  <2>4. \A j \in DOMAIN archive' : ~Waits(archive[j].path)' /\ ~Waits(archive[j].to)'
    BY <1>11 DEF Waits
  <2> QED BY <1>1, <2>1, <2>2, <2>3, <2>4 DEF Ordered
<1>20. Attributed'
  <2>1. ASSUME NEW j \in DOMAIN archive', archive'[j].kind \in {"file", "link"}
        PROVE  archive'[j].attributes = Attributes(archive'[j])
    <3>1. CASE j \in DOMAIN archive
      BY <1>7, <2>1, <3>1 DEF Written, InvArchive, Attributed
    <3>2. CASE j \notin DOMAIN archive
      BY <1>8, <1>10, <3>2
    <3> QED BY <3>1, <3>2
  <2>2. \A j \in DOMAIN archive' : Attributes(archive[j])' = Attributes(archive'[j])
    BY <1>1 DEF Attributes
  <2> QED BY <2>1, <2>2 DEF Attributed
<1>21. AllArrived'
  <2>1. CASE pc' = "failed"
    BY <2>1 DEF AllArrived
  <2>2. CASE pc' # "failed"
    <3>1. ready = DOMAIN hardLinks
      BY <1>1, <1>3, <2>2
    <3>2. rpms[rpm] \in Seq(RpmEntry) /\ \A k \in DOMAIN rpms[rpm] : k < entry
      <4>1. rpms[rpm] \in Seq(RpmEntry) /\ DOMAIN rpms[rpm] = 1..Len(rpms[rpm]) /\ Len(rpms[rpm]) \in Nat
        BY <1>13, RpmsAre DEF InvArchive
      <4>2. entry \in Nat
        BY DEF InvArchive, Typed
      <4> QED BY <1>1, <4>1, <4>2
    <3>3. ASSUME NEW n, n = rpm, NEW e \in Range(rpms[n]), e.kind = "file", Fresh(n, e) PROVE Arrived(n, e)'
      <4>1. PICK k \in DOMAIN rpms[rpm] : rpms[rpm][k] = e
        BY <3>3 DEF Range
      <4>2. WaitsOrArrived(e)
        BY <1>1, <3>2, <3>3, <4>1 DEF InvArchive, AllArrived
      <4>3. CASE ~IsLink(e)
        BY <1>7, <4>2, <4>3, ArrivedStays DEF WaitsOrArrived, Arrived
      <4>4. CASE IsLink(e)
        <5>1. PICK i \in DOMAIN hardLinks[e.ino] : hardLinks[e.ino][i].path = e.path
          BY <4>2, <4>4 DEF WaitsOrArrived
        <5>2. e.ino \in ready /\ e.ino \in DOMAIN inodes
          BY <1>3, <3>1, <4>2, <4>4 DEF WaitsOrArrived
        <5>3. PICK j \in DOMAIN b : LinkTo(b[j], e.ino, i)
          BY <1>5, <5>1, <5>2
        <5>4. b[j].path = e.path /\ b[j].kind = "link" /\ b[j].to = inodes[e.ino]
          BY <1>9, <5>1, <5>2, <5>3
        <5>5. PICK o \in Range(rpms[rpm]) : o.path = inodes[e.ino] /\ IsSource(rpm, o, e.ino)
          BY <5>2 DEF InvArchive, Sources
        <5>7. IsSource(n, o, e.ino)' /\ o \in Range(rpms[n]) /\ o.path = b[j].to
          BY <1>7, <3>3, <5>4, <5>5, ArrivedStays
        <5>8. L + j \in DOMAIN archive' /\ archive'[L + j] = b[j]
          BY <1>6
        <5> QED BY <1>1, <4>4, <5>4, <5>7, <5>8 DEF Arrived
      <4> QED BY <4>3, <4>4
    <3>4. ASSUME NEW n \in 1..(rpm' - 1), NEW e \in Range(rpms[n]), e.kind = "file", Fresh(n, e)
          PROVE  Arrived(n, e)'
      <4>1. CASE n = rpm
        BY <3>3, <3>4, <4>1
      <4>2. CASE n # rpm
        <5>1. n \in 1..(rpm - 1)
          BY <1>1, <1>13, <4>2
        <5>2. Arrived(n, e)
          BY <1>1, <3>4, <5>1 DEF InvArchive, AllArrived
        <5> QED BY <1>7, <5>2, ArrivedStays
      <4> QED BY <4>1, <4>2
    <3>5. \A n, e : Fresh(n, e)' <=> Fresh(n, e)
      BY <1>7, ArrivedStays
    <3>6. pc' = "files" => \A k \in DOMAIN rpms[rpm'] : ~(k < entry')
      <4> SUFFICES ASSUME pc' = "files" PROVE \A k \in DOMAIN rpms[rpm'] : ~(k < entry')
        OBVIOUS
      <4>1. rpm' \in 1..Len(rpms)
        BY <1>1, <1>13
      <4>2. rpms[rpm'] \in Seq(RpmEntry)
        BY <4>1, RpmsAre DEF InvArchive
      <4> QED BY <1>1, <4>2
    <3> QED BY <1>1, <3>4, <3>5, <3>6 DEF AllArrived
  <2> QED BY <2>1, <2>2
<1> QED BY <1>14, <1>15, <1>16, <1>17, <1>18, <1>19, <1>20, <1>21 DEF InvArchive

LEMMA NextKeeps == InvArchive /\ [Next]_vars => InvArchive'
<1> SUFFICES ASSUME InvArchive, [Next]_vars PROVE InvArchive'
  OBVIOUS
<1>1. CASE AddRPM
  BY <1>1, AddRPMKeeps
<1>2. CASE WriteTree
  BY <1>2, WriteTreeKeeps
<1>3. CASE SkipDuplicate
  BY <1>3, SkipDuplicateKeeps
<1>4. CASE CopyEntry
  BY <1>4, CopyEntryKeeps
<1>5. CASE PassOver
  BY <1>5, PassOverKeeps
<1>6. CASE AttributesFail \/ UnknownMode
  BY <1>6, GivingUpKeeps
<1>7. CASE WriteHardLinks
  BY <1>7, WriteHardLinksKeeps
<1>8. CASE UNCHANGED vars
  BY <1>8, StayKeeps
<1> QED BY <1>1, <1>2, <1>3, <1>4, <1>5, <1>6, <1>7, <1>8 DEF Next, Terminated

\* Those who read the archive leave the command alone.
LEMMA ReadersLeaveIt == (Unpack \/ TakeOut) => UNCHANGED vars
<1>1. UntarNext => UNCHANGED vars
  BY DEF UntarNext, Untar, UntarDir, UntarFile, UntarSymlink, UntarLink, UntarOther, EndOfArchive,
         MakeLink, EndUntar, Did
<1>2. FilterNext => UNCHANGED vars
  BY DEF FilterNext, PrefixFilter, Skip, Extract, EndFilter
<1> QED BY <1>1, <1>2 DEF Unpack, TakeOut

LEMMA ArchiveInductive == ArchivesSpec => []InvArchive
<1>1. ArchivesInit => InvArchive
  <2>1. ArchivesInit => Init
    BY DEF ArchivesInit, Init
  <2> QED BY <2>1, InitHolds
<1>2. InvArchive /\ [ArchivesNext]_<<vars, unpacking, filtering, use>> => InvArchive'
  <2> SUFFICES ASSUME InvArchive, [ArchivesNext]_<<vars, unpacking, filtering, use>> PROVE InvArchive'
    OBVIOUS
  <2>1. CASE Write
    BY <2>1, NextKeeps DEF Write
  <2>2. CASE Unpack \/ TakeOut
    BY <2>2, ReadersLeaveIt, StayKeeps
  <2>3. CASE UNCHANGED <<vars, unpacking, filtering, use>>
    BY <2>3, StayKeeps
  <2> QED BY <2>1, <2>2, <2>3 DEF ArchivesNext
<1> QED BY <1>1, <1>2, PTL DEF ArchivesSpec

-----------------------------------------------------------------------------
(* What follows from it.                                                    *)

\* An archive can be unpacked from its start to its end: a directory or link comes
\* before what is below it, and the name with a body before the others of a file
\* (order.go:47-67, rpm2tar.go:77, cpio2tar.go:132-152).
THEOREM InUnpackingOrder == ArchivesSpec => []BeforeWhatIsBelow
<1>1. InvArchive => BeforeWhatIsBelow
  <2> SUFFICES ASSUME InvArchive,
                      NEW m \in DOMAIN archive, NEW n \in DOMAIN archive, m < n
               PROVE  /\ ~options.stdin /\ archive[n].kind \in {"dir", "symlink"} =>
                           archive[n].path \notin Above(archive[m].path)
                      /\ archive[m].kind = "link" => archive[m].to # archive[n].path
    BY DEF BeforeWhatIsBelow
  <2> QED BY DEF InvArchive, Ordered, IsOfTree
<1> QED BY <1>1, ArchiveInductive, PTL

LEMMA TypesHold == InvArchive => TypeOK
<1> SUFFICES ASSUME InvArchive PROVE TypeOK
  OBVIOUS
<1> USE DEF InvArchive
<1>1. Len(rpms) \in Nat /\ DOMAIN rpms = 1..Len(rpms)
  BY DEF Given
<1>2. /\ pc \in {"tree", "files", "done", "failed"} /\ rpm \in 1..(Len(rpms) + 1) /\ entry \in Nat \ {0}
      /\ DOMAIN tree.header \subseteq DOMAIN tree.keys
  BY DEF Typed, Shape
<1>3. createdPaths \subseteq UNION {{e.path : e \in Range(r)} : r \in Range(rpms)}
  <2> SUFFICES ASSUME NEW p \in createdPaths
               PROVE  \E r \in Range(rpms) : \E e \in Range(r) : p = e.path
    OBVIOUS
  <2>1. PICK n \in 1..Len(rpms) : \E k \in DOMAIN rpms[n] : rpms[n][k].path = p
    BY DEF Created
  <2>2. PICK k \in DOMAIN rpms[n] : rpms[n][k].path = p
    BY <2>1
  <2>3. rpms[n] \in Range(rpms) /\ rpms[n][k] \in Range(rpms[n])
    BY <1>1 DEF Range
  <2> QED BY <2>2, <2>3
<1>4. \A node \in DOMAIN inodes :
        /\ inodes[node] \in createdPaths
        /\ rpm \in DOMAIN rpms
        /\ \E e \in Range(rpms[rpm]) : e.path = inodes[node] /\ e.ino = node
  BY <1>1 DEF Sources, IsSource
<1> QED BY <1>2, <1>3, <1>4 DEF TypeOK

LEMMA OncePerPathHolds == InvArchive => OncePerPath
<1> SUFFICES ASSUME InvArchive,
                    NEW m \in DOMAIN archive, NEW n \in DOMAIN archive, m < n,
                    archive[m].path = archive[n].path
             PROVE  archive[m].kind \in {"dir", "symlink"} /\ archive[n].kind \notin {"dir", "symlink"}
  BY DEF OncePerPath
<1>1. IsOfTree(archive[m]) /\ ~IsOfTree(archive[n])
  BY DEF InvArchive, Ordered
<1> QED BY <1>1 DEF IsOfTree

LEMMA AttributesHold == InvArchive => AttributesSet
<1> SUFFICES ASSUME InvArchive, NEW a \in Range(archive), a.kind \in {"file", "link"}
             PROVE  /\ (\E form \in {"/", ""} : [form |-> form, path |-> a.path] \in options.capabilities)
                         => "capability" \in a.attributes
                    /\ FileName(a) \in options.labels => "selinux" \in a.attributes
  BY DEF AttributesSet
<1>1. a.attributes = Attributes(a)
  BY DEF InvArchive, Attributed, Range
<1>2. ASSUME NEW form \in {"/", ""}, [form |-> form, path |-> a.path] \in options.capabilities
      PROVE  FileName(a) \in {CapabilityKey(f) : f \in options.capabilities}
  <2> DEFINE f == [form |-> form, path |-> a.path]
  <2>1. CapabilityKey(f) = [form |-> "./", path |-> a.path]
    BY DEF CapabilityKey
  <2> QED BY <1>2, <2>1 DEF FileName
<1> QED BY <1>1, <1>2 DEF Attributes, HasCapabilities

\* Of one path there is but one file.
LEMMA FilesKeptHolds == InvArchive => FilesKept
<1> SUFFICES ASSUME InvArchive, pc = "done",
                    NEW n \in DOMAIN rpms, NEW e \in Range(rpms[n]), e.kind = "file",
                    \A m \in 1..(n - 1) : \A o \in Range(rpms[m]) : o.path # e.path
             PROVE  \E a \in Range(archive) : /\ a.path = e.path /\ a.kind \in {"file", "link"}
                                              /\ BodyInArchive(a) = Body(rpms[n], e)
  BY DEF FilesKept
<1>1. n \in 1..(rpm - 1) /\ n \in 1..Len(rpms) /\ IsRpm(rpms[n])
  BY DEF InvArchive, Typed, Given
<1>2. Arrived(n, e)
  BY <1>1 DEF InvArchive, AllArrived, Fresh
<1>3. CASE ~IsLink(e)
  <2>1. PICK j \in DOMAIN archive : archive[j].path = e.path /\ archive[j].kind = "file" /\ archive[j].body = e.body
    BY <1>2, <1>3 DEF Arrived, FileThere
  <2>2. BodyInArchive(archive[j]) = {e.body} /\ Body(rpms[n], e) = {e.body}
    BY <1>3, <2>1 DEF BodyInArchive, Body
  <2>3. archive[j] \in Range(archive)
    BY DEF Range
  <2> QED BY <2>1, <2>2, <2>3
<1>4. CASE IsLink(e)
  <2>1. PICK j \in DOMAIN archive :
          /\ archive[j].path = e.path /\ archive[j].kind = "link"
          /\ \E o \in Range(rpms[n]) : o.path = archive[j].to /\ IsSource(n, o, e.ino)
    BY <1>2, <1>4 DEF Arrived
  <2>2. PICK o \in Range(rpms[n]) : o.path = archive[j].to /\ IsSource(n, o, e.ino)
    BY <2>1
  <2>3. o.kind = "file" /\ ~IsLink(o) /\ o.ino = e.ino /\ FileThere(o)
    BY <2>2 DEF IsSource
  <2>4. Body(rpms[n], e) = {o.body}
    <3>1. ASSUME NEW x \in Range(rpms[n]), x.kind = "file", x.ino = e.ino, ~IsLink(x) PROVE x = o
      <4>1. PICK i \in DOMAIN rpms[n] : rpms[n][i] = x
        BY DEF Range
      <4>2. PICK k \in DOMAIN rpms[n] : rpms[n][k] = o
        BY DEF Range
      <4> QED BY <1>1, <2>3, <3>1, <4>1, <4>2 DEF IsRpm
    <3>2. {x \in Range(rpms[n]) : x.kind = "file" /\ x.ino = e.ino /\ ~IsLink(x)} = {o}
      BY <2>3, <3>1
    <3>3. Body(rpms[n], e) = {x.body : x \in {x \in Range(rpms[n]) : x.kind = "file" /\ x.ino = e.ino /\ ~IsLink(x)}}
      BY <1>4 DEF Body
    <3> QED BY <3>2, <3>3
  <2>5. PICK i \in DOMAIN archive : archive[i].path = o.path /\ archive[i].kind = "file" /\ archive[i].body = o.body
    BY <2>3 DEF FileThere
  <2>6. BodyInArchive(archive[j]) = {o.body}
    <3>1. ASSUME NEW k \in DOMAIN archive, archive[k].path = o.path, archive[k].kind = "file" PROVE k = i
      <4>1. OncePerPath
        BY OncePerPathHolds
      <4>2. ~(i < k) /\ ~(k < i)
        BY <2>5, <3>1, <4>1 DEF OncePerPath
      <4>3. i \in Nat /\ k \in Nat
        BY DEF InvArchive, Typed
      <4> QED BY <4>2, <4>3
    <3>2. {x \in Range(archive) : x.path = archive[j].to /\ x.kind = "file"} = {archive[i]}
      BY <2>2, <2>5, <3>1 DEF Range
    <3>3. BodyInArchive(archive[j]) = {x.body : x \in {x \in Range(archive) : x.path = archive[j].to /\ x.kind = "file"}}
      BY <2>1 DEF BodyInArchive
    <3> QED BY <2>5, <3>2, <3>3
  <2>7. archive[j] \in Range(archive)
    BY DEF Range
  <2> QED BY <2>1, <2>4, <2>6, <2>7
<1> QED BY <1>3, <1>4

\* A path of the tree is said once, by the first link with it if there is one.
LEMMA ClaimsKept ==
  ASSUME InvArchive, pc = "done", ~options.stdin,
         NEW c \in Range(AllClaims), c.kind \in {"dir", "symlink"}
  PROVE  LET claimed == {k \in DOMAIN AllClaims :
                           AllClaims[k].path = c.path /\ AllClaims[k].kind = "symlink"}
             found == {n \in DOMAIN archive : archive[n].path = c.path
                                                /\ archive[n].kind \in {"dir", "symlink"}}
         IN  /\ Cardinality(found) = 1
             /\ \A n \in found :
                  \/ claimed = {} /\ archive[n].kind = "dir"
                  \/ \E k \in claimed : /\ \A i \in claimed : k <= i
                                       /\ archive[n].kind = "symlink" /\ archive[n].to = AllClaims[k].to
<1> DEFINE p == c.path
           header == tree.header
           claimed == {k \in DOMAIN AllClaims : AllClaims[k].path = p /\ AllClaims[k].kind = "symlink"}
           found == {n \in DOMAIN archive : archive[n].path = p /\ archive[n].kind \in {"dir", "symlink"}}
<1>1. /\ SaidBy(header, AllClaims)
      /\ \A j \in DOMAIN archive : archive[j].kind \in {"dir", "symlink"} =>
           archive[j].path \in DOMAIN header /\ archive[j] = header[archive[j].path]
      /\ \A q \in DOMAIN header : \E j \in DOMAIN archive :
           archive[j].path = q /\ archive[j].kind \in {"dir", "symlink"}
  BY DEF InvArchive, TreeThere, IsOfTree
<1>2. p \in DOMAIN header
  BY <1>1 DEF SaidBy, Range
<1>3. PICK j \in DOMAIN archive : archive[j].path = p /\ archive[j].kind \in {"dir", "symlink"}
  BY <1>1, <1>2
<1>4. ASSUME NEW i \in found PROVE i = j
  <2>1. ~(i < j) /\ ~(j < i)
    BY <1>3, OncePerPathHolds DEF OncePerPath
  <2>2. i \in Nat /\ j \in Nat
    BY DEF InvArchive, Typed
  <2> QED BY <2>1, <2>2
<1>5. found = {j}
  BY <1>3, <1>4
<1>6. Cardinality(found) = 1
  BY <1>5, FS_Singleton
<1>7. archive[j] = header[p]
  BY <1>1, <1>3
<1>8. PICK k \in DOMAIN AllClaims :
        /\ AllClaims[k].path = p /\ AllClaims[k].kind = header[p].kind /\ AllClaims[k].to = header[p].to
        /\ \A i \in DOMAIN AllClaims : AllClaims[i].path = p /\ AllClaims[i].kind = "symlink" =>
             header[p].kind = "symlink" /\ k <= i
  BY <1>1, <1>2 DEF SaidBy, SaidOf
<1>9. CASE claimed = {}
  <2>1. archive[j].kind # "symlink"
    BY <1>7, <1>8, <1>9
  <2> QED BY <1>3, <1>5, <1>6, <1>9, <2>1
<1>10. CASE claimed # {}
  <2>1. header[p].kind = "symlink" /\ k \in claimed /\ \A i \in claimed : k <= i
    BY <1>8, <1>10
  <2> QED BY <1>5, <1>6, <1>7, <1>8, <1>10, <2>1
<1> QED BY <1>9, <1>10

LEMMA TreeKeptHolds == InvArchive => TreeKept
<1> SUFFICES ASSUME InvArchive, pc = "done", ~options.stdin,
                    NEW c \in Range(Claims) \cup Range(options.symlinks), c.kind \in {"dir", "symlink"}
             PROVE  LET linking == {k \in DOMAIN Claims : Claims[k].path = c.path /\ Claims[k].kind = "symlink"}
                        first == IF linking = {} THEN {} ELSE {Claims[Min(linking)].to}
                        asked == {h.to : h \in {h \in Range(options.symlinks) : h.path = c.path}}
                        found == {n \in DOMAIN archive : archive[n].path = c.path
                                                           /\ archive[n].kind \in {"dir", "symlink"}}
                    IN  /\ Cardinality(found) = 1
                        /\ \A n \in found :
                             IF first \cup asked = {} THEN archive[n].kind = "dir"
                             ELSE archive[n].kind = "symlink" /\ archive[n].to \in first \cup asked
  BY DEF TreeKept
<1> DEFINE p == c.path
           named == options.symlinks
           linking == {k \in DOMAIN Claims : Claims[k].path = p /\ Claims[k].kind = "symlink"}
           first == IF linking = {} THEN {} ELSE {Claims[Min(linking)].to}
           asked == {h.to : h \in {h \in Range(named) : h.path = p}}
           claimed == {k \in DOMAIN AllClaims : AllClaims[k].path = p /\ AllClaims[k].kind = "symlink"}
           found == {n \in DOMAIN archive : archive[n].path = p /\ archive[n].kind \in {"dir", "symlink"}}
           D == RpmEntry \cup TarHeader
<1>1. /\ Claims \in Seq(RpmEntry) /\ named \in Seq(TarHeader) /\ \A h \in Range(named) : h.kind = "symlink"
      /\ AllClaims = Claims \o named
  <2>1. rpms \in Seq(Seq(RpmEntry)) /\ Len(rpms) # 0 /\ Len(rpms) \in 0..Len(rpms)
    BY DEF InvArchive, Given
  <2>2. FlattenSeq(rpms) \in Seq(RpmEntry)
    <3>1. rpms \in Seq(Seq(RpmEntry))
      BY <2>1
    <3> QED BY <2>1, <3>1, SaidGrows
  <2> QED BY <2>2 DEF AllClaims, Claims, InvArchive, Given
<1>2. Claims \in Seq(D) /\ named \in Seq(D)
  BY <1>1
<1> HIDE DEF named, D
<1>3. /\ Len(Claims) \in Nat /\ Len(named) \in Nat
      /\ DOMAIN Claims = 1..Len(Claims) /\ DOMAIN named = 1..Len(named)
      /\ DOMAIN AllClaims = 1..(Len(Claims) + Len(named))
      /\ \A k \in 1..Len(Claims) : AllClaims[k] = Claims[k]
      /\ \A k \in 1..Len(named) : AllClaims[Len(Claims) + k] = named[k]
  BY <1>1, <1>2, Concatenated
<1>4. \A k \in DOMAIN Claims : k \in DOMAIN AllClaims /\ AllClaims[k] = Claims[k]
  BY <1>3
<1>5. \A k \in DOMAIN named : Len(Claims) + k \in DOMAIN AllClaims
                                /\ AllClaims[Len(Claims) + k] = named[k]
  BY <1>3
<1>6. \A k \in DOMAIN AllClaims : k \in DOMAIN Claims \/ AllClaims[k] \in Range(named)
  <2> SUFFICES ASSUME NEW k \in DOMAIN AllClaims, k \notin DOMAIN Claims PROVE AllClaims[k] \in Range(named)
    OBVIOUS
  <2>1. k - Len(Claims) \in 1..Len(named) /\ Len(Claims) + (k - Len(Claims)) = k
    BY <1>3, Beyond
  <2> QED BY <1>3, <2>1 DEF Range
<1>7. c \in Range(AllClaims)
  BY <1>4, <1>5 DEF Range, named
<1>8. /\ Cardinality(found) = 1
      /\ \A n \in found :
           \/ claimed = {} /\ archive[n].kind = "dir"
           \/ \E k \in claimed : /\ \A i \in claimed : k <= i
                                /\ archive[n].kind = "symlink" /\ archive[n].to = AllClaims[k].to
  BY <1>7, ClaimsKept
<1>9. linking \subseteq claimed /\ linking \subseteq Nat
  BY <1>3, <1>4
<1>10. ASSUME asked # {} PROVE claimed # {}
  <2>1. PICK h \in Range(named) : h.path = p
    BY <1>10
  <2>2. PICK k \in DOMAIN named : named[k] = h
    BY DEF Range
  <2> QED BY <1>1, <1>5, <2>1, <2>2
<1>11. ASSUME NEW n \in found
       PROVE  IF first \cup asked = {} THEN archive[n].kind = "dir"
              ELSE archive[n].kind = "symlink" /\ archive[n].to \in first \cup asked
  <2>1. CASE claimed = {}
    <3>1. first \cup asked = {}
      BY <1>9, <1>10, <2>1
    <3> HIDE DEF first, asked, claimed
    <3> QED BY <1>8, <2>1, <3>1
  <2>2. CASE claimed # {}
    <3>1. PICK k \in claimed : /\ \A i \in claimed : k <= i
                               /\ archive[n].kind = "symlink" /\ archive[n].to = AllClaims[k].to
      BY <1>8, <2>2
    <3>2. CASE k \in DOMAIN Claims
      <4>1. k \in linking
        BY <1>4, <3>2
      <4> HIDE DEF linking, claimed
      <4>2. Min(linking) = k
        <5>1. Min(linking) = CHOOSE x \in linking : \A y \in linking : x <= y
          BY DEF Min
        <5>2. \A x \in linking : (\A y \in linking : x <= y) => x = k
          BY <1>9, <3>1, <4>1
        <5>3. \A y \in linking : k <= y
          BY <1>9, <3>1
        <5> QED BY <4>1, <5>1, <5>2, <5>3
      <4>3. first = {AllClaims[k].to}
        BY <1>4, <3>2, <4>1, <4>2
      <4> QED BY <3>1, <4>3
    <3>3. CASE k \notin DOMAIN Claims
      <4>1. AllClaims[k] \in Range(named) /\ AllClaims[k].path = p
        BY <1>6, <3>3
      <4>2. AllClaims[k].to \in asked
        BY <4>1
      <4> HIDE DEF first, asked
      <4> QED BY <3>1, <4>2
    <3> QED BY <3>2, <3>3
  <2> QED BY <2>1, <2>2
<1> HIDE DEF first, asked
<1> QED BY <1>8, <1>11 DEF named, first, asked

-----------------------------------------------------------------------------
(* Why the command gives up.                                                *)

\* The path of each entry that has been met has been created.
AllCreated ==
  pc = "files" =>
    /\ \A n \in 1..(rpm - 1) : \A e \in Range(rpms[n]) : e.path \in createdPaths
    /\ \A k \in DOMAIN rpms[rpm] : k < entry => rpms[rpm][k].path \in createdPaths

Reasons ==
  /\ \A node \in DOMAIN hardLinks :
       rpm \in 1..Len(rpms) /\ \E e \in Range(rpms[rpm]) : IsLink(e) /\ e.ino = node
  /\ pc = "files" => \A k \in DOMAIN rpms[rpm] :
       k < entry /\ rpms[rpm][k].kind = "file" /\ ~IsLink(rpms[rpm][k]) /\ Fresh(rpm, rpms[rpm][k]) =>
         rpms[rpm][k].ino \in DOMAIN inodes
  /\ AllCreated
  /\ FailsForAReason

LEMMA FirstEntryComesNext ==
  ASSUME Given
  PROVE  \A n \in 1..Len(rpms) : \A k \in DOMAIN rpms[n] : ~(k < 1)
<1>1. \A n \in 1..Len(rpms) : DOMAIN rpms[n] = 1..Len(rpms[n]) /\ Len(rpms[n]) \in Nat
  BY RpmsAre
<1> QED BY <1>1

LEMMA ReasonsFromTheStart == Init => Reasons
<1> SUFFICES ASSUME Init PROVE Reasons
  OBVIOUS
<1>1. Given /\ InvArchive
  BY InitHolds DEF InvArchive
<1>2. DOMAIN hardLinks = {} /\ rpm = 1 /\ entry = 1 /\ pc \in {"files", "tree"}
  BY DEF Init, Start
<1>3. Len(rpms) \in Nat \ {0}
  BY <1>1 DEF Given
<1>4. \A k \in DOMAIN rpms[rpm] : ~(k < entry)
  BY <1>1, <1>2, <1>3, FirstEntryComesNext
<1>5. AllCreated
  BY <1>2, <1>4 DEF AllCreated
<1> QED BY <1>2, <1>4, <1>5 DEF Reasons, FailsForAReason

\* An entry of a path that has not been created is of one that no earlier RPM has.
LEMMA NotDuplicateIsFresh ==
  ASSUME Reasons, pc = "files", ~Duplicate(Entry)
  PROVE  Fresh(rpm, Entry)
BY DEF Reasons, AllCreated, Duplicate, Fresh

\* The part about what has been read, when the next entry has been.
LEMMA ReasonsKeep ==
  ASSUME InvArchive, Reasons, Reading, rpms' = rpms, rpm' = rpm, entry' = entry + 1, pc' = pc,
         DOMAIN inodes \subseteq DOMAIN inodes',
         createdPaths \subseteq createdPaths', Entry.path \in createdPaths',
         \A node \in DOMAIN hardLinks' : node \in DOMAIN hardLinks \/ (IsLink(Entry) /\ Entry.ino = node),
         Entry.kind = "file" /\ ~IsLink(Entry) /\ Fresh(rpm, Entry) => Entry.ino \in DOMAIN inodes'
  PROVE  Reasons'
<1>1. /\ pc = "files" /\ rpm \in 1..Len(rpms) /\ entry \in DOMAIN rpms[rpm] /\ DOMAIN rpms[rpm] \subseteq Nat
      /\ Entry \in Range(rpms[rpm]) /\ Entry = rpms[rpm][entry]
  BY ReadingIs
<1>2. \A node \in DOMAIN hardLinks' :
        rpm \in 1..Len(rpms) /\ \E e \in Range(rpms[rpm]) : IsLink(e) /\ e.ino = node
  BY <1>1 DEF Reasons
<1>3. ASSUME NEW k \in DOMAIN rpms[rpm], k < entry + 1, rpms[rpm][k].kind = "file",
             ~IsLink(rpms[rpm][k]), Fresh(rpm, rpms[rpm][k])
      PROVE  rpms[rpm][k].ino \in DOMAIN inodes'
  <2>1. CASE k = entry
    BY <1>1, <1>3, <2>1
  <2>2. CASE k # entry
    <3>1. k < entry
      BY <1>1, <1>3, <2>2
    <3> QED BY <1>1, <1>3, <3>1 DEF Reasons
  <2> QED BY <2>1, <2>2
<1>4. \A k \in DOMAIN rpms[rpm] : Fresh(rpm, rpms[rpm][k])' <=> Fresh(rpm, rpms[rpm][k])
  BY DEF Fresh
<1>5. FailsForAReason'
  BY <1>1 DEF FailsForAReason
<1>6. ASSUME NEW k \in DOMAIN rpms[rpm], k < entry + 1 PROVE rpms[rpm][k].path \in createdPaths'
  <2>1. CASE k = entry
    BY <1>1, <2>1
  <2>2. CASE k # entry
    <3>1. k < entry
      BY <1>1, <1>6, <2>2
    <3> QED BY <1>1, <3>1 DEF Reasons, AllCreated
  <2> QED BY <2>1, <2>2
<1>7. AllCreated'
  BY <1>1, <1>6 DEF Reasons, AllCreated
<1> QED BY <1>2, <1>3, <1>4, <1>5, <1>7 DEF Reasons

LEMMA ReasonsKept == InvArchive /\ Reasons /\ [Next]_vars => Reasons'
<1> SUFFICES ASSUME InvArchive, Reasons, [Next]_vars PROVE Reasons'
  OBVIOUS
<1>1. Given /\ Len(rpms) \in Nat \ {0}
  BY DEF InvArchive, Given
<1>2. CASE AddRPM
  <2>1. /\ pc = "tree" /\ rpm <= Len(rpms) /\ rpms' = rpms /\ DOMAIN hardLinks' = {} /\ pc' # "files"
        /\ pc' = "failed" => rpm' = rpm /\ \E e \in Range(rpms[rpm]) : e.kind = "socket"
    BY <1>2 DEF AddRPM, InvArchive, Growing
  <2>2. rpm \in DOMAIN rpms
    <3>1. rpm \in 1..Len(rpms) /\ DOMAIN rpms = 1..Len(rpms)
      BY <1>1, <2>1 DEF InvArchive, Typed, Given
    <3> QED BY <3>1
  <2> QED BY <2>1, <2>2 DEF Reasons, AllCreated, FailsForAReason
<1>3. CASE WriteTree
  <2>1. /\ rpms' = rpms /\ DOMAIN hardLinks' = {} /\ pc' = "files" /\ rpm' = 1 /\ entry' = 1
    BY <1>3 DEF WriteTree, InvArchive, Growing
  <2>2. \A k \in DOMAIN rpms'[rpm'] : ~(k < entry')
    BY <1>1, <2>1, FirstEntryComesNext
  <2>3. AllCreated'
    BY <2>1, <2>2 DEF AllCreated
  <2> QED BY <2>1, <2>2, <2>3 DEF Reasons, FailsForAReason
<1>4. CASE SkipDuplicate
  <2>1. /\ Reading /\ Duplicate(Entry) /\ rpms' = rpms /\ rpm' = rpm /\ entry' = entry + 1 /\ pc' = pc
        /\ inodes' = inodes /\ hardLinks' = hardLinks /\ createdPaths' = createdPaths
        /\ Entry.path \in createdPaths
    BY <1>4 DEF SkipDuplicate, Duplicate
  <2>2. ~Fresh(rpm, Entry)
    BY <2>1, DuplicateIsNotFresh
  <2> QED BY <2>1, <2>2, ReasonsKeep
<1>5. CASE CopyEntry
  <2>1. /\ Reading /\ rpms' = rpms /\ rpm' = rpm /\ entry' = entry + 1 /\ pc' = pc
        /\ hardLinks' = hardLinks /\ createdPaths' = createdPaths \cup {Entry.path}
        /\ inodes' = IF Entry.kind = "file" THEN With(inodes, Entry.ino, Entry.path) ELSE inodes
    BY <1>5 DEF CopyEntry
  <2>2. DOMAIN inodes \subseteq DOMAIN inodes' /\ (Entry.kind = "file" => Entry.ino \in DOMAIN inodes')
    BY <2>1 DEF With
  <2> QED BY <2>1, <2>2, ReasonsKeep
<1>6. CASE PassOver
  <2>1. /\ Reading /\ rpms' = rpms /\ rpm' = rpm /\ entry' = entry + 1 /\ pc' = pc /\ inodes' = inodes
        /\ InTree(Entry) \/ IsLink(Entry)
        /\ createdPaths' = createdPaths \cup {Entry.path}
        /\ IF IsLink(Entry) THEN DOMAIN hardLinks' = DOMAIN hardLinks \cup {Entry.ino}
           ELSE hardLinks' = hardLinks
    BY <1>6 DEF PassOver, With
  <2>2. Entry.kind = "file" => IsLink(Entry)
    BY <2>1 DEF InTree
  <2>3. \A node \in DOMAIN hardLinks' : node \in DOMAIN hardLinks \/ (IsLink(Entry) /\ Entry.ino = node)
    BY <2>1
  <2> QED BY <2>1, <2>2, <2>3, ReasonsKeep
<1>7. CASE UnknownMode
  <2>1. /\ Reading /\ Entry.kind = "socket" /\ pc' = "failed" /\ rpms' = rpms /\ rpm' = rpm
        /\ hardLinks' = hardLinks
    BY <1>7 DEF UnknownMode
  <2>2. rpm \in DOMAIN rpms /\ Entry \in Range(rpms[rpm])
    <3>1. rpm \in 1..Len(rpms) /\ Entry \in Range(rpms[rpm])
      BY <2>1, ReadingIs
    <3>2. DOMAIN rpms = 1..Len(rpms)
      BY <1>1 DEF Given
    <3> QED BY <3>1, <3>2
  <2> QED BY <2>1, <2>2 DEF Reasons, AllCreated, FailsForAReason
<1>8. CASE AttributesFail
  <2>1. /\ Reading /\ ~Duplicate(Entry) /\ Refused(Entry) /\ pc' = "failed" /\ rpms' = rpms
        /\ rpm' = rpm /\ hardLinks' = hardLinks /\ options' = options
    BY <1>8 DEF AttributesFail
  <2>2. pc = "files" /\ rpm \in DOMAIN rpms /\ Entry \in Range(rpms[rpm])
    <3>1. pc = "files" /\ rpm \in 1..Len(rpms) /\ Entry \in Range(rpms[rpm])
      BY <2>1, ReadingIs
    <3>2. DOMAIN rpms = 1..Len(rpms)
      BY <1>1 DEF Given
    <3> QED BY <3>1, <3>2
  <2>3. Fresh(rpm, Entry)
    BY <2>1, <2>2, NotDuplicateIsFresh
  <2>4. PICK e \in Range(rpms[rpm]) :
          Refused(e) /\ \A m \in 1..(rpm - 1) : \A p \in Range(rpms[m]) : p.path # e.path
    BY <2>1, <2>2, <2>3 DEF Fresh
  <2>5. Refused(e)'
    BY <2>1, <2>4 DEF Refused, HasCapabilities
  <2>6. FailsForAReason'
    BY <2>1, <2>2, <2>4, <2>5 DEF FailsForAReason
  <2> QED BY <2>1, <2>6 DEF Reasons, AllCreated
<1>9. CASE WriteHardLinks
  <2> DEFINE lost == DOMAIN hardLinks \ DOMAIN inodes
  <2>1. /\ pc = "files" /\ rpm <= Len(rpms) /\ entry > Len(rpms[rpm]) /\ rpms' = rpms /\ rpm' = rpm + 1
        /\ entry' = 1 /\ hardLinks' = <<>>
        /\ pc' = IF lost # {} THEN "failed" ELSE IF rpm = Len(rpms) THEN "done" ELSE pc
    BY <1>9 DEF WriteHardLinks, NextMaps
  <2>2. DOMAIN hardLinks' = {} /\ rpm \in 1..Len(rpms)
    BY <1>1, <2>1 DEF InvArchive, Typed
  <2>3. pc' = "files" => \A k \in DOMAIN rpms'[rpm'] : ~(k < entry')
    <3>1. pc' = "files" => rpm' \in 1..Len(rpms)
      BY <1>1, <2>1, <2>2
    <3> QED BY <1>1, <2>1, <3>1, FirstEntryComesNext
  <2>4. ASSUME pc' = "failed" PROVE FailsForAReason'
    <3>1. PICK node \in DOMAIN hardLinks : node \notin DOMAIN inodes
      BY <2>1, <2>4
    <3>2. PICK e \in Range(rpms[rpm]) : IsLink(e) /\ e.ino = node
      BY DEF Reasons
    <3>3. ASSUME NEW o \in Range(rpms[rpm]), o.kind = "file", o.ino = e.ino, o.body # <<>>
          PROVE  \E m \in 1..(rpm - 1) : \E p \in Range(rpms[m]) : p.path = o.path
      <4>1. PICK k \in DOMAIN rpms[rpm] : rpms[rpm][k] = o
        BY DEF Range
      <4>2. k < entry
        <5>1. DOMAIN rpms[rpm] = 1..Len(rpms[rpm]) /\ Len(rpms[rpm]) \in Nat
          BY <1>1, <2>2, RpmsAre
        <5>2. entry \in Nat
          BY DEF InvArchive, Typed
        <5> QED BY <2>1, <5>1, <5>2
      <4>3. ~IsLink(o)
        BY <3>3 DEF IsLink
      <4>4. ~Fresh(rpm, o)
        BY <2>1, <3>1, <3>2, <3>3, <4>1, <4>2, <4>3 DEF Reasons
      <4> QED BY <4>4 DEF Fresh
    <3>4. rpm \in DOMAIN rpms /\ e.linked
      BY <1>1, <2>2, <3>2 DEF Given, IsLink
    <3> QED BY <2>1, <3>2, <3>3, <3>4 DEF FailsForAReason
  <2>5. pc' # "failed" => FailsForAReason'
    BY DEF FailsForAReason
  <2>6. ASSUME pc' = "files"
        PROVE  \A n \in 1..(rpm' - 1) : \A e \in Range(rpms'[n]) : e.path \in createdPaths'
    <3>1. createdPaths' = createdPaths
      BY <1>9 DEF WriteHardLinks
    <3>2. ASSUME NEW e \in Range(rpms[rpm]) PROVE e.path \in createdPaths
      <4>1. PICK k \in DOMAIN rpms[rpm] : rpms[rpm][k] = e
        BY DEF Range
      <4>2. k < entry
        <5>1. DOMAIN rpms[rpm] = 1..Len(rpms[rpm]) /\ Len(rpms[rpm]) \in Nat
          BY <1>1, <2>2, RpmsAre
        <5>2. entry \in Nat
          BY DEF InvArchive, Typed
        <5> QED BY <2>1, <5>1, <5>2
      <4> QED BY <2>1, <4>1, <4>2 DEF Reasons, AllCreated
    <3>3. \A n \in 1..(rpm' - 1) : n \in 1..(rpm - 1) \/ n = rpm
      BY <2>1, <2>2
    <3> QED BY <2>1, <3>1, <3>2, <3>3 DEF Reasons, AllCreated
  <2>7. AllCreated'
    BY <2>3, <2>6 DEF AllCreated
  <2> QED BY <2>2, <2>3, <2>4, <2>5, <2>7 DEF Reasons
<1>10. CASE UNCHANGED vars
  <2>1. /\ options' = options /\ rpms' = rpms /\ pc' = pc /\ rpm' = rpm /\ entry' = entry
        /\ inodes' = inodes /\ hardLinks' = hardLinks /\ createdPaths' = createdPaths
    BY <1>10 DEF vars
  <2>2. \A e : Refused(e)' <=> Refused(e)
    BY <2>1 DEF Refused, HasCapabilities
  <2>3. FailsForAReason'
    BY <2>1, <2>2 DEF Reasons, FailsForAReason
  <2> QED BY <2>1, <2>3 DEF Reasons, AllCreated, Fresh
<1> QED BY <1>2, <1>3, <1>4, <1>5, <1>6, <1>7, <1>8, <1>9, <1>10 DEF Next, Terminated

LEMMA ReasonsInductive == ArchivesSpec => []Reasons
<1>1. ArchivesInit => Reasons
  <2>1. ArchivesInit => Init
    BY DEF ArchivesInit, Init
  <2> QED BY <2>1, ReasonsFromTheStart
<1>2. InvArchive /\ Reasons /\ [ArchivesNext]_<<vars, unpacking, filtering, use>> => Reasons'
  <2> SUFFICES ASSUME InvArchive, Reasons, [ArchivesNext]_<<vars, unpacking, filtering, use>> PROVE Reasons'
    OBVIOUS
  <2>1. CASE Write
    BY <2>1, ReasonsKept DEF Write
  <2>2. CASE Unpack \/ TakeOut
    BY <2>2, ReadersLeaveIt, ReasonsKept
  <2>3. CASE UNCHANGED <<vars, unpacking, filtering, use>>
    BY <2>3, ReasonsKept
  <2> QED BY <2>1, <2>2, <2>3 DEF ArchivesNext
<1> QED BY <1>1, <1>2, ArchiveInductive, PTL DEF ArchivesSpec

\* A finished archive has each file of the RPMs under its name with its content, each
\* directory and symbolic link once, each path once of a kind, and the attributes; the
\* command only gives up for an unknown mode, for an unsupported capability or an empty
\* label of a file it is to write, or for a name without content (rpm2tar.go:55-119,
\* cpio2tar.go:49-152, order.go:34-67, xattr.go:22-45).
THEOREM ArchiveIsSound == ArchivesSpec => []ArchiveSound
<1>1. InvArchive /\ Reasons => ArchiveSound
  BY TypesHold, FilesKeptHolds, TreeKeptHolds, OncePerPathHolds, AttributesHold DEF ArchiveSound, Reasons
<1> QED BY <1>1, ArchiveInductive, ReasonsInductive, PTL

-----------------------------------------------------------------------------
(* How the kernel follows a path.                                           *)

LEMMA SameList ==
  ASSUME NEW D, NEW s \in Seq(D), NEW t \in Seq(D), Len(s) = Len(t), \A i \in 1..Len(s) : s[i] = t[i]
  PROVE  s = t
OBVIOUS

LEMMA NothingAdded ==
  ASSUME NEW D, NEW s \in Seq(D)
  PROVE  s \o <<>> = s /\ Len(<<>>) = 0
<1> DEFINE none == <<>>
           t == s \o none
<1>1. none \in Seq(D) /\ Len(none) = 0
  OBVIOUS
<1> HIDE DEF none
<1>2. t \in Seq(D) /\ Len(t) = Len(s) /\ \A i \in 1..Len(s) : t[i] = s[i]
  BY <1>1, Concatenated
<1> HIDE DEF t
<1>3. t = s
  BY <1>2, SameList
<1> QED BY <1>1, <1>3 DEF t, none

-----------------------------------------------------------------------------
(* How the kernel follows a path.                                           *)

IsFollowing(f, disk, path, n) ==
  f = [k \in 0..n |-> IF k = 0 THEN [at |-> <<>>, rest |-> path] ELSE Follow(disk, f[k - 1])]

LEMMA FollowingExists ==
  ASSUME NEW disk, NEW path, NEW n \in Nat
  PROVE  \E f : IsFollowing(f, disk, path, n)
<1> DEFINE Bad == {m \in Nat : ~\E f : IsFollowing(f, disk, path, m)}
<1>1. SUFFICES ASSUME Bad # {} PROVE FALSE
  OBVIOUS
<1>2. PICK m \in Bad : \A i \in Bad : m <= i
  <2>1. Bad \in SUBSET Nat
    OBVIOUS
  <2> HIDE DEF Bad
  <2> QED BY <1>1, <2>1, NatMinimum
<1>3. m \in Nat /\ ~\E f : IsFollowing(f, disk, path, m)
  OBVIOUS
<1>4. CASE m = 0
  <2> DEFINE f == [k \in 0..m |-> [at |-> <<>>, rest |-> path]]
  <2>1. IsFollowing(f, disk, path, m)
    BY <1>4 DEF IsFollowing
  <2> QED BY <1>3, <2>1
<1>5. CASE m # 0
  <2>1. m - 1 \in Nat /\ m - 1 \notin Bad
    <3>1. m - 1 \in Nat /\ ~(m <= m - 1)
      BY <1>3, <1>5
    <3> HIDE DEF Bad
    <3> QED BY <1>2, <3>1
  <2>2. PICK f : IsFollowing(f, disk, path, m - 1)
    BY <2>1
  <2> DEFINE g == [k \in 0..m |-> IF k = m THEN Follow(disk, f[m - 1]) ELSE f[k]]
  <2>3. \A k \in 0..m : g[k] = IF k = 0 THEN [at |-> <<>>, rest |-> path] ELSE Follow(disk, g[k - 1])
    <3> TAKE k \in 0..m
    <3>1. CASE k = m
      BY <1>5, <2>1, <3>1
    <3>2. CASE k # m
      <4>1. k \in 0..(m - 1) /\ g[k] = f[k] /\ (k # 0 => g[k - 1] = f[k - 1])
        BY <2>1, <3>2
      <4>2. f[k] = IF k = 0 THEN [at |-> <<>>, rest |-> path] ELSE Follow(disk, f[k - 1])
        BY <2>2, <4>1 DEF IsFollowing
      <4> QED BY <4>1, <4>2
    <3> QED BY <3>1, <3>2
  <2>4. g = [k \in 0..m |-> g[k]]
    OBVIOUS
  <2> HIDE DEF g
  <2>5. IsFollowing(g, disk, path, m)
    BY <2>3, <2>4 DEF IsFollowing
  <2> QED BY <1>3, <2>5
<1> QED BY <1>4, <1>5

LEMMA WalkFollows ==
  ASSUME NEW disk, NEW path
  PROVE  \E f : /\ f[0] = [at |-> <<>>, rest |-> path]
                /\ \A n \in 1..MaxSteps : f[n] = Follow(disk, f[n - 1])
                /\ Walk(disk, path) = f[MaxSteps]
<1> DEFINE walk[n \in 0..MaxSteps] ==
             IF n = 0 THEN [at |-> <<>>, rest |-> path] ELSE Follow(disk, walk[n - 1])
<1>1. MaxSteps \in Nat
  BY KernelAssumption
<1>2. walk = [n \in 0..MaxSteps |-> IF n = 0 THEN [at |-> <<>>, rest |-> path] ELSE Follow(disk, walk[n - 1])]
  <2>1. PICK f : IsFollowing(f, disk, path, MaxSteps)
    BY <1>1, FollowingExists
  <2>2. f = [n \in 0..MaxSteps |-> IF n = 0 THEN [at |-> <<>>, rest |-> path] ELSE Follow(disk, f[n - 1])]
    BY <2>1 DEF IsFollowing
  <2> QED BY <2>2 DEF walk
<1>3. Walk(disk, path) = walk[MaxSteps]
  BY DEF Walk
<1> HIDE DEF walk
<1>4. walk[0] = [at |-> <<>>, rest |-> path]
  BY <1>1, <1>2
<1>5. ASSUME NEW n \in 1..MaxSteps PROVE walk[n] = Follow(disk, walk[n - 1])
  <2>1. n \in 0..MaxSteps /\ n # 0
    BY <1>1
  <2> QED BY <1>2, <2>1
<1> QED BY <1>3, <1>4, <1>5

\* The first names of a path, and the others.
LEMMA PathCut ==
  ASSUME NEW D, NEW path \in Seq(D), NEW n \in 1..Len(path)
  PROVE  /\ SubSeq(path, n, Len(path)) # <<>> /\ Head(SubSeq(path, n, Len(path))) = path[n]
         /\ Tail(SubSeq(path, n, Len(path))) = SubSeq(path, n + 1, Len(path))
         /\ Append(SubSeq(path, 1, n - 1), path[n]) = SubSeq(path, 1, n)
         /\ SubSeq(path, 1, n) \in Seq(D) /\ Len(SubSeq(path, 1, n)) = n
         /\ SubSeq(path, 1, n) # <<>>
<1> DEFINE q == SubSeq(path, n, Len(path))
           r == SubSeq(path, n + 1, Len(path))
           p == SubSeq(path, 1, n - 1)
<1>1. q \in Seq(D) /\ Len(q) = Len(path) - n + 1 /\ \A i \in 1..Len(q) : q[i] = path[n + i - 1]
  OBVIOUS
<1>2. r \in Seq(D) /\ Len(r) = Len(path) - n /\ \A i \in 1..Len(r) : r[i] = path[n + i]
  OBVIOUS
<1>3. p \in Seq(D) /\ Len(p) = n - 1 /\ \A i \in 1..(n - 1) : p[i] = path[i]
  OBVIOUS
<1>4. /\ SubSeq(path, 1, n) \in Seq(D) /\ Len(SubSeq(path, 1, n)) = n
      /\ \A i \in 1..n : SubSeq(path, 1, n)[i] = path[i]
  OBVIOUS
<1> HIDE DEF q, r, p
<1>5. q # <<>> /\ Head(q) = path[n]
  BY <1>1
<1>6. Tail(q) = r
  <2>1. Tail(q) \in Seq(D) /\ Len(Tail(q)) = Len(path) - n
              /\ \A i \in 1..(Len(path) - n) : Tail(q)[i] = q[i + 1]
    BY <1>1, <1>5
  <2>2. \A i \in 1..(Len(path) - n) : Tail(q)[i] = r[i]
    <3> TAKE i \in 1..(Len(path) - n)
    <3>1. i + 1 \in 1..Len(q) /\ n + (i + 1) - 1 = n + i /\ i \in 1..Len(r)
      BY <1>1, <1>2
    <3> QED BY <1>1, <1>2, <2>1, <3>1
  <2> HIDE DEF q
  <2>3. Tail(q) \in Seq(D) /\ r \in Seq(D) /\ Len(Tail(q)) = Len(r) /\ Len(r) = Len(path) - n
    BY <1>2, <2>1
  <2> QED BY <2>2, <2>3, SameList
<1>7. Append(p, path[n]) = SubSeq(path, 1, n)
  <2>1. Append(p, path[n]) \in Seq(D) /\ Len(Append(p, path[n])) = n
    BY <1>3
  <2>2. \A i \in 1..n : Append(p, path[n])[i] = path[i]
    BY <1>3
  <2> QED BY <1>4, <2>1, <2>2
<1> QED BY <1>4, <1>5, <1>6, <1>7 DEF q, r, p

\* The kernel goes down by names, where no link is in the way.
AfterNames(path, n) == [at |-> SubSeq(path, 1, n), rest |-> SubSeq(path, n + 1, Len(path))]

LEMMA NameFollowed ==
  ASSUME NEW disk, NEW path \in Seq(Name), NEW n \in 1..Len(path), path[n] # "..",
         SubSeq(path, 1, n) \in DOMAIN disk, disk[SubSeq(path, 1, n)].kind # "symlink"
  PROVE  Follow(disk, AfterNames(path, n - 1)) = AfterNames(path, n)
<1> DEFINE w == AfterNames(path, n - 1)
<1>1. /\ w.rest = SubSeq(path, n, Len(path)) /\ w.rest # <<>> /\ Head(w.rest) = path[n]
      /\ Tail(w.rest) = SubSeq(path, n + 1, Len(path)) /\ Append(w.at, Head(w.rest)) = SubSeq(path, 1, n)
  <2>1. n - 1 + 1 = n
    OBVIOUS
  <2> QED BY <2>1, PathCut DEF AfterNames
<1> HIDE DEF w
<1>2. Follow(disk, w) = [at |-> SubSeq(path, 1, n), rest |-> SubSeq(path, n + 1, Len(path))]
  BY <1>1 DEF Follow
<1> QED BY <1>2 DEF w, AfterNames

IsWay(disk, path, m, n) ==
  \A i \in (m + 1)..n : SubSeq(path, 1, i) \in DOMAIN disk /\ disk[SubSeq(path, 1, i)].kind # "symlink"
Follows(f, disk, m, n) == \A i \in (m + 1)..n : f[i] = Follow(disk, f[i - 1])

LEMMA NamesFollowed ==
  ASSUME NEW disk, NEW path \in Seq(Name), ".." \notin Range(path),
         NEW m \in Nat, NEW end \in Nat, m <= end, end <= Len(path), IsWay(disk, path, m, end),
         NEW f, NEW start \in Nat, NEW stop \in Nat, stop = start + (end - m),
         f[start] = AfterNames(path, m), Follows(f, disk, start, stop)
  PROVE  f[stop] = AfterNames(path, end)
<1> DEFINE k == end - m
           Bad == {i \in 0..k : f[start + i] # AfterNames(path, m + i)}
<1>1. Bad = {}
  <2>1. SUFFICES ASSUME Bad # {} PROVE FALSE
    OBVIOUS
  <2>2. PICK i \in Bad : \A j \in Bad : i <= j
    <3>1. Bad \in SUBSET Nat
      OBVIOUS
    <3> HIDE DEF Bad
    <3> QED BY <2>1, <3>1, NatMinimum
  <2>3. i # 0
    BY <2>2
  <2>4. /\ i - 1 \in 0..k /\ ~(i <= i - 1) /\ start + i \in (start + 1)..(start + k)
        /\ start + i - 1 = start + (i - 1) /\ m + i - 1 = m + (i - 1)
        /\ m + i \in (m + 1)..(m + k) /\ m + i \in 1..Len(path)
    BY <2>2, <2>3
  <2>5. f[start + (i - 1)] = AfterNames(path, m + (i - 1))
    <3>1. i - 1 \notin Bad
      <4> HIDE DEF Bad
      <4> QED BY <2>2, <2>4
    <3> QED BY <2>4, <3>1
  <2>6. path[m + i] # ".."
    BY <2>4 DEF Range
  <2>7. Follow(disk, AfterNames(path, m + i - 1)) = AfterNames(path, m + i)
    BY <2>4, <2>6, NameFollowed DEF IsWay
  <2>8. f[start + i] = Follow(disk, f[start + i - 1])
    BY <2>4 DEF Follows
  <2> QED BY <2>2, <2>4, <2>5, <2>7, <2>8
<1>2. k \in 0..k /\ start + k = stop /\ m + k = end
  OBVIOUS
<1> QED BY <1>1, <1>2

\* Once it has got to where it cannot go on, it stays.
LEMMA EndReached ==
  ASSUME NEW disk, NEW f, \A n \in 1..MaxSteps : f[n] = Follow(disk, f[n - 1]),
         NEW k \in 0..MaxSteps, Follow(disk, f[k]) = f[k]
  PROVE  f[MaxSteps] = f[k]
<1> DEFINE Bad == {n \in k..MaxSteps : f[n] # f[k]}
<1>1. SUFFICES ASSUME Bad # {} PROVE FALSE
  BY KernelAssumption
<1>2. PICK m \in Bad : \A n \in Bad : m <= n
  <2>1. Bad \in SUBSET Nat
    BY KernelAssumption
  <2> HIDE DEF Bad
  <2> QED BY <1>1, <2>1, NatMinimum
<1>3. m # k /\ m \in 1..MaxSteps /\ m - 1 \in k..MaxSteps /\ ~(m <= m - 1)
  BY <1>2, KernelAssumption
<1>4. f[m - 1] = f[k]
  <2>1. m - 1 \notin Bad
    <3> HIDE DEF Bad
    <3> QED BY <1>2, <1>3
  <2> QED BY <1>3, <2>1
<1> QED BY <1>2, <1>3, <1>4

LEMMA WalkStraight ==
  ASSUME NEW disk, NEW path \in Seq(Name), Plain(path),
         \A n \in 1..(Len(path) - 1) :
           SubSeq(path, 1, n) \in DOMAIN disk /\ disk[SubSeq(path, 1, n)].kind # "symlink"
  PROVE  /\ path = <<>> => Walk(disk, path) = [at |-> path, rest |-> <<>>]
         /\ path \in DOMAIN disk
               /\ disk[path].kind # "symlink" => Walk(disk, path) = [at |-> path, rest |-> <<>>]
         /\ path # <<>> /\ path \notin DOMAIN disk =>
              Walk(disk, path) = [at |-> SubSeq(path, 1, Len(path) - 1), rest |-> <<path[Len(path)]>>]
<1>1. PICK f : /\ f[0] = [at |-> <<>>, rest |-> path]
               /\ \A n \in 1..MaxSteps : f[n] = Follow(disk, f[n - 1])
               /\ Walk(disk, path) = f[MaxSteps]
  BY WalkFollows
<1> DEFINE last == Len(path)
           S(n) == AfterNames(path, n)
<1>2. MaxSteps \in Nat /\ last \in Nat /\ last <= MaxSteps /\ \A n \in 1..last : path[n] # ".."
  BY KernelAssumption DEF Plain, Range
<1>3. S(0) = [at |-> <<>>, rest |-> path] /\ S(last) = [at |-> path, rest |-> <<>>]
  <2>1. SubSeq(path, 1, 0) = <<>> /\ SubSeq(path, 0 + 1, last) = path
    OBVIOUS
  <2>2. SubSeq(path, 1, last) = path /\ SubSeq(path, last + 1, last) = <<>>
    OBVIOUS
  <2> QED BY <2>1, <2>2 DEF AfterNames
<1>4. ASSUME NEW k \in 0..last,
             \A n \in 1..k : SubSeq(path, 1, n) \in DOMAIN disk /\ disk[SubSeq(path, 1, n)].kind # "symlink"
      PROVE  f[k] = S(k)
  <2> DEFINE z == 0
  <2>1. z \in Nat /\ k \in Nat /\ z <= k /\ k <= Len(path) /\ k = z + (k - z) /\ (z + 1)..k = 1..k
    BY <1>2
  <2>2. ".." \notin Range(path) /\ f[z] = AfterNames(path, z)
    BY <1>1, <1>3 DEF Plain
  <2> HIDE DEF z
  <2>3. Follows(f, disk, z, k)
    BY <1>1, <1>2, <2>1 DEF Follows
  <2>4. IsWay(disk, path, z, k)
    BY <1>4, <2>1 DEF IsWay
  <2>5. f[k] = AfterNames(path, k)
    BY <2>1, <2>2, <2>3, <2>4, NamesFollowed
  <2> QED BY <2>5
<1>7. ASSUME path # <<>> PROVE last \in 1..last /\ last - 1 \in 0..last
            /\ last - 1 \in 0..MaxSteps /\ last - 1 + 1 = last
  BY <1>2, <1>7
<1> DEFINE before == SubSeq(path, 1, last - 1)
<1>8. CASE path = <<>>
  <2>1. last = 0 /\ 0 \in 0..last /\ last \in 0..MaxSteps
    BY <1>2, <1>8
  <2>2. f[0] = S(0) /\ S(last) = S(0)
    BY <1>1, <1>3, <2>1
  <2>3. Follow(disk, S(last)) = S(last)
    <3>1. S(last).rest = <<>>
      BY <1>3
    <3> HIDE DEF S
    <3> QED BY <3>1 DEF Follow
  <2> HIDE DEF S, last
  <2>4. f[MaxSteps] = S(last)
    <3>1. last \in 0..MaxSteps /\ Follow(disk, f[last]) = f[last] /\ f[last] = S(last)
      BY <2>1, <2>2, <2>3
    <3> QED BY <1>1, <3>1, EndReached
  <2> QED BY <1>1, <1>3, <1>8, <2>4
<1>9. CASE path # <<>> /\ path \in DOMAIN disk /\ disk[path].kind # "symlink"
  <2>1. \A n \in 1..last : SubSeq(path, 1, n) \in DOMAIN disk /\ disk[SubSeq(path, 1, n)].kind # "symlink"
    <3> TAKE n \in 1..last
    <3>1. CASE n = last
      <4>1. SubSeq(path, 1, n) = path
        BY <3>1
      <4> QED BY <1>9, <4>1
    <3>2. CASE n # last
      <4>1. n \in 1..(last - 1)
        BY <1>2, <3>2
      <4> QED BY <4>1
    <3> QED BY <3>1, <3>2
  <2>2. last \in 0..last /\ last \in 0..MaxSteps
    BY <1>2
  <2>3. f[last] = S(last)
    <3> HIDE DEF S, last
    <3> QED BY <1>4, <2>1, <2>2
  <2>4. Follow(disk, S(last)) = S(last)
    <3>1. S(last).rest = <<>>
      BY <1>3
    <3> HIDE DEF S
    <3> QED BY <3>1 DEF Follow
  <2>5. f[MaxSteps] = S(last)
    <3> HIDE DEF S, last
    <3>1. last \in 0..MaxSteps /\ Follow(disk, f[last]) = f[last]
      BY <2>2, <2>3, <2>4
    <3> QED BY <1>1, <2>3, <3>1, EndReached
  <2> QED BY <1>1, <1>3, <1>9, <2>5
<1>10. CASE path # <<>> /\ path \notin DOMAIN disk
  <2>1. f[last - 1] = S(last - 1)
    <3> HIDE DEF S
    <3> QED BY <1>4, <1>7, <1>10
  <2> DEFINE w == S(last - 1)
  <2>2. /\ w.at = before /\ w.rest = SubSeq(path, last, last) /\ w.rest # <<>> /\ Head(w.rest) = path[last]
        /\ Append(w.at, Head(w.rest)) = path
    <3>1. SubSeq(path, 1, last) = path
      OBVIOUS
    <3> QED BY <1>7, <1>10, <3>1, PathCut DEF AfterNames
  <2>3. w.rest = <<path[last]>>
    <3>1. /\ SubSeq(path, last, last) \in Seq(Name) /\ Len(SubSeq(path, last, last)) = 1
          /\ SubSeq(path, last, last)[1] = path[last]
      BY <1>7, <1>10
    <3>2. path[last] \in Name
      BY <1>7, <1>10
    <3>3. <<path[last]>> \in Seq(Name) /\ Len(<<path[last]>>) = 1 /\ <<path[last]>>[1] = path[last]
      BY <3>2, Single
    <3> DEFINE a == SubSeq(path, last, last)
               b == <<path[last]>>
    <3> HIDE DEF a, b
    <3>4. a \in Seq(Name) /\ b \in Seq(Name) /\ Len(a) = Len(b) /\ Len(a) = 1 /\ a[1] = b[1]
      BY <3>1, <3>3 DEF a, b
    <3>5. \A i \in 1..Len(a) : a[i] = b[i]
      BY <3>4
    <3>6. a = b
      BY <3>4, <3>5, SameList
    <3> HIDE DEF w
    <3> QED BY <2>2, <3>6 DEF a, b
  <2>4. Follow(disk, w) = w
    <3>1. Head(w.rest) # ".."
      BY <1>2, <1>7, <1>10, <2>2
    <3> HIDE DEF w
    <3> QED BY <1>10, <2>2, <3>1 DEF Follow
  <2>5. w = [at |-> before, rest |-> <<path[last]>>]
    <3>1. w = [at |-> w.at, rest |-> w.rest]
      BY DEF AfterNames
    <3> HIDE DEF w
    <3> QED BY <2>2, <2>3, <3>1
  <2> HIDE DEF w, before, last
  <2>6. f[MaxSteps] = w
    <3> DEFINE n == last - 1
    <3>1. n \in 0..MaxSteps /\ f[n] = w
      BY <1>7, <1>10, <2>1 DEF w
    <3> HIDE DEF n
    <3>2. Follow(disk, f[n]) = f[n]
      BY <2>4, <3>1
    <3> QED BY <1>1, <3>1, <3>2, EndReached
  <2> QED BY <1>1, <1>10, <2>5, <2>6 DEF before, last
<1> QED BY <1>8, <1>9, <1>10

-----------------------------------------------------------------------------
(* The calls, where what is above a path are directories.                   *)

OnDirectories(disk, path) == \A p \in Above(path) : p \in DOMAIN disk /\ disk[p].kind = "dir"

LEMMA PlainAbove ==
  ASSUME NEW path \in Seq(Name), Plain(path), NEW n \in 0..Len(path)
  PROVE  /\ SubSeq(path, 1, n) \in Seq(Name) /\ Len(SubSeq(path, 1, n)) = n /\ Plain(SubSeq(path, 1, n))
         /\ \A i \in 0..n : SubSeq(SubSeq(path, 1, n), 1, i) = SubSeq(path, 1, i)
         /\ Above(SubSeq(path, 1, n)) = {SubSeq(path, 1, i) : i \in 0..(n - 1)}
<1> DEFINE p == SubSeq(path, 1, n)
<1>1. p \in Seq(Name) /\ Len(p) = n /\ Len(path) \in Nat /\ \A i \in 1..n : p[i] = path[i]
  OBVIOUS
<1>2. Plain(p)
  <2>1. 3 * n <= MaxSteps /\ \A i \in 1..Len(path) : path[i] # ".."
    BY <1>1, KernelAssumption DEF Plain, Range
  <2>2. \A i \in 1..Len(p) : p[i] # ".."
    BY <1>1, <2>1
  <2> HIDE DEF p
  <2>3. DOMAIN p = 1..Len(p)
    BY <1>1
  <2> QED BY <1>1, <2>1, <2>2, <2>3 DEF Plain, Range
<1>3. ASSUME NEW i \in 0..n PROVE SubSeq(p, 1, i) = SubSeq(path, 1, i)
  <2> DEFINE a == SubSeq(p, 1, i)
             b == SubSeq(path, 1, i)
  <2>1. b \in Seq(Name) /\ Len(b) = i /\ \A k \in 1..i : b[k] = path[k]
    BY <1>1
  <2>2. a \in Seq(Name) /\ Len(a) = i /\ \A k \in 1..i : a[k] = p[k]
    <3> HIDE DEF p
    <3> QED BY <1>1
  <2> HIDE DEF a, b, p
  <2>3. \A k \in 1..Len(a) : a[k] = b[k]
    BY <1>1, <2>1, <2>2
  <2>4. a = b
    BY <2>1, <2>2, <2>3, SameList
  <2> QED BY <2>4 DEF a, b
<1>4. Above(p) = {SubSeq(p, 1, i) : i \in 0..(n - 1)}
  BY <1>1 DEF Above
<1> HIDE DEF p
<1>5. \A i \in 0..(n - 1) : SubSeq(p, 1, i) = SubSeq(path, 1, i)
  BY <1>3
<1> QED BY <1>1, <1>2, <1>3, <1>4, <1>5 DEF p

LEMMA WalkOnDirectories ==
  ASSUME NEW disk, NEW path \in Seq(Name), Plain(path), OnDirectories(disk, path)
  PROVE  /\ path = <<>> => Walk(disk, path) = [at |-> path, rest |-> <<>>]
         /\ path \in DOMAIN disk
               /\ disk[path].kind # "symlink" => Walk(disk, path) = [at |-> path, rest |-> <<>>]
         /\ path # <<>> /\ path \notin DOMAIN disk =>
              Walk(disk, path) = [at |-> SubSeq(path, 1, Len(path) - 1), rest |-> <<path[Len(path)]>>]
<1>1. \A n \in 1..(Len(path) - 1) :
        SubSeq(path, 1, n) \in DOMAIN disk /\ disk[SubSeq(path, 1, n)].kind # "symlink"
  <2> TAKE n \in 1..(Len(path) - 1)
  <2>1. SubSeq(path, 1, n) \in Above(path)
    BY DEF Above
  <2> QED BY <2>1 DEF OnDirectories
<1> QED BY <1>1, WalkStraight

\* The directory of a path, the place of a new name and what is there.
LEMMA StandsHere ==
  ASSUME NEW disk, NEW path \in Path, Plain(path), OnDirectories(disk, path)
  PROVE  /\ IsDir(disk, Dir(path)) /\ Place(disk, path) = path
         /\ Dir(path) = SubSeq(path, 1, Len(path) - 1) /\ Dir(path) \in Above(path)
         /\ path \in DOMAIN disk /\ disk[path].kind # "symlink" =>
              Found(disk, path) /\ Node(disk, path) = disk[path]
                    /\ (IsDir(disk, path) <=> disk[path].kind = "dir")
         /\ path \notin DOMAIN disk => ~Found(disk, path) /\ ~IsDir(disk, path)
<1> DEFINE n == Len(path) - 1
           dir == SubSeq(path, 1, n)
<1>1. path \in Seq(Name) /\ path # <<>> /\ Len(path) \in Nat \ {0} /\ n \in 0..Len(path)
            /\ n \in 0..(Len(path) - 1)
  BY DEF Path
<1>2. Dir(path) = dir /\ Last(path) = path[Len(path)]
  BY DEF Dir, Front, Last
<1>3. dir \in Above(path)
  BY <1>1 DEF Above
<1>4. Walk(disk, dir) = [at |-> dir, rest |-> <<>>] /\ dir \in DOMAIN disk /\ disk[dir].kind = "dir"
  <2>1. dir \in Seq(Name) /\ Plain(dir) /\ Above(dir) = {SubSeq(path, 1, i) : i \in 0..(n - 1)}
    BY <1>1, PlainAbove
  <2>2. Above(dir) \subseteq Above(path)
    BY <1>1, <2>1 DEF Above
  <2>3. dir \in DOMAIN disk /\ disk[dir].kind = "dir" /\ OnDirectories(disk, dir)
    BY <1>3, <2>2 DEF OnDirectories
  <2> HIDE DEF dir
  <2> QED BY <2>1, <2>3, WalkOnDirectories
<1>5. Append(dir, path[Len(path)]) = path
  BY <1>1, ParentOf DEF Parent
<1> HIDE DEF dir, n
<1>6. IsDir(disk, Dir(path))
  BY <1>2, <1>4 DEF IsDir, Found, Node
<1>7. Place(disk, path) = path
  BY <1>2, <1>4, <1>5 DEF Place
<1>8. path \in DOMAIN disk /\ disk[path].kind # "symlink" =>
        Found(disk, path) /\ Node(disk, path) = disk[path] /\ (IsDir(disk, path) <=> disk[path].kind = "dir")
  BY <1>1, WalkOnDirectories DEF IsDir, Found, Node
<1>9. ASSUME path \notin DOMAIN disk PROVE ~Found(disk, path)
  <2>1. Walk(disk, path) = [at |-> SubSeq(path, 1, Len(path) - 1), rest |-> <<path[Len(path)]>>]
    BY <1>1, <1>9, WalkOnDirectories
  <2>2. path[Len(path)] \in Name
    BY <1>1
  <2>3. <<path[Len(path)]>> # <<>>
    BY <2>2
  <2> QED BY <2>1, <2>3 DEF Found
<1> QED BY <1>2, <1>3, <1>6, <1>7, <1>8, <1>9 DEF dir, n, IsDir

LEMMA CallsHere ==
  ASSUME NEW disk, NEW path \in Path, Plain(path), OnDirectories(disk, path)
  PROVE  /\ Mkdir(disk, path) = Try(disk, path \notin DOMAIN disk, path, Directory)
         /\ \A names : Symlink(disk, names, path) =
              Try(disk, path \notin DOMAIN disk, path, [kind |-> "symlink", to |-> names])
         /\ \A body : (path \in DOMAIN disk => disk[path].kind # "symlink") =>
              Create(disk, path, body) =
                Try(disk, path \in DOMAIN disk => disk[path].kind = "file", path, [kind |-> "file", body |-> body])
         /\ \A source \in Path :
              /\ Plain(source) /\ OnDirectories(disk, source)
              /\ source \in DOMAIN disk /\ disk[source].kind # "dir"
              => Link(disk, source, path) = Try(disk, path \notin DOMAIN disk, path, disk[source])
<1>1. IsDir(disk, Dir(path)) /\ Place(disk, path) = path
  BY StandsHere
<1>2. Mkdir(disk, path) = Try(disk, path \notin DOMAIN disk, path, Directory)
  BY <1>1 DEF Mkdir, Try
<1>3. \A names : Symlink(disk, names, path) =
        Try(disk, path \notin DOMAIN disk, path, [kind |-> "symlink", to |-> names])
  BY <1>1 DEF Symlink, Try
<1>4. ASSUME NEW source \in Path, Plain(source), OnDirectories(disk, source),
             source \in DOMAIN disk, disk[source].kind # "dir"
      PROVE  Link(disk, source, path) = Try(disk, path \notin DOMAIN disk, path, disk[source])
  <2>1. IsDir(disk, Dir(source)) /\ Place(disk, source) = source
    BY <1>4, StandsHere
  <2> QED BY <1>1, <1>4, <2>1 DEF Link, Try
<1>5. ASSUME NEW body, path \in DOMAIN disk => disk[path].kind # "symlink"
      PROVE  Create(disk, path, body) =
               Try(disk, path \in DOMAIN disk => disk[path].kind = "file", path, [kind |-> "file", body |-> body])
  <2>1. /\ path \in Seq(Name) /\ path # <<>> /\ Dir(path) \in DOMAIN disk /\ disk[Dir(path)].kind = "dir"
        /\ Dir(path) = SubSeq(path, 1, Len(path) - 1) /\ Dir(path) \in Seq(Name) /\ path[Len(path)] \in Name
        /\ Dir(path) \o <<path[Len(path)]>> = path
    <3>1. Dir(path) = SubSeq(path, 1, Len(path) - 1) /\ Dir(path) \in Above(path)
      BY StandsHere
    <3>2. path \in Seq(Name) /\ path # <<>>
      BY DEF Path
    <3>3. Dir(path) \in Seq(Name) /\ path[Len(path)] \in Name /\ Append(Dir(path), path[Len(path)]) = path
      BY <3>1, <3>2, ParentOf DEF Parent
    <3>4. Dir(path) \o <<path[Len(path)]>> = Append(Dir(path), path[Len(path)])
      BY <3>3
    <3> QED BY <3>1, <3>2, <3>3, <3>4 DEF OnDirectories
  <2> DEFINE w == Walk(disk, path)
             place == w.at \o w.rest
  <2>2. place = path /\ Len(w.rest) <= 1
    <3>1. CASE path \in DOMAIN disk
      <4>1. w = [at |-> path, rest |-> <<>>]
        BY <1>5, <2>1, <3>1, WalkOnDirectories
      <4>2. w.at = path /\ w.rest = <<>>
        BY <4>1
      <4>3. Len(<<>>) = 0 /\ path \o <<>> = path
        BY <2>1, NothingAdded
      <4> HIDE DEF w
      <4>4. place = path \o <<>> /\ Len(w.rest) = 0
        BY <4>2, <4>3
      <4> QED BY <4>3, <4>4
    <3>2. CASE path \notin DOMAIN disk
      <4>1. w = [at |-> Dir(path), rest |-> <<path[Len(path)]>>]
        BY <2>1, <3>2, WalkOnDirectories
      <4>2. w.at = Dir(path) /\ w.rest = <<path[Len(path)]>>
        BY <4>1
      <4>3. Len(<<path[Len(path)]>>) = 1
        BY <2>1, Single
      <4> HIDE DEF w
      <4>4. place = Dir(path) \o <<path[Len(path)]>> /\ Len(w.rest) = 1
        BY <4>2, <4>3
      <4> HIDE DEF place
      <4>5. place = path
        BY <2>1, <4>4
      <4> QED BY <4>4, <4>5
    <3> QED BY <3>1, <3>2
  <2>3. Create(disk, path, body) =
          Try(disk, /\ Len(w.rest) <= 1 /\ place # <<>> /\ disk[Dir(place)].kind = "dir"
                    /\ place \in DOMAIN disk => disk[place].kind = "file",
              place, [kind |-> "file", body |-> body])
    BY DEF Create
  <2> HIDE DEF w, place
  <2> QED BY <2>1, <2>2, <2>3 DEF Try
<1> QED BY <1>2, <1>3, <1>4, <1>5

\* MkdirAll makes all that is missing of directories above a path, and the path.
IsMaking(f, disk, path, n) ==
  f = [k \in 0..n |-> IF k = 0 THEN [fs |-> disk, failed |-> FALSE]
                      ELSE IF f[k - 1].failed \/ IsDir(f[k - 1].fs, SubSeq(path, 1, k)) THEN f[k - 1]
                      ELSE Mkdir(f[k - 1].fs, SubSeq(path, 1, k))]

LEMMA MakingExists ==
  ASSUME NEW disk, NEW path, NEW n \in Nat
  PROVE  \E f : IsMaking(f, disk, path, n)
<1> DEFINE Bad == {m \in Nat : ~\E f : IsMaking(f, disk, path, m)}
           MadeNext(r, k) == IF r.failed \/ IsDir(r.fs, SubSeq(path, 1, k)) THEN r ELSE Mkdir(r.fs, SubSeq(path, 1, k))
<1>1. SUFFICES ASSUME Bad # {} PROVE FALSE
  OBVIOUS
<1>2. PICK m \in Bad : \A i \in Bad : m <= i
  <2>1. Bad \in SUBSET Nat
    OBVIOUS
  <2> HIDE DEF Bad
  <2> QED BY <1>1, <2>1, NatMinimum
<1>3. m \in Nat /\ ~\E f : IsMaking(f, disk, path, m)
  OBVIOUS
<1>4. CASE m = 0
  <2> DEFINE f == [k \in 0..m |-> [fs |-> disk, failed |-> FALSE]]
  <2>1. IsMaking(f, disk, path, m)
    BY <1>4 DEF IsMaking
  <2> QED BY <1>3, <2>1
<1>5. CASE m # 0
  <2>1. m - 1 \in Nat /\ m - 1 \notin Bad
    <3>1. m - 1 \in Nat /\ ~(m <= m - 1)
      BY <1>3, <1>5
    <3> HIDE DEF Bad
    <3> QED BY <1>2, <3>1
  <2>2. PICK f : IsMaking(f, disk, path, m - 1)
    BY <2>1
  <2> DEFINE g == [k \in 0..m |-> IF k = m THEN MadeNext(f[m - 1], m) ELSE f[k]]
  <2>3. \A k \in 0..m : g[k] = IF k = 0 THEN [fs |-> disk, failed |-> FALSE] ELSE MadeNext(g[k - 1], k)
    <3> TAKE k \in 0..m
    <3> HIDE DEF MadeNext
    <3>1. CASE k = m
      BY <1>5, <2>1, <3>1
    <3>2. CASE k # m
      <4>1. k \in 0..(m - 1) /\ g[k] = f[k] /\ (k # 0 => g[k - 1] = f[k - 1])
        BY <2>1, <3>2
      <4>2. f[k] = IF k = 0 THEN [fs |-> disk, failed |-> FALSE] ELSE MadeNext(f[k - 1], k)
        BY <2>2, <4>1 DEF IsMaking, MadeNext
      <4> QED BY <4>1, <4>2
    <3> QED BY <3>1, <3>2
  <2>4. g = [k \in 0..m |-> g[k]]
    OBVIOUS
  <2> HIDE DEF g
  <2>5. IsMaking(g, disk, path, m)
    BY <2>3, <2>4 DEF IsMaking
  <2> QED BY <1>3, <2>5
<1> QED BY <1>4, <1>5

LEMMA MkdirAllMakes ==
  ASSUME NEW disk, NEW path \in Seq(Name)
  PROVE  \E f : /\ f[0] = [fs |-> disk, failed |-> FALSE]
                /\ \A n \in 1..Len(path) :
                     f[n] = IF f[n - 1].failed \/ IsDir(f[n - 1].fs, SubSeq(path, 1, n)) THEN f[n - 1]
                            ELSE Mkdir(f[n - 1].fs, SubSeq(path, 1, n))
                /\ MkdirAll(disk, path) = f[Len(path)]
<1> DEFINE made[n \in 0..Len(path)] ==
             IF n = 0 THEN [fs |-> disk, failed |-> FALSE]
             ELSE IF made[n - 1].failed \/ IsDir(made[n - 1].fs, SubSeq(path, 1, n)) THEN made[n - 1]
             ELSE Mkdir(made[n - 1].fs, SubSeq(path, 1, n))
<1>1. Len(path) \in Nat
  OBVIOUS
<1>2. IsMaking(made, disk, path, Len(path))
  <2>1. PICK f : IsMaking(f, disk, path, Len(path))
    BY <1>1, MakingExists
  <2> QED BY <2>1 DEF IsMaking, made
<1>3. MkdirAll(disk, path) = made[Len(path)]
  BY DEF MkdirAll
<1> HIDE DEF made
<1>4. made[0] = [fs |-> disk, failed |-> FALSE]
  BY <1>1, <1>2 DEF IsMaking
<1>5. ASSUME NEW n \in 1..Len(path)
      PROVE  made[n] = IF made[n - 1].failed \/ IsDir(made[n - 1].fs, SubSeq(path, 1, n)) THEN made[n - 1]
                       ELSE Mkdir(made[n - 1].fs, SubSeq(path, 1, n))
  <2>1. n \in 0..Len(path) /\ n # 0
    BY <1>1
  <2> QED BY <1>2, <2>1 DEF IsMaking
<1> QED BY <1>3, <1>4, <1>5

\* The first n directories of a path have been made.
IsMade(new, disk, path, n) ==
  /\ DOMAIN new = DOMAIN disk \cup {SubSeq(path, 1, i) : i \in 0..n}
  /\ \A p \in DOMAIN disk : new[p] = disk[p]
  /\ \A p \in DOMAIN new : p \notin DOMAIN disk => new[p] = Directory

LEMMA MkdirAllHere ==
  ASSUME NEW disk, NEW path \in Seq(Name), Plain(path), <<>> \in DOMAIN disk,
         \A i \in 0..Len(path) : SubSeq(path, 1, i) \in DOMAIN disk => disk[SubSeq(path, 1, i)].kind = "dir"
  PROVE  \E new : MkdirAll(disk, path) = [fs |-> new, failed |-> FALSE] /\ IsMade(new, disk, path, Len(path))
<1>1. PICK f : /\ f[0] = [fs |-> disk, failed |-> FALSE]
               /\ \A n \in 1..Len(path) :
                     f[n] = IF f[n - 1].failed \/ IsDir(f[n - 1].fs, SubSeq(path, 1, n)) THEN f[n - 1]
                            ELSE Mkdir(f[n - 1].fs, SubSeq(path, 1, n))
               /\ MkdirAll(disk, path) = f[Len(path)]
  BY MkdirAllMakes
<1>2. Len(path) \in Nat
  OBVIOUS
<1> DEFINE Good(n) == \E new : f[n] = [fs |-> new, failed |-> FALSE] /\ IsMade(new, disk, path, n)
<1>3. Good(0)
  <2>1. SubSeq(path, 1, 0) = <<>>
    OBVIOUS
  <2>2. {SubSeq(path, 1, i) : i \in 0..0} = {<<>>}
    <3> DEFINE e(i) == SubSeq(path, 1, i)
    <3>1. e(0) = <<>> /\ 0..0 = {0}
      BY <2>1
    <3> HIDE DEF e
    <3>2. {e(i) : i \in 0..0} = {<<>>}
      BY <3>1
    <3> QED BY <3>2 DEF e
  <2>3. IsMade(disk, disk, path, 0)
    BY <2>2 DEF IsMade
  <2> QED BY <1>1, <2>3
<1>4. ASSUME NEW n \in 1..Len(path), Good(n - 1) PROVE Good(n)
  <2>1. PICK old : f[n - 1] = [fs |-> old, failed |-> FALSE] /\ IsMade(old, disk, path, n - 1)
    BY <1>4
  <2> DEFINE p == SubSeq(path, 1, n)
  <2>2. f[n] = IF IsDir(old, p) THEN f[n - 1] ELSE Mkdir(old, p)
    BY <1>1, <2>1
  <2>3. /\ p \in Seq(Name) /\ Len(p) = n /\ Plain(p)
        /\ Above(p) = {SubSeq(path, 1, i) : i \in 0..(n - 1)}
    <3>1. n \in 0..Len(path)
      BY <1>2
    <3> QED BY <3>1, PlainAbove
  <2>4. p \in Path
    <3>1. p # <<>>
      BY <2>3
    <3> QED BY <2>3, <3>1 DEF Path
  <2>5. \A q \in DOMAIN old : (\E i \in 0..n : q = SubSeq(path, 1, i)) => old[q].kind = "dir"
    <3> TAKE q \in DOMAIN old
    <3> SUFFICES ASSUME NEW i \in 0..n, q = SubSeq(path, 1, i) PROVE old[q].kind = "dir"
      OBVIOUS
    <3>1. i \in 0..Len(path)
      BY <1>2
    <3>2. CASE q \in DOMAIN disk
      BY <2>1, <3>1, <3>2 DEF IsMade
    <3>3. CASE q \notin DOMAIN disk
      <4>1. old[q] = Directory
        BY <2>1, <3>3 DEF IsMade
      <4> QED BY <4>1 DEF Directory
    <3> QED BY <3>2, <3>3
  <2>6. OnDirectories(old, p)
    <3> SUFFICES ASSUME NEW q \in Above(p) PROVE q \in DOMAIN old /\ old[q].kind = "dir"
      BY DEF OnDirectories
    <3>1. PICK i \in 0..(n - 1) : q = SubSeq(path, 1, i)
      BY <2>3
    <3>2. i \in 0..n
      OBVIOUS
    <3>3. q \in DOMAIN old
      BY <2>1, <3>1 DEF IsMade
    <3> QED BY <2>5, <3>1, <3>2, <3>3
  <2>7. DOMAIN disk \cup {SubSeq(path, 1, i) : i \in 0..n} = DOMAIN old \cup {p}
    <3>1. 0..n = 0..(n - 1) \cup {n}
      BY <1>2
    <3>2. {SubSeq(path, 1, i) : i \in 0..n} = {SubSeq(path, 1, i) : i \in 0..(n - 1)} \cup {p}
      BY <3>1
    <3> QED BY <2>1, <3>2 DEF IsMade
  <2> HIDE DEF p
  <2>8. CASE p \in DOMAIN old
    <3>1. old[p].kind = "dir"
      <4>1. n \in 0..n /\ p = SubSeq(path, 1, n)
        BY DEF p
      <4> QED BY <2>5, <2>8, <4>1
    <3>2. IsDir(old, p)
      BY <2>3, <2>4, <2>6, <2>8, <3>1, StandsHere
    <3>3. f[n] = [fs |-> old, failed |-> FALSE]
      BY <2>1, <2>2, <3>2
    <3>4. IsMade(old, disk, path, n)
      BY <2>1, <2>7, <2>8 DEF IsMade
    <3> QED BY <3>3, <3>4
  <2>9. CASE p \notin DOMAIN old
    <3> DEFINE new == With(old, p, Directory)
    <3>1. ~IsDir(old, p) /\ Mkdir(old, p) = Try(old, p \notin DOMAIN old, p, Directory)
      BY <2>3, <2>4, <2>6, <2>9, StandsHere, CallsHere
    <3>2. f[n] = [fs |-> new, failed |-> FALSE]
      BY <2>2, <2>9, <3>1 DEF Try
    <3>3. DOMAIN new = DOMAIN old \cup {p} /\ new[p] = Directory /\ \A q \in DOMAIN old : new[q] = old[q]
      BY <2>9 DEF With
    <3> HIDE DEF new
    <3>4. IsMade(new, disk, path, n)
      BY <2>1, <2>7, <2>9, <3>3 DEF IsMade
    <3> QED BY <3>2, <3>4
  <2> QED BY <2>8, <2>9
<1>5. \A n \in 0..Len(path) : Good(n)
  <2> DEFINE Bad == {n \in 0..Len(path) : ~Good(n)}
  <2> HIDE DEF Good
  <2>1. SUFFICES ASSUME Bad # {} PROVE FALSE
    OBVIOUS
  <2>2. PICK m \in Bad : \A n \in Bad : m <= n
    <3>1. Bad \in SUBSET Nat
      OBVIOUS
    <3> HIDE DEF Bad
    <3> QED BY <2>1, <3>1, NatMinimum
  <2>3. m # 0
    BY <1>3, <2>2
  <2>4. m \in 1..Len(path) /\ m - 1 \in 0..Len(path) /\ ~(m <= m - 1)
    BY <1>2, <2>2, <2>3
  <2>5. m - 1 \notin Bad
    <3> HIDE DEF Bad
    <3> QED BY <2>2, <2>4
  <2> QED BY <1>4, <2>2, <2>4, <2>5
<1>6. Len(path) \in 0..Len(path)
  BY <1>2
<1> QED BY <1>1, <1>5, <1>6

-----------------------------------------------------------------------------
(* What the readers rely on: paths that can be followed, and a file for     *)
(* each hard link.                                                          *)

PlainInputs ==
  /\ \A n \in DOMAIN rpms : \A e \in Range(rpms[n]) : Plain(e.path)
  /\ \A h \in Range(options.symlinks) : Plain(h.path)

FileAt(p) == \E j \in DOMAIN archive : archive[j].path = p /\ archive[j].kind = "file"
LinksHaveFiles == \A j \in DOMAIN archive : archive[j].kind = "link" => FileAt(archive[j].to)

LEMMA PlainFromTheStart == Init => PlainInputs /\ LinksHaveFiles
<1> SUFFICES ASSUME NEW c \in Commands, Start(c) PROVE PlainInputs /\ LinksHaveFiles
  BY DEF Init
<1>1. options \in c.options /\ archive = <<>>
  BY DEF Start
<1>2. PICK n : rpms \in [1..n -> c.rpms]
  BY DEF Start
<1>3. PlainInputs
  BY <1>1, <1>2, PathsAssumption DEF PlainInputs
<1>4. DOMAIN archive = {}
  BY <1>1
<1> QED BY <1>3, <1>4 DEF LinksHaveFiles

LEMMA PlainKept ==
  ASSUME InvArchive, PlainInputs, LinksHaveFiles, [Next]_vars
  PROVE  (PlainInputs /\ LinksHaveFiles)'
<1> USE DEF InvArchive
<1>1. rpms' = rpms /\ options' = options
  BY DEF Next, Terminated, AddRPM, WriteTree, SkipDuplicate, AttributesFail, CopyEntry, PassOver,
           UnknownMode, WriteHardLinks, vars
<1>2. PlainInputs'
  BY <1>1 DEF PlainInputs
<1>3. archive \in Seq(TarHeader) /\ DOMAIN archive = 1..Len(archive) /\ Len(archive) \in Nat
  BY DEF Typed
<1>4. CASE archive' = archive
  BY <1>2, <1>4 DEF LinksHaveFiles, FileAt
<1>5. CASE WriteTree
  <2>1. InvArchive' /\ pc' = "files" /\ rpm' = 1 /\ ~options'.stdin
    BY <1>5, WriteTreeKeeps DEF WriteTree, Growing
  <2>2. archive' = Traverse(tree') /\ Shape(tree)' 
    BY <1>5, <2>1 DEF WriteTree, Typed
  <2>3. IsTraversal(archive', tree')
    BY <2>2, TraverseInOrder
  <2>4. \A j \in DOMAIN archive' : archive'[j].kind # "link"
    BY <2>2, <2>3 DEF IsTraversal, Shape
  <2> QED BY <1>2, <2>4 DEF LinksHaveFiles
<1>6. CASE CopyEntry
  <2>1. Reading /\ archive' = Append(archive, Header(Entry, Entry.kind, Attributes(Entry)))
    BY <1>6 DEF CopyEntry
  <2>2. Entry \in RpmEntry
    BY <2>1, ReadingIs
  <2> DEFINE h == Header(Entry, Entry.kind, Attributes(Entry))
  <2>3. h \in TarHeader /\ h.kind # "link"
    <3>1. Entry.kind # "socket"
      BY <1>6 DEF CopyEntry
    <3>2. Entry.kind \in {"dir", "symlink", "file", "special"}
      BY <2>2, <3>1 DEF RpmEntry
    <3>3. Attributes(Entry) \in SUBSET {"capability", "selinux"}
      BY AttributesAre
    <3> QED BY <2>2, <3>2, <3>3, HeaderIs
  <2> HIDE DEF h
  <2>4. /\ DOMAIN archive' = 1..(Len(archive) + 1) /\ archive'[Len(archive) + 1] = h
        /\ \A k \in 1..Len(archive) : archive'[k] = archive[k]
    BY <1>3, <2>1, <2>3, Appended DEF h
  <2>5. Written
    BY <1>1, <1>3, <2>4 DEF Written
  <2>6. ASSUME NEW j \in DOMAIN archive', archive'[j].kind = "link" PROVE FileAt(archive'[j].to)
    <3>1. j # Len(archive) + 1
      BY <2>3, <2>4, <2>6
    <3>2. j \in 1..Len(archive)
      BY <1>3, <2>4, <3>1
    <3> QED BY <1>3, <2>4, <2>6, <3>2 DEF LinksHaveFiles
  <2>7. \A p : FileAt(p) => \E j \in DOMAIN archive' : archive'[j].path = p /\ archive'[j].kind = "file"
    BY <2>5 DEF Written, FileAt
  <2> QED BY <1>2, <2>6, <2>7 DEF LinksHaveFiles, FileAt
<1>7. CASE WriteHardLinks
  <2> DEFINE lost == DOMAIN hardLinks \ DOMAIN inodes
             ready == {node \in DOMAIN hardLinks : \A l \in lost : node < l}
             L == Len(archive)
  <2>1. PICK s \in Sorted(ready) : archive' = archive \o AllLinks(s)
    BY <1>7 DEF WriteHardLinks, AllLinks
  <2>2. ready \in SUBSET (DOMAIN hardLinks \cap DOMAIN inodes)
    <3>1. \A node \in DOMAIN hardLinks : ~(node < node)
      BY DEF Waiting
    <3> QED BY <3>1
  <2> HIDE DEF ready
  <2>3. PICK b : b = AllLinks(s)
    OBVIOUS
  <2>4. /\ b \in Seq(TarHeader)
        /\ \A j \in DOMAIN b : \E node \in ready : \E k \in DOMAIN hardLinks[node] : LinkTo(b[j], node, k)
    BY <2>2, <2>3, LinksWritten
  <2>5. /\ DOMAIN b = 1..Len(b) /\ Len(b) \in Nat /\ DOMAIN archive' = 1..(L + Len(b))
        /\ \A j \in 1..L : archive'[j] = archive[j]
        /\ \A j \in 1..Len(b) : archive'[L + j] = b[j]
    BY <1>3, <2>1, <2>3, <2>4, Concatenated
  <2>6. Written
    BY <1>1, <1>3, <2>5 DEF Written
  <2>7. ASSUME NEW j \in DOMAIN b PROVE FileAt(b[j].to)
    <3>1. PICK node \in ready : \E k \in DOMAIN hardLinks[node] : LinkTo(b[j], node, k)
      BY <2>4
    <3>2. PICK k \in DOMAIN hardLinks[node] : LinkTo(b[j], node, k)
      BY <3>1
    <3>3. hardLinks[node] \in Seq(TarHeader) /\ node \in DOMAIN inodes
      BY <2>2 DEF Waiting
    <3>4. hardLinks[node][k] \in TarHeader
      BY <3>3
    <3>5. b[j].to = inodes[node]
      BY <3>2, <3>4 DEF LinkTo, TarHeader
    <3>6. \E o \in Range(rpms[rpm]) : o.path = inodes[node] /\ FileThere(o)
      BY <3>3 DEF Sources, IsSource
    <3> QED BY <3>5, <3>6 DEF FileThere, FileAt
  <2>8. ASSUME NEW j \in DOMAIN archive', archive'[j].kind = "link" PROVE FileAt(archive'[j].to)
    <3>1. CASE j \in 1..L
      BY <1>3, <2>5, <2>8, <3>1 DEF LinksHaveFiles
    <3>2. CASE j \notin 1..L
      <4>1. j - L \in DOMAIN b /\ archive'[j] = b[j - L]
        <5>1. j - L \in 1..Len(b) /\ L + (j - L) = j
          BY <1>3, <2>5, <3>2, Beyond
        <5> QED BY <2>5, <5>1
      <4> QED BY <2>7, <4>1
    <3> QED BY <3>1, <3>2
  <2>9. \A p : FileAt(p) => \E j \in DOMAIN archive' : archive'[j].path = p /\ archive'[j].kind = "file"
    BY <2>6 DEF Written, FileAt
  <2> QED BY <1>2, <2>8, <2>9 DEF LinksHaveFiles, FileAt
<1>8. CASE AddRPM \/ SkipDuplicate \/ AttributesFail \/ PassOver \/ UnknownMode \/ UNCHANGED vars
  BY <1>4, <1>8 DEF AddRPM, SkipDuplicate, AttributesFail, PassOver, UnknownMode, vars
<1> QED BY <1>2, <1>5, <1>6, <1>7, <1>8 DEF Next, Terminated

\* The paths of an archive that is finished come from the RPMs and the command line.
LEMMA PathsArePlain ==
  ASSUME InvArchive, PlainInputs, pc = "done", NEW j \in DOMAIN archive
  PROVE  archive[j] \in TarHeader /\ archive[j].path \in Path /\ Plain(archive[j].path)
<1> USE DEF InvArchive
<1>1. archive \in Seq(TarHeader)
  BY DEF Typed
<1>2. archive[j] \in TarHeader /\ archive[j].path \in Path
  <2>1. archive[j] \in TarHeader
    BY <1>1
  <2> QED BY <2>1 DEF TarHeader
<1>3. CASE ~IsOfTree(archive[j])
  <2>1. archive[j].path \in createdPaths
    BY <1>3 DEF Ordered
  <2>2. PICK n \in 1..Len(rpms) : \E k \in DOMAIN rpms[n] : rpms[n][k].path = archive[j].path
    BY <2>1 DEF Created
  <2>3. PICK k \in DOMAIN rpms[n] : rpms[n][k].path = archive[j].path
    BY <2>2
  <2>4. n \in DOMAIN rpms /\ rpms[n][k] \in Range(rpms[n])
    BY DEF Range, Given
  <2> QED BY <1>2, <2>3, <2>4 DEF PlainInputs
<1>4. CASE IsOfTree(archive[j])
  <2>1. SaidBy(tree.header, AllClaims) /\ archive[j].path \in DOMAIN tree.header /\ ~options.stdin
    BY <1>4 DEF TreeThere, IsOfTree
  <2>2. PICK i \in DOMAIN AllClaims : AllClaims[i].path = archive[j].path
    BY <2>1 DEF SaidBy, SaidOf
  <2>3. FlattenSeq(rpms) \in Seq(RpmEntry) /\ LaidOut(FlattenSeq(rpms), rpms, Len(rpms))
    <3>1. rpms \in Seq(Seq(RpmEntry)) /\ Len(rpms) \in Nat
      BY DEF Given
    <3>2. \A n \in 1..Len(rpms) : rpms[n] \in Seq(RpmEntry)
      BY <3>1
    <3>3. rpms = [n \in 1..Len(rpms) |-> rpms[n]]
      BY <3>1
    <3> QED BY <3>1, <3>2, <3>3, FlattenSeqLaidOut
  <2> DEFINE list == FlattenSeq(rpms)
             asked == options.symlinks
             D == RpmEntry \cup TarHeader
  <2>4. AllClaims = list \o asked /\ list \in Seq(D) /\ asked \in Seq(D)
    <3>1. asked \in Seq(TarHeader)
      BY DEF Given
    <3> QED BY <2>1, <2>3, <3>1 DEF AllClaims, Claims
  <2> HIDE DEF list, asked, D
  <2>5. /\ DOMAIN (list \o asked) = 1..(Len(list) + Len(asked)) /\ Len(list) \in Nat /\ Len(asked) \in Nat
        /\ DOMAIN list = 1..Len(list) /\ DOMAIN asked = 1..Len(asked)
        /\ \A k \in 1..Len(list) : (list \o asked)[k] = list[k]
        /\ \A k \in 1..Len(asked) : (list \o asked)[Len(list) + k] = asked[k]
    BY <2>4, Concatenated
  <2>6. CASE i \in 1..Len(list)
    <3>1. AllClaims[i] = list[i]
      BY <2>4, <2>5, <2>6
    <3>2. PICK row, col \in [1..Len(list) -> Nat] : Places(row, col, list, rpms, Len(rpms))
      BY <2>3 DEF LaidOut, list
    <3>3. row[i] \in 1..Len(rpms) /\ col[i] \in DOMAIN rpms[row[i]] /\ list[i] = rpms[row[i]][col[i]]
      BY <2>6, <3>2 DEF Places
    <3>4. row[i] \in DOMAIN rpms /\ list[i] \in Range(rpms[row[i]])
      BY <3>3 DEF Range, Given
    <3> QED BY <1>2, <2>2, <3>1, <3>4 DEF PlainInputs
  <2>7. CASE i \notin 1..Len(list)
    <3>1. i - Len(list) \in 1..Len(asked) /\ Len(list) + (i - Len(list)) = i
      BY <2>2, <2>4, <2>5, <2>7, Beyond
    <3>2. AllClaims[i] = asked[i - Len(list)]
      BY <2>4, <2>5, <3>1
    <3>3. asked[i - Len(list)] \in Range(asked)
      BY <2>5, <3>1 DEF Range
    <3> QED BY <1>2, <2>2, <3>2, <3>3 DEF PlainInputs, asked
  <2> QED BY <2>6, <2>7
<1> QED BY <1>3, <1>4, <1>2

-----------------------------------------------------------------------------
(* Directories stay, and what is there lies in one.                         *)

\* The words along which a link leads.
Word == Name \cup {".."}

LEMMA NamesAreWords == Seq(Name) \subseteq Seq(Word)
<1>1. \A s \in Seq(Name) : s \in Seq(Word)
  BY DEF Word
<1> QED BY <1>1

Sane(disk) ==
  \A p \in DOMAIN disk :
    /\ p \in Seq(Word) /\ (disk[p].kind = "symlink" => disk[p].to \in Seq(Word))
    /\ p = <<>> \/ (Dir(p) \in DOMAIN disk /\ disk[Dir(p)].kind = "dir")
Rooted(disk) == <<>> \in DOMAIN disk /\ disk[<<>>].kind = "dir"

LEMMA DirOf ==
  ASSUME NEW path \in Path
  PROVE  /\ Dir(path) = SubSeq(path, 1, Len(path) - 1) /\ Dir(path) \in Seq(Name)
         /\ Last(path) = path[Len(path)] /\ path[Len(path)] \in Name
         /\ Append(Dir(path), path[Len(path)]) = path /\ Dir(path) \in Above(path) /\ Len(path) \in Nat \ {0}
<1>1. Dir(path) = SubSeq(path, 1, Len(path) - 1) /\ Last(path) = path[Len(path)]
  BY DEF Dir, Front, Last
<1>2. path \in Seq(Name) /\ path # <<>> /\ Len(path) \in Nat \ {0} /\ path[Len(path)] \in Name
  BY DEF Path
<1>3. Dir(path) \in Seq(Name) /\ Append(Dir(path), path[Len(path)]) = path
  BY <1>1, <1>2, ParentOf DEF Parent
<1>4. Dir(path) \in Above(path)
  BY <1>1, <1>2 DEF Above
<1> QED BY <1>1, <1>2, <1>3, <1>4

LEMMA AppendIs ==
  ASSUME NEW p \in Seq(Word), NEW name \in Word
  PROVE  /\ Append(p, name) \in Seq(Word) /\ Append(p, name) # <<>> /\ Dir(Append(p, name)) = p
            /\ p \o <<name>> = Append(p, name)
<1> DEFINE q == Append(p, name)
<1>1. q \in Seq(Word) /\ Len(q) = Len(p) + 1 /\ Len(p) \in Nat /\ \A k \in 1..Len(p) : q[k] = p[k]
  OBVIOUS
<1> HIDE DEF q
<1>2. q # <<>>
  BY <1>1
<1>3. Dir(q) \in Seq(Word) /\ Len(Dir(q)) = Len(p) /\ \A k \in 1..Len(p) : Dir(q)[k] = q[k]
  BY <1>1 DEF Dir, Front
<1>4. Dir(q) = p
  <2> DEFINE e == Dir(q)
  <2>1. e \in Seq(Word) /\ p \in Seq(Word) /\ Len(e) = Len(p) /\ \A k \in 1..Len(e) : e[k] = p[k]
    BY <1>1, <1>3
  <2> HIDE DEF e
  <2>2. e = p
    BY <2>1, SameList
  <2> QED BY <2>2 DEF e
<1>5. p \o <<name>> = Append(p, name)
  OBVIOUS
<1> QED BY <1>1, <1>2, <1>4, <1>5 DEF q

LEMMA OneOnly ==
  ASSUME NEW D, NEW s \in Seq(D), s # <<>>, Len(s) <= 1
  PROVE  s[1] \in D /\ s = <<s[1]>>
<1>1. Len(s) \in Nat /\ Len(s) # 0
  OBVIOUS
<1>2. Len(s) = 1
  BY <1>1
<1>3. s[1] \in D
  BY <1>2
<1>4. <<s[1]>> \in Seq(D) /\ Len(<<s[1]>>) = 1 /\ <<s[1]>>[1] = s[1]
  BY <1>3, Single
<1> DEFINE t == <<s[1]>>
<1>5. t \in Seq(D) /\ Len(t) = Len(s) /\ t[1] = s[1]
  BY <1>2, <1>4
<1> HIDE DEF t
<1>6. \A i \in 1..Len(s) : s[i] = t[i]
  BY <1>2, <1>5
<1>7. s = t
  BY <1>5, <1>6, SameList
<1> QED BY <1>3, <1>7 DEF t

LEMMA FollowStays ==
  ASSUME NEW disk, Sane(disk), Rooted(disk), NEW w,
         w.at \in DOMAIN disk, disk[w.at].kind # "symlink", w.rest \in Seq(Word)
  PROVE  LET x == Follow(disk, w)
         IN  x.at \in DOMAIN disk /\ disk[x.at].kind # "symlink" /\ x.rest \in Seq(Word)
<1>1. CASE w.rest = <<>>
  BY <1>1 DEF Follow
<1>2. CASE w.rest # <<>>
  <2> DEFINE name == Head(w.rest)
             next == Append(w.at, name)
             tail == Tail(w.rest)
  <2>1. tail \in Seq(Word) /\ name \in Word
    BY <1>2
  <2> HIDE DEF name, tail
  <2>2. CASE name = ".."
    <3>1. Follow(disk, w) = [at |-> IF w.at = <<>> THEN <<>> ELSE Dir(w.at), rest |-> tail]
      BY <1>2, <2>2 DEF Follow, name, tail
    <3> QED BY <2>1, <3>1 DEF Sane, Rooted
  <2>3. CASE name # ".." /\ next \notin DOMAIN disk
    <3>1. Follow(disk, w) = w
      BY <1>2, <2>3 DEF Follow, name
    <3> QED BY <3>1
  <2>4. CASE name # ".." /\ next \in DOMAIN disk /\ disk[next].kind = "symlink"
    <3>1. Follow(disk, w) = [at |-> w.at, rest |-> disk[next].to \o tail]
      BY <1>2, <2>4 DEF Follow, name, tail
    <3>2. disk[next].to \in Seq(Word)
      BY <2>4 DEF Sane
    <3>3. disk[next].to \o tail \in Seq(Word)
      BY <2>1, <3>2
    <3> QED BY <3>1, <3>3
  <2>5. CASE name # ".." /\ next \in DOMAIN disk /\ disk[next].kind # "symlink"
    <3>1. Follow(disk, w) = [at |-> next, rest |-> tail]
      BY <1>2, <2>5 DEF Follow, name, tail
    <3> QED BY <2>1, <2>5, <3>1
  <2> QED BY <2>2, <2>3, <2>4, <2>5
<1> QED BY <1>1, <1>2

LEMMA WalkStays ==
  ASSUME NEW disk, Sane(disk), Rooted(disk), NEW path \in Seq(Word)
  PROVE  LET w == Walk(disk, path)
         IN  w.at \in DOMAIN disk /\ disk[w.at].kind # "symlink" /\ w.rest \in Seq(Word)
<1>1. PICK f : /\ f[0] = [at |-> <<>>, rest |-> path]
               /\ \A n \in 1..MaxSteps : f[n] = Follow(disk, f[n - 1])
               /\ Walk(disk, path) = f[MaxSteps]
  BY WalkFollows
<1> DEFINE Good(w) == w.at \in DOMAIN disk /\ disk[w.at].kind # "symlink" /\ w.rest \in Seq(Word)
           Bad == {n \in 0..MaxSteps : ~Good(f[n])}
<1>2. MaxSteps \in Nat
  BY KernelAssumption
<1>3. Good(f[0])
  BY <1>1 DEF Rooted
<1>4. ASSUME NEW n \in 1..MaxSteps, Good(f[n - 1]) PROVE Good(f[n])
  <2> DEFINE w == f[n - 1]
  <2>1. w.at \in DOMAIN disk /\ disk[w.at].kind # "symlink" /\ w.rest \in Seq(Word) /\ f[n] = Follow(disk, w)
    BY <1>1, <1>4
  <2> HIDE DEF w
  <2> QED BY <2>1, FollowStays
<1> HIDE DEF Good
<1>5. Bad = {}
  <2>1. SUFFICES ASSUME Bad # {} PROVE FALSE
    OBVIOUS
  <2>2. PICK m \in Bad : \A n \in Bad : m <= n
    <3>1. Bad \in SUBSET Nat
      OBVIOUS
    <3> HIDE DEF Bad
    <3> QED BY <2>1, <3>1, NatMinimum
  <2>3. m # 0
    BY <1>3, <2>2
  <2>4. m \in 1..MaxSteps /\ m - 1 \in 0..MaxSteps /\ ~(m <= m - 1)
    BY <1>2, <2>2, <2>3
  <2>5. m - 1 \notin Bad
    <3> HIDE DEF Bad
    <3> QED BY <2>2, <2>4
  <2> QED BY <1>4, <2>2, <2>4, <2>5
<1>6. MaxSteps \in 0..MaxSteps
  BY <1>2
<1> QED BY <1>1, <1>5, <1>6 DEF Good

\* A file, a link or a directory is put where there is a directory.
LEMMA WriteKeeps ==
  ASSUME NEW disk, Sane(disk), NEW place \in Seq(Word), place # <<>>, NEW node,
         Dir(place) \in DOMAIN disk, disk[Dir(place)].kind = "dir",
         place \in DOMAIN disk => disk[place].kind # "dir",
         node.kind = "symlink" => node.to \in Seq(Word)
  PROVE  LET new == With(disk, place, node)
         IN  /\ Sane(new) /\ (Rooted(disk) => Rooted(new))
             /\ DOMAIN new = DOMAIN disk \cup {place} /\ new[place] = node
             /\ \A p \in DOMAIN disk : p # place => new[p] = disk[p]
             /\ \A q : OnDirectories(disk, q) => OnDirectories(new, q)
<1> DEFINE new == With(disk, place, node)
<1>1. DOMAIN new = DOMAIN disk \cup {place} /\ new[place] = node
            /\ \A p \in DOMAIN disk : p # place => new[p] = disk[p]
  BY DEF With
<1>2. \A p \in DOMAIN disk : disk[p].kind = "dir" => p \in DOMAIN new /\ new[p].kind = "dir"
  BY <1>1
<1>3. place \in Seq(Word) /\ place # <<>>
  BY DEF Path
<1> HIDE DEF new
<1>4. Sane(new)
  <2> SUFFICES ASSUME NEW p \in DOMAIN new
               PROVE  /\ p \in Seq(Word) /\ (new[p].kind = "symlink" => new[p].to \in Seq(Word))
                      /\ p = <<>> \/ (Dir(p) \in DOMAIN new /\ new[Dir(p)].kind = "dir")
    BY DEF Sane
  <2>1. CASE p = place
    BY <1>1, <1>2, <1>3, <2>1
  <2>2. CASE p # place
    BY <1>1, <1>2, <2>2 DEF Sane
  <2> QED BY <2>1, <2>2
<1>5. Rooted(disk) => Rooted(new)
  BY <1>2 DEF Rooted
<1>6. \A q : OnDirectories(disk, q) => OnDirectories(new, q)
  BY <1>2 DEF OnDirectories
<1> QED BY <1>1, <1>4, <1>5, <1>6 DEF new

\* MkdirAll where all that is above the path is there.
LEMMA MkdirAllOnDirectories ==
  ASSUME NEW disk, NEW path \in Path, Plain(path), OnDirectories(disk, path)
  PROVE  MkdirAll(disk, path) = IF IsDir(disk, path) THEN [fs |-> disk, failed |-> FALSE] ELSE Mkdir(disk, path)
<1>1. path \in Seq(Name) /\ Len(path) \in Nat \ {0} /\ SubSeq(path, 1, Len(path)) = path
  BY DEF Path
<1>2. PICK f : /\ f[0] = [fs |-> disk, failed |-> FALSE]
               /\ \A n \in 1..Len(path) :
                     f[n] = IF f[n - 1].failed \/ IsDir(f[n - 1].fs, SubSeq(path, 1, n)) THEN f[n - 1]
                            ELSE Mkdir(f[n - 1].fs, SubSeq(path, 1, n))
               /\ MkdirAll(disk, path) = f[Len(path)]
  BY <1>1, MkdirAllMakes
<1> DEFINE first == [fs |-> disk, failed |-> FALSE]
           L == Len(path) - 1
<1>3. ASSUME NEW n \in 1..L, f[n - 1] = first PROVE f[n] = first
  <2> DEFINE p == SubSeq(path, 1, n)
  <2>1. n \in 1..Len(path) /\ n \in 0..Len(path) /\ n \in 0..(Len(path) - 1)
    BY <1>1
  <2>2. /\ p \in Seq(Name) /\ Len(p) = n /\ Plain(p)
        /\ Above(p) = {SubSeq(path, 1, i) : i \in 0..(n - 1)}
    BY <1>1, <2>1, PlainAbove
  <2>3. Above(p) \subseteq Above(path) /\ p \in Above(path)
    BY <1>1, <2>1, <2>2 DEF Above
  <2>4. p # <<>>
    BY <2>2
  <2>5. p \in Path /\ OnDirectories(disk, p) /\ p \in DOMAIN disk /\ disk[p].kind = "dir"
    BY <2>2, <2>3, <2>4 DEF Path, OnDirectories
  <2> HIDE DEF p
  <2>6. IsDir(disk, p)
    BY <2>2, <2>5, StandsHere
  <2> QED BY <1>2, <1>3, <2>1, <2>6 DEF p
<1>4. f[L] = first
  <2> DEFINE Bad == {n \in 0..L : f[n] # first}
  <2> HIDE DEF first
  <2>1. SUFFICES ASSUME Bad # {} PROVE FALSE
    BY <1>1
  <2>2. PICK m \in Bad : \A n \in Bad : m <= n
    <3>1. Bad \in SUBSET Nat
      OBVIOUS
    <3> HIDE DEF Bad
    <3> QED BY <2>1, <3>1, NatMinimum
  <2>3. m # 0
    BY <1>2, <2>2 DEF first
  <2>4. m \in 1..L /\ m - 1 \in 0..L /\ ~(m <= m - 1)
    BY <1>1, <2>2, <2>3
  <2>5. m - 1 \notin Bad
    <3> HIDE DEF Bad
    <3> QED BY <2>2, <2>4
  <2> QED BY <1>3, <2>2, <2>4, <2>5
<1>5. Len(path) \in 1..Len(path) /\ f[Len(path) - 1] = first
  BY <1>1, <1>4
<1>6. f[Len(path)] = IF first.failed \/ IsDir(first.fs, path) THEN first ELSE Mkdir(first.fs, path)
  <2> HIDE DEF first
  <2> QED BY <1>1, <1>2, <1>5
<1> QED BY <1>2, <1>6

\* Create, wherever links may lead.
LEMMA CreateKeeps ==
  ASSUME NEW disk, Sane(disk), Rooted(disk), NEW path \in Seq(Word), NEW body
  PROVE  LET r == Create(disk, path, body)
         IN  /\ r.failed => r.fs = disk
             /\ Sane(r.fs) /\ \A q : OnDirectories(disk, q) => OnDirectories(r.fs, q)
<1> DEFINE w == Walk(disk, path)
           place == w.at \o w.rest
           node == [kind |-> "file", body |-> body]
           can == /\ Len(w.rest) <= 1 /\ place # <<>> /\ disk[Dir(place)].kind = "dir"
                  /\ place \in DOMAIN disk => disk[place].kind = "file"
<1>1. Create(disk, path, body) = Try(disk, can, place, node)
  BY DEF Create
<1>2. w.at \in DOMAIN disk /\ disk[w.at].kind # "symlink" /\ w.rest \in Seq(Word) /\ w.at \in Seq(Word)
  BY WalkStays DEF Sane
<1>3. node.kind = "file"
  OBVIOUS
<1> HIDE DEF w, node
<1>4. CASE ~can
  <2>1. Create(disk, path, body) = [fs |-> disk, failed |-> TRUE]
    BY <1>1, <1>4 DEF Try
  <2> QED BY <2>1
<1>5. CASE can
  <2>1. Create(disk, path, body) = [fs |-> With(disk, place, node), failed |-> FALSE]
    BY <1>1, <1>5 DEF Try
  <2>2. place \in Seq(Word) /\ place # <<>> /\ Dir(place) \in DOMAIN disk
    <3>1. CASE w.rest = <<>>
      <4>1. place = w.at
        BY <1>2, <3>1
      <4> QED BY <1>2, <1>5, <4>1 DEF Sane
    <3>2. CASE w.rest # <<>>
      <4>1. w.rest[1] \in Word /\ w.rest = <<w.rest[1]>>
        <5> DEFINE rest == w.rest
        <5>1. rest \in Seq(Word) /\ rest # <<>> /\ Len(rest) <= 1
          BY <1>2, <1>5, <3>2
        <5> HIDE DEF rest
        <5>2. rest[1] \in Word /\ rest = <<rest[1]>>
          BY <5>1, OneOnly
        <5> QED BY <5>2 DEF rest
      <4>2. place \in Seq(Word) /\ place # <<>> /\ Dir(place) = w.at
        <5> DEFINE p == w.at
                   x == w.rest[1]
        <5>1. p \in Seq(Word) /\ x \in Word /\ place = p \o <<x>>
          BY <1>2, <4>1
        <5> HIDE DEF p, x, place
        <5>2. place \in Seq(Word) /\ place # <<>> /\ Dir(place) = p
          BY <5>1, AppendIs
        <5> QED BY <5>2 DEF p
      <4> QED BY <1>2, <4>2
    <3> QED BY <3>1, <3>2
  <2>3. disk[Dir(place)].kind = "dir" /\ (place \in DOMAIN disk => disk[place].kind # "dir")
    BY <1>5
  <2> HIDE DEF place
  <2>4. /\ Sane(With(disk, place, node))
        /\ \A q : OnDirectories(disk, q) => OnDirectories(With(disk, place, node), q)
    BY <1>3, <2>2, <2>3, WriteKeeps
  <2> QED BY <2>1, <2>4
<1> QED BY <1>4, <1>5

-----------------------------------------------------------------------------
(* The way from one path to another.                                        *)

IsShared(n, p, q) ==
  /\ n \in 0..Len(p) /\ n <= Len(q) /\ SubSeq(p, 1, n) = SubSeq(q, 1, n)
  /\ n < Len(p) /\ n < Len(q) => p[n + 1] # q[n + 1]

LEMMA SharedIs ==
  ASSUME NEW p \in Seq(Name), NEW q \in Seq(Name)
  PROVE  IsShared(Shared(p, q), p, q)
<1> DEFINE Differ == {n \in Nat : n = Len(p) \/ n = Len(q) \/ (n < Len(p) /\ n < Len(q) /\ p[n + 1] # q[n + 1])}
<1>1. PICK n \in Differ : \A m \in Differ : n <= m
  <2>1. Differ \in SUBSET Nat /\ Len(p) \in Differ
    OBVIOUS
  <2> HIDE DEF Differ
  <2> QED BY <2>1, NatMinimum
<1>2. n \in Nat /\ n <= Len(p) /\ n <= Len(q)
  <2>1. Len(p) \in Differ /\ Len(q) \in Differ
    OBVIOUS
  <2>2. n \in Nat
    OBVIOUS
  <2> HIDE DEF Differ
  <2> QED BY <1>1, <2>1, <2>2
<1>3. ASSUME NEW i \in 1..n PROVE p[i] = q[i]
  <2>1. i - 1 \in Nat /\ ~(n <= i - 1) /\ i - 1 < Len(p) /\ i - 1 < Len(q) /\ i - 1 + 1 = i
    BY <1>2
  <2>2. i - 1 \notin Differ
    <3> HIDE DEF Differ
    <3> QED BY <1>1, <2>1
  <2> QED BY <2>1, <2>2
<1>4. SubSeq(p, 1, n) = SubSeq(q, 1, n)
  <2> DEFINE a == SubSeq(p, 1, n)
             b == SubSeq(q, 1, n)
  <2>1. a \in Seq(Name) /\ Len(a) = n /\ \A i \in 1..n : a[i] = p[i]
    BY <1>2
  <2>2. b \in Seq(Name) /\ Len(b) = n /\ \A i \in 1..n : b[i] = q[i]
    BY <1>2
  <2> HIDE DEF a, b
  <2>3. a = b
    <3>1. \A i \in 1..Len(a) : a[i] = b[i]
      BY <1>3, <2>1, <2>2
    <3> QED BY <2>1, <2>2, <3>1, SameList
  <2> QED BY <2>3 DEF a, b
<1>5. IsShared(n, p, q)
  <2>1. n = Len(p) \/ n = Len(q) \/ (n < Len(p) /\ n < Len(q) /\ p[n + 1] # q[n + 1])
    OBVIOUS
  <2>2. Len(p) \in Nat /\ Len(q) \in Nat
    OBVIOUS
  <2>3. n \in 0..Len(p)
    BY <1>2, <2>2
  <2> QED BY <1>2, <1>4, <2>1, <2>2, <2>3 DEF IsShared
<1>6. Shared(p, q) = CHOOSE m \in 0..Len(p) : IsShared(m, p, q)
  BY DEF Shared, IsShared
<1>7. n \in 0..Len(p)
  BY <1>5 DEF IsShared
<1> QED BY <1>5, <1>6, <1>7

LEMMA RelIs ==
  ASSUME NEW dir \in Seq(Name), NEW path \in Seq(Name)
  PROVE  LET n == Shared(dir, path)
         IN  /\ n \in 0..Len(dir) /\ n <= Len(path) /\ SubSeq(dir, 1, n) = SubSeq(path, 1, n)
             /\ Rel(dir, path) \in Seq(Word)
             /\ Len(Rel(dir, path)) = (Len(dir) - n) + (Len(path) - n)
             /\ \A i \in 1..(Len(dir) - n) : Rel(dir, path)[i] = ".."
             /\ \A i \in 1..(Len(path) - n) : Rel(dir, path)[(Len(dir) - n) + i] = path[n + i]
<1> DEFINE n == Shared(dir, path)
           a == [i \in 1..(Len(dir) - n) |-> ".."]
           b == SubSeq(path, n + 1, Len(path))
<1>1. n \in 0..Len(dir) /\ n <= Len(path) /\ SubSeq(dir, 1, n) = SubSeq(path, 1, n)
  BY SharedIs DEF IsShared
<1> HIDE DEF n
<1>2. a \in Seq(Word) /\ Len(a) = Len(dir) - n /\ \A i \in 1..(Len(dir) - n) : a[i] = ".."
  <2>1. ".." \in Word
    BY DEF Word
  <2>2. Len(dir) - n \in Nat
    BY <1>1
  <2> QED BY <2>1, <2>2
<1>3. b \in Seq(Word) /\ Len(b) = Len(path) - n /\ \A i \in 1..(Len(path) - n) : b[i] = path[n + i]
  <2>1. b \in Seq(Name) /\ Len(b) = Len(path) - n /\ \A i \in 1..(Len(path) - n) : b[i] = path[n + i]
    BY <1>1
  <2> HIDE DEF b
  <2> QED BY <2>1, NamesAreWords
<1>4. Rel(dir, path) = a \o b
  BY DEF Rel, n
<1> HIDE DEF a, b
<1>5. /\ a \o b \in Seq(Word) /\ Len(a \o b) = Len(a) + Len(b)
      /\ \A k \in 1..Len(a) : (a \o b)[k] = a[k]
      /\ \A j \in 1..Len(b) : (a \o b)[Len(a) + j] = b[j]
  <2>1. a \in Seq(Word) /\ b \in Seq(Word)
    BY <1>2, <1>3
  <2> QED BY <2>1, Concatenated
<1> QED BY <1>1, <1>2, <1>3, <1>4, <1>5 DEF n

LEMMA FromTheTop ==
  ASSUME NEW disk, NEW path \in Seq(Name), ".." \notin Range(path),
         NEW k \in Nat, k <= Len(path), IsWay(disk, path, 0, k),
         NEW f, f[0] = [at |-> <<>>, rest |-> path], Follows(f, disk, 0, k)
  PROVE  f[k] = AfterNames(path, k)
<1>1. ASSUME NEW m \in Nat, m = 0, NEW start \in Nat, start = 0, NEW stop \in Nat, stop = k
      PROVE  f[stop] = AfterNames(path, k)
  <2>1. m <= k /\ stop = start + (k - m) /\ k <= Len(path) /\ ".." \notin Range(path)
    BY <1>1
  <2>2. f[start] = AfterNames(path, m)
    <3>1. SubSeq(path, 1, 0) = <<>> /\ SubSeq(path, 0 + 1, Len(path)) = path
      OBVIOUS
    <3> QED BY <3>1, <1>1 DEF AfterNames
  <2>3. IsWay(disk, path, m, k) /\ Follows(f, disk, start, stop)
    BY <1>1
  <2> QED BY ONLY m \in Nat, k \in Nat, start \in Nat, stop \in Nat, path \in Seq(Name), <2>1,
           <2>2, <2>3, NamesFollowed
<1> QED BY <1>1

\* A link that leads from its directory to a file leads there.
LEMMA LinkWalk ==
  ASSUME NEW disk, NEW path \in Path, NEW to \in Path, Plain(path), Plain(to),
         OnDirectories(disk, path), OnDirectories(disk, to), path \in DOMAIN disk,
         disk[path].kind = "symlink", disk[path].to = Rel(Dir(path), to),
         to \in DOMAIN disk, disk[to].kind # "symlink"
  PROVE  Walk(disk, path) = [at |-> to, rest |-> <<>>]
<1> DEFINE L == Len(path)
           M == Len(to)
           dir == Dir(path)
           rel == Rel(dir, to)
           n == Shared(dir, to)
           U == L - 1 - n
<1>1. PICK f : /\ f[0] = [at |-> <<>>, rest |-> path]
               /\ \A i \in 1..MaxSteps : f[i] = Follow(disk, f[i - 1])
               /\ Walk(disk, path) = f[MaxSteps]
  BY WalkFollows
<1>2. /\ path \in Seq(Name) /\ to \in Seq(Name) /\ L \in Nat \ {0} /\ M \in Nat \ {0} /\ MaxSteps \in Nat
      /\ ".." \notin Range(path) /\ ".." \notin Range(to) /\ 3 * L <= MaxSteps /\ 3 * M <= MaxSteps
      /\ path # <<>> /\ to # <<>>
  BY KernelAssumption DEF Path, Plain
<1>3. /\ dir = SubSeq(path, 1, L - 1) /\ dir \in Seq(Name) /\ Len(dir) = L - 1
      /\ Append(dir, path[L]) = path
  <2> DEFINE k == L - 1
  <2>1. k \in 0..Len(path)
    BY <1>2
  <2> HIDE DEF k
  <2>2. Len(SubSeq(path, 1, k)) = k
    BY <1>2, <2>1
  <2> QED BY <1>2, <2>2, DirOf DEF k
<1>4. /\ n \in 0..(L - 1) /\ n <= M /\ SubSeq(dir, 1, n) = SubSeq(to, 1, n)
      /\ rel \in Seq(Word) /\ Len(rel) = U + (M - n)
      /\ \A i \in 1..U : rel[i] = ".."
      /\ \A i \in 1..(M - n) : rel[U + i] = to[n + i]
  <2>1. dir \in Seq(Name) /\ to \in Seq(Name)
    BY <1>2, <1>3
  <2> HIDE DEF dir
  <2>2. /\ n \in 0..Len(dir) /\ n <= Len(to) /\ SubSeq(dir, 1, n) = SubSeq(to, 1, n)
        /\ rel \in Seq(Word)
        /\ Len(rel) = (Len(dir) - n) + (Len(to) - n)
        /\ \A i \in 1..(Len(dir) - n) : rel[i] = ".."
        /\ \A i \in 1..(Len(to) - n) : rel[(Len(dir) - n) + i] = to[n + i]
    BY <2>1, RelIs
  <2> HIDE DEF n, rel
  <2> QED BY <1>3, <2>2
<1> HIDE DEF n
<1>5. U \in Nat /\ U <= L - 1 /\ L + U + (M - n) <= MaxSteps /\ L <= MaxSteps /\ M - n \in Nat
  <2>1. ASSUME NEW a \in Nat, NEW b \in Nat, NEW c \in Nat, NEW most \in Nat, 3 * a <= most, 3 * b <= most,
               c <= a - 1, c <= b
        PROVE  /\ a - 1 - c \in Nat /\ a - 1 - c <= a - 1 /\ a + (a - 1 - c) + (b - c) <= most
               /\ a <= most /\ b - c \in Nat
    BY <2>1
  <2>2. n \in Nat /\ n <= L - 1 /\ n <= M /\ L \in Nat /\ M \in Nat
    BY <1>2, <1>4
  <2> HIDE DEF L, M
  <2> QED BY <1>2, <2>1, <2>2
<1>6. \A i \in 1..(L - 1) : SubSeq(path, 1, i) \in DOMAIN disk /\ disk[SubSeq(path, 1, i)].kind = "dir"
  <2> TAKE i \in 1..(L - 1)
  <2>1. SubSeq(path, 1, i) \in Above(path)
    BY <1>2 DEF Above
  <2> QED BY <2>1 DEF OnDirectories
<1>7. \A i \in 1..M : SubSeq(to, 1, i) \in DOMAIN disk /\ disk[SubSeq(to, 1, i)].kind # "symlink"
  <2> TAKE i \in 1..M
  <2>1. CASE i = M
    <3>1. SubSeq(to, 1, i) = to
      BY <1>2, <2>1
    <3> QED BY <3>1
  <2>2. CASE i # M
    <3>1. SubSeq(to, 1, i) \in Above(to)
      BY <1>2, <2>2 DEF Above
    <3> QED BY <3>1 DEF OnDirectories
  <2> QED BY <2>1, <2>2
\* Down to the directory of the link.
<1>8. f[L - 1] = AfterNames(path, L - 1)
  <2> DEFINE k == L - 1
  <2>1. k \in Nat /\ k <= Len(path) /\ path \in Seq(Name) /\ ".." \notin Range(path)
    BY <1>2
  <2>2. Follows(f, disk, 0, k)
    BY <1>1, <1>2, <1>5 DEF Follows
  <2>3. IsWay(disk, path, 0, k)
    BY <1>6 DEF IsWay
  <2> HIDE DEF k
  <2>4. f[0] = [at |-> <<>>, rest |-> path]
    BY <1>1
  <2>5. f[k] = AfterNames(path, k)
    BY <2>1, <2>2, <2>3, <2>4, FromTheTop
  <2> QED BY <2>5 DEF k
\* Along the link.
<1>9. f[L] = [at |-> dir, rest |-> rel]
  <2> DEFINE w == AfterNames(path, L - 1)
  <2>1. f[L] = Follow(disk, w)
    <3>1. L \in 1..MaxSteps
      BY <1>2, <1>5
    <3> QED BY <1>1, <1>8, <3>1
  <2>2. w.at = dir /\ w.rest # <<>> /\ Head(w.rest) = path[L] /\ Tail(w.rest) = <<>>
    <3>1. L \in 1..Len(path) /\ L - 1 + 1 = L
      BY <1>2
    <3>2. /\ SubSeq(path, L, L) # <<>> /\ Head(SubSeq(path, L, L)) = path[L]
          /\ Tail(SubSeq(path, L, L)) = SubSeq(path, L + 1, L)
      BY <1>2, <3>1, PathCut
    <3>3. SubSeq(path, L + 1, L) = <<>>
      BY <1>2
    <3> QED BY <1>3, <3>1, <3>2, <3>3 DEF AfterNames
  <2>3. path[L] # ".."
    BY <1>2 DEF Range
  <2>4. disk[path].to \o <<>> = rel
    BY <1>4, NothingAdded
  <2> HIDE DEF w, dir, rel
  <2>5. Follow(disk, w) = [at |-> dir, rest |-> disk[path].to \o <<>>]
    BY <1>3, <2>2, <2>3 DEF Follow
  <2> QED BY <2>1, <2>4, <2>5
\* Up to the directory that both are below.
<1> DEFINE Up(u) == [at |-> SubSeq(path, 1, L - 1 - u), rest |-> SubSeq(rel, u + 1, Len(rel))]
<1>10. ASSUME NEW u \in 1..U PROVE Follow(disk, Up(u - 1)) = Up(u)
  <2> DEFINE w == Up(u - 1)
             p == SubSeq(path, 1, L - u)
  <2>1. /\ p \in Seq(Name) /\ Len(p) = L - u /\ p # <<>> /\ p \in Path
        /\ SubSeq(p, 1, L - u - 1) = SubSeq(path, 1, L - 1 - u)
    <3>1. L - u \in 0..Len(path) /\ L - u \in 1..Len(path) /\ L - u - 1 \in 0..(L - u) /\ L - u - 1 = L - 1 - u
      BY <1>2, <1>5
    <3>2. p \in Seq(Name) /\ Len(p) = L - u
      BY <1>2, <3>1
    <3>3. SubSeq(p, 1, L - u - 1) = SubSeq(path, 1, L - u - 1)
      BY <1>2, <3>1, PlainAbove
    <3> HIDE DEF p
    <3>4. p # <<>>
      BY <3>1, <3>2
    <3> QED BY <3>1, <3>2, <3>3, <3>4 DEF Path
  <2>2. w.at = p /\ w.rest # <<>> /\ Head(w.rest) = ".." /\ Tail(w.rest) = SubSeq(rel, u + 1, Len(rel))
    <3>1. u \in 1..Len(rel) /\ u - 1 + 1 = u /\ L - 1 - (u - 1) = L - u
      BY <1>2, <1>4, <1>5
    <3>2. /\ SubSeq(rel, u, Len(rel)) # <<>> /\ Head(SubSeq(rel, u, Len(rel))) = rel[u]
          /\ Tail(SubSeq(rel, u, Len(rel))) = SubSeq(rel, u + 1, Len(rel))
      BY <1>4, <3>1, PathCut
    <3> QED BY <1>4, <3>1, <3>2
  <2>3. Dir(p) = SubSeq(path, 1, L - 1 - u)
    <3>1. Dir(p) = SubSeq(p, 1, Len(p) - 1)
      BY <2>1, DirOf
    <3> QED BY <2>1, <3>1
  <2> HIDE DEF w, p
  <2>4. Follow(disk, w) = [at |-> Dir(p), rest |-> SubSeq(rel, u + 1, Len(rel))]
    BY <2>1, <2>2 DEF Follow
  <2> QED BY <2>3, <2>4 DEF w
<1>11. f[L + U] = Up(U)
  <2> DEFINE Bad == {u \in 0..U : f[L + u] # Up(u)}
  <2>1. f[L + 0] = Up(0)
    <3>1. SubSeq(rel, 0 + 1, Len(rel)) = rel /\ L - 1 - 0 = L - 1 /\ L + 0 = L
      BY <1>2, <1>4
    <3> QED BY <1>3, <1>9, <3>1
  <2> HIDE DEF Up
  <2>2. Bad = {}
    <3>1. SUFFICES ASSUME Bad # {} PROVE FALSE
      OBVIOUS
    <3>2. PICK u \in Bad : \A i \in Bad : u <= i
      <4>1. Bad \in SUBSET Nat
        OBVIOUS
      <4> HIDE DEF Bad
      <4> QED BY <3>1, <4>1, NatMinimum
    <3>3. u # 0
      BY <2>1, <3>2
    <3>4. /\ u \in 1..U /\ u - 1 \in 0..U /\ ~(u <= u - 1)
          /\ L + u \in 1..MaxSteps /\ L + u - 1 = L + (u - 1)
      BY <1>2, <1>5, <3>2, <3>3
    <3>5. u - 1 \notin Bad
      <4> HIDE DEF Bad
      <4> QED BY <3>2, <3>4
    <3>6. f[L + u] = Follow(disk, f[L + u - 1])
      BY <1>1, <3>4
    <3> QED BY <1>10, <3>2, <3>4, <3>5, <3>6
  <2>3. U \in 0..U
    BY <1>5
  <2> QED BY <2>2, <2>3
\* And down to where it leads.
<1>12. Up(U) = AfterNames(to, n)
  <2>1. SubSeq(path, 1, L - 1 - U) = SubSeq(to, 1, n)
    <3>1. L - 1 - U = n /\ n \in 0..(L - 1) /\ L - 1 \in 0..Len(path)
      BY <1>2, <1>4
    <3>2. SubSeq(dir, 1, n) = SubSeq(path, 1, n)
      BY <1>2, <1>3, <3>1, PlainAbove
    <3> QED BY <1>4, <3>1, <3>2
  <2> DEFINE a == SubSeq(rel, U + 1, Len(rel))
             b == SubSeq(to, n + 1, M)
  <2>2. a \in Seq(Word) /\ Len(a) = M - n /\ \A i \in 1..(M - n) : a[i] = rel[U + i]
    BY <1>4, <1>5
  <2>3. b \in Seq(Name) /\ Len(b) = M - n /\ \A i \in 1..(M - n) : b[i] = to[n + i]
    <3>1. ASSUME NEW m \in Nat, m <= Len(to)
          PROVE  LET c == SubSeq(to, m + 1, Len(to))
                 IN  /\ c \in Seq(Name) /\ Len(c) = Len(to) - m
                     /\ \A i \in 1..(Len(to) - m) : c[i] = to[m + i]
      BY <1>2, <3>1
    <3>2. n \in Nat /\ n <= Len(to)
      BY <1>2, <1>4
    <3> HIDE DEF a
    <3> QED BY <3>1, <3>2
  <2> HIDE DEF a, b
  <2>4. b \in Seq(Word)
    BY <2>3, NamesAreWords
  <2>5. \A i \in 1..Len(a) : a[i] = b[i]
    BY <1>4, <2>2, <2>3
  <2>6. a = b
    BY <2>2, <2>3, <2>4, <2>5, SameList
  <2> QED BY <2>1, <2>6 DEF AfterNames, a, b
<1> DEFINE start == L + U
           stop == L + U + (M - n)
<1>13. f[stop] = AfterNames(to, M)
  <2>1. /\ start \in Nat /\ stop \in Nat /\ stop = start + (M - n) /\ n \in Nat /\ n <= M /\ M <= Len(to)
        /\ stop <= MaxSteps
    BY <1>2, <1>4, <1>5
  <2>2. Follows(f, disk, start, stop)
    <3>1. (start + 1)..stop \subseteq 1..MaxSteps
      BY <1>2, <2>1
    <3> QED BY <1>1, <3>1 DEF Follows
  <2>3. IsWay(disk, to, n, M)
    <3>1. (n + 1)..M \subseteq 1..M
      BY <1>4
    <3> QED BY <1>7, <3>1 DEF IsWay
  <2>4. f[start] = AfterNames(to, n)
    BY <1>11, <1>12
  <2> HIDE DEF start, stop
  <2> QED BY <1>2, <2>1, <2>2, <2>3, <2>4, NamesFollowed
<1>14. AfterNames(to, M) = [at |-> to, rest |-> <<>>]
  <2>1. SubSeq(to, 1, M) = to /\ SubSeq(to, M + 1, M) = <<>>
    BY <1>2
  <2> QED BY <2>1 DEF AfterNames
<1>15. f[MaxSteps] = f[stop]
  <2>1. stop \in 0..MaxSteps
    BY <1>2, <1>4, <1>5
  <2> HIDE DEF stop
  <2>2. Follow(disk, f[stop]) = f[stop]
    BY <1>13, <1>14 DEF Follow
  <2> QED BY <1>1, <2>1, <2>2, EndReached
<1> QED BY <1>1, <1>13, <1>14, <1>15

-----------------------------------------------------------------------------
(* What tar2files copies.                                                   *)

LEMMA RequestIs ==
  ASSUME NEW r \in Requests
  PROVE  /\ r.prefix \in Seq(Name) /\ r.files \subseteq Path
         /\ \A path \in Declared(r) : path \in Path /\ path \in Seq(Name) /\ Plain(path)
<1>1. r.prefix \in Seq(Name) /\ r.files \subseteq Path /\ \A path \in Declared(r) : Plain(path)
  BY PathsAssumption
<1>2. ASSUME NEW file \in r.files PROVE Meant(r.prefix, file) \in Path
  <2> DEFINE prefix == r.prefix
             both == prefix \o file
  <2>1. file \in Path /\ prefix \in Seq(Name) /\ file \in Seq(Name) /\ Len(file) \in Nat \ {0}
              /\ Len(prefix) \in Nat
    BY <1>1 DEF Path
  <2> HIDE DEF prefix
  <2>2. both \in Seq(Name) /\ Len(both) = Len(prefix) + Len(file)
    BY <2>1, Concatenated
  <2> HIDE DEF both
  <2>3. both # <<>>
    BY <2>1, <2>2
  <2>4. both \in Path
    BY <2>2, <2>3 DEF Path
  <2> QED BY <2>1, <2>4 DEF Meant, prefix, both
<1> QED BY <1>1, <1>2 DEF Declared, Path

LEMMA UpTo ==
  ASSUME NEW s \in Seq(Name), NEW k \in 0..Len(s)
  PROVE  SubSeq(s, 1, k) \in Seq(Name) /\ Len(SubSeq(s, 1, k)) = k /\ \A i \in 1..k : SubSeq(s, 1, k)[i] = s[i]
OBVIOUS

\* What has the names of the prefix at its start begins with it and has it in its text.
LEMMA PrefixBegins ==
  ASSUME NEW p \in Seq(Name), NEW q \in Seq(Name), Len(p) <= Len(q), \A i \in 1..Len(p) : p[i] = q[i]
  PROVE  Begins(p, q) /\ Occurs(p, q)
<1>1. Len(p) \in Nat /\ Len(q) \in Nat
  OBVIOUS
<1>2. CASE p = <<>>
  BY <1>2 DEF Begins, Occurs
<1>3. CASE p # <<>>
  <2> DEFINE a == SubSeq(q, 1, Len(p) - 1)
             b == Front(p)
             n == 0
  <2>1. Len(p) \in 1..Len(p) /\ Len(p) - 1 \in 0..Len(p) /\ Len(p) - 1 \in 0..Len(q)
              /\ n \in 0..(Len(q) - Len(p))
    BY <1>1, <1>3
  <2>2. b = SubSeq(p, 1, Len(p) - 1) /\ Last(p) = p[Len(p)]
    BY DEF Front, Last
  <2>3. a \in Seq(Name) /\ Len(a) = Len(p) - 1 /\ \A i \in 1..(Len(p) - 1) : a[i] = q[i]
    BY <2>1, UpTo
  <2>4. b \in Seq(Name) /\ Len(b) = Len(p) - 1 /\ \A i \in 1..(Len(p) - 1) : b[i] = p[i]
    BY <2>1, <2>2, UpTo
  <2> HIDE DEF a, b
  <2>5. \A i \in 1..Len(a) : a[i] = b[i]
    BY <1>1, <2>3, <2>4
  <2>6. a = b
    BY <2>3, <2>4, <2>5, SameList
  <2>7. n + 1 = 1 /\ n + Len(p) - 1 = Len(p) - 1 /\ n + Len(p) = Len(p)
    BY <1>1
  <2>8. Starts(q[Len(p)], Last(p))
    BY <2>1, <2>2 DEF Starts
  <2>9. Begins(p, q)
    BY <2>6, <2>8 DEF Begins, a, b
  <2> HIDE DEF n
  <2>10. Occurs(p, q)
    BY <2>1, <2>6, <2>7, <2>8 DEF Occurs, a, b
  <2> QED BY <2>9, <2>10
<1> QED BY <1>2, <1>3

LEMMA KeysAreMeant ==
  ASSUME NEW r \in Requests, Straight(r), NEW file \in r.files
  PROVE  Key(r.prefix, file) = Meant(r.prefix, file) /\ InPrefix(r.prefix, Key(r.prefix, file))
<1> DEFINE p == r.prefix
           both == p \o file
<1>1. p \in Seq(Name) /\ file \in Seq(Name) /\ Len(p) \in Nat /\ Len(file) \in Nat
  BY RequestIs DEF Path
<1>2. Occurs(p, file) => IsPrefix(p, file)
  BY DEF Straight
<1> HIDE DEF p
<1>3. ASSUME IsPrefix(p, file) PROVE Begins(p, file) /\ Occurs(p, file)
  <2>1. Len(p) <= Len(file) /\ SubSeq(p, 1, Len(p)) = SubSeq(file, 1, Len(p))
    BY <1>3 DEF IsPrefix
  <2>2. \A i \in 1..Len(p) : SubSeq(p, 1, Len(p))[i] = p[i] /\ SubSeq(file, 1, Len(p))[i] = file[i]
    BY <1>1, <2>1
  <2> QED BY <1>1, <2>1, <2>2, PrefixBegins
<1>4. Begins(p, both)
  <2>1. both \in Seq(Name) /\ Len(both) = Len(p) + Len(file) /\ \A i \in 1..Len(p) : both[i] = p[i]
    BY <1>1, Concatenated
  <2> HIDE DEF both
  <2> QED BY <1>1, <2>1, PrefixBegins
<1>5. Occurs(p, file) <=> IsPrefix(p, file)
  BY <1>2, <1>3
<1>6. Key(p, file) = Meant(p, file) /\ Begins(p, Key(p, file))
  BY <1>3, <1>4, <1>5 DEF Key, Meant
<1> QED BY <1>6 DEF InPrefix, p

\* What is left of an entry where it has been copied to.
IsCopy(disk, e, path) ==
  /\ path \in DOMAIN disk /\ e.kind \in {"dir", "file", "symlink", "link"}
  /\ e.kind = "dir" => disk[path].kind = "dir"
  /\ e.kind = "file" => disk[path] = [kind |-> "file", body |-> e.body]
  /\ e.kind \in {"symlink", "link"} => disk[path] = [kind |-> "symlink", to |-> LinkNames(e)]

LEMMA LinkNamesAre ==
  ASSUME NEW e \in TarHeader
  PROVE  LinkNames(e) \in Seq(Word)
<1>1. e.path \in Path /\ e.to \in Seq(Name)
  BY DEF TarHeader
<1>2. Dir(e.path) \in Seq(Name)
  BY <1>1, DirOf
<1>3. Rel(Dir(e.path), e.to) \in Seq(Word)
  BY <1>1, <1>2, RelIs
<1> QED BY <1>1, <1>3, NamesAreWords DEF LinkNames

LEMMA CopiedKeeps ==
  ASSUME Sane(out), NEW path \in Path, Plain(path), OnDirectories(out, path), NEW e \in TarHeader
  PROVE  LET r == Copied(e, path)
         IN  Sane(r.fs) /\ \A q : OnDirectories(out, q) => OnDirectories(r.fs, q)
<1>1. /\ e.kind \in {"dir", "symlink", "file", "special", "link"}
      /\ path \in Seq(Word) /\ path # <<>> /\ path \in Seq(Name) /\ Len(path) \in Nat \ {0}
  BY NamesAreWords DEF TarHeader, Path
<1>2. Dir(path) \in DOMAIN out /\ out[Dir(path)].kind = "dir" /\ Rooted(out)
  <2>1. Dir(path) \in Above(path)
    BY DirOf
  <2>2. <<>> \in Above(path)
    <3>1. SubSeq(path, 1, 0) = <<>> /\ 0 \in 0..(Len(path) - 1)
      BY <1>1
    <3> QED BY <3>1 DEF Above
  <2> QED BY <2>1, <2>2 DEF OnDirectories, Rooted
<1>3. ASSUME NEW node, node.kind = "symlink" => node.to \in Seq(Word)
      PROVE  LET r == Try(out, path \notin DOMAIN out, path, node)
             IN  Sane(r.fs) /\ \A q : OnDirectories(out, q) => OnDirectories(r.fs, q)
  <2> DEFINE can == path \notin DOMAIN out
  <2>1. CASE can
    <3>1. Try(out, can, path, node).fs = With(out, path, node)
      BY <2>1 DEF Try
    <3>2. Sane(With(out, path, node)) /\ \A q : OnDirectories(out, q) => OnDirectories(With(out, path, node), q)
      BY <1>1, <1>2, <1>3, <2>1, WriteKeeps
    <3> QED BY <3>1, <3>2
  <2>2. CASE ~can
    <3>1. Try(out, can, path, node).fs = out
      BY <2>2 DEF Try
    <3> QED BY <3>1
  <2> QED BY <2>1, <2>2
<1>4. CASE e.kind = "file"
  <2>1. Copied(e, path) = Create(out, path, e.body)
    BY <1>4 DEF Copied
  <2> QED BY <1>1, <1>2, <2>1, CreateKeeps
<1>5. CASE e.kind \in {"symlink", "link"}
  <2> DEFINE names == LinkNames(e)
             node == [kind |-> "symlink", to |-> names]
  <2>1. names \in Seq(Word)
    BY LinkNamesAre
  <2> HIDE DEF names
  <2>2. Copied(e, path) = Symlink(out, names, path)
    BY <1>5 DEF Copied, names
  <2>3. Symlink(out, names, path) = Try(out, path \notin DOMAIN out, path, node)
    BY CallsHere
  <2>4. node.kind = "symlink" => node.to \in Seq(Word)
    BY <2>1
  <2> HIDE DEF node
  <2> QED BY <1>3, <2>2, <2>3, <2>4
<1>6. CASE e.kind = "dir"
  <2>1. Copied(e, path) = MkdirAll(out, path)
    BY <1>6 DEF Copied
  <2>2. MkdirAll(out, path) = IF IsDir(out, path) THEN [fs |-> out, failed |-> FALSE] ELSE Mkdir(out, path)
    BY MkdirAllOnDirectories
  <2>3. CASE IsDir(out, path)
    BY <2>1, <2>2, <2>3
  <2>4. CASE ~IsDir(out, path)
    <3>1. Copied(e, path) = Try(out, path \notin DOMAIN out, path, Directory)
      BY <2>1, <2>2, <2>4, CallsHere
    <3>2. Directory.kind # "symlink"
      BY DEF Directory
    <3> QED BY <1>3, <3>1, <3>2
  <2> QED BY <2>3, <2>4
<1>7. CASE e.kind = "special"
  <2>1. Copied(e, path) = [fs |-> out, failed |-> TRUE]
    BY <1>7 DEF Copied
  <2> QED BY <2>1
<1> QED BY <1>1, <1>4, <1>5, <1>6, <1>7

\* Where nothing but a directory is in its place, the copy is made there.
LEMMA CopiedHere ==
  ASSUME NEW path \in Path, Plain(path), OnDirectories(out, path), NEW e \in TarHeader,
         path \in DOMAIN out => out[path].kind = "dir"
  PROVE  LET r == Copied(e, path)
         IN  /\ r.failed => e.kind = "special" \/ path \in DOMAIN out
             /\ ~r.failed => /\ DOMAIN r.fs = DOMAIN out \cup {path}
                             /\ \A p \in DOMAIN out : p # path => r.fs[p] = out[p]
                             /\ IsCopy(r.fs, e, path)
<1>1. e.kind \in {"dir", "symlink", "file", "special", "link"}
  BY DEF TarHeader
<1>2. ASSUME NEW node, NEW can, can \in BOOLEAN, can = (path \notin DOMAIN out)
      PROVE  LET r == Try(out, can, path, node)
             IN  /\ r.failed => path \in DOMAIN out
                 /\ ~r.failed => /\ DOMAIN r.fs = DOMAIN out \cup {path} /\ r.fs[path] = node
                                 /\ \A p \in DOMAIN out : p # path => r.fs[p] = out[p]
  BY <1>2 DEF Try, With
<1>3. CASE e.kind = "file"
  <2> DEFINE node == [kind |-> "file", body |-> e.body]
             can == path \in DOMAIN out => out[path].kind = "file"
  <2>1. Copied(e, path) = Create(out, path, e.body)
    BY <1>3 DEF Copied
  <2>2. Create(out, path, e.body) = Try(out, can, path, node)
    BY CallsHere
  <2>3. can \in BOOLEAN /\ can = (path \notin DOMAIN out)
    OBVIOUS
  <2> HIDE DEF can
  <2>4. LET r == Try(out, can, path, node)
        IN  /\ r.failed => path \in DOMAIN out
            /\ ~r.failed => /\ DOMAIN r.fs = DOMAIN out \cup {path} /\ r.fs[path] = node
                            /\ \A p \in DOMAIN out : p # path => r.fs[p] = out[p]
    BY <1>2, <2>3
  <2> QED BY <1>3, <2>1, <2>2, <2>4 DEF IsCopy
<1>4. CASE e.kind \in {"symlink", "link"}
  <2> DEFINE names == LinkNames(e)
             node == [kind |-> "symlink", to |-> names]
             can == path \notin DOMAIN out
  <2>1. Copied(e, path) = Symlink(out, names, path)
    BY <1>4 DEF Copied
  <2> HIDE DEF names
  <2>2. Symlink(out, names, path) = Try(out, can, path, node)
    BY CallsHere
  <2>3. LET r == Try(out, can, path, node)
        IN  /\ r.failed => path \in DOMAIN out
            /\ ~r.failed => /\ DOMAIN r.fs = DOMAIN out \cup {path} /\ r.fs[path] = node
                            /\ \A p \in DOMAIN out : p # path => r.fs[p] = out[p]
    BY <1>2
  <2> QED BY <1>4, <2>1, <2>2, <2>3 DEF IsCopy, names
<1>5. CASE e.kind = "dir"
  <2>1. Copied(e, path) = IF IsDir(out, path) THEN [fs |-> out, failed |-> FALSE] ELSE Mkdir(out, path)
    BY <1>5, MkdirAllOnDirectories DEF Copied
  <2>2. CASE path \in DOMAIN out
    <3>1. IsDir(out, path)
      BY <2>2, StandsHere
    <3>2. Copied(e, path) = [fs |-> out, failed |-> FALSE]
      BY <2>1, <3>1
    <3> QED BY <1>5, <2>2, <3>2 DEF IsCopy
  <2>3. CASE path \notin DOMAIN out
    <3> DEFINE can == path \notin DOMAIN out
    <3>1. ~IsDir(out, path)
      BY <2>3, StandsHere
    <3>2. Copied(e, path) = Try(out, can, path, Directory)
      BY <2>1, <3>1, CallsHere
    <3>3. Directory.kind = "dir"
      BY DEF Directory
    <3>4. LET r == Try(out, can, path, Directory)
          IN  /\ r.failed => path \in DOMAIN out
              /\ ~r.failed => /\ DOMAIN r.fs = DOMAIN out \cup {path} /\ r.fs[path] = Directory
                              /\ \A p \in DOMAIN out : p # path => r.fs[p] = out[p]
      BY <1>2
    <3> QED BY <1>5, <3>2, <3>3, <3>4 DEF IsCopy
  <2> QED BY <2>2, <2>3
<1>6. CASE e.kind = "special"
  <2>1. Copied(e, path).failed
    BY <1>6 DEF Copied
  <2> QED BY <1>6, <2>1
<1> QED BY <1>1, <1>3, <1>4, <1>5, <1>6

-----------------------------------------------------------------------------
(* The invariant of tar2files.                                              *)

Prepares(r) == UNION {Above(q) : q \in Declared(r)}
IsFirst(n, path) == archive[n].path = path /\ \A m \in 1..(n - 1) : archive[m].path # path
Delivered(path) ==
  \E n \in DOMAIN archive : n < position /\ IsFirst(n, path) /\ IsCopy(out, archive[n], path)

Copying ==
  /\ filter \in {"idle", "reading", "done", "failed"} /\ position \in Nat \ {0} /\ Sane(out)
  /\ filter = "idle" => fileMap = <<>> /\ position = 1
  /\ filter = "done" => fileMap = <<>>
  /\ filter # "idle" =>
       /\ pc = "done" /\ request \in Requests
       /\ \A key \in DOMAIN fileMap : fileMap[key] \in Declared(request)
       /\ fileMap = [key \in DOMAIN fileMap |-> fileMap[key]]
       /\ \A n \in DOMAIN archive : n < position /\ InPrefix(request.prefix, archive[n].path) =>
            archive[n].path \notin DOMAIN fileMap
       /\ \A file \in request.files :
            InPrefix(request.prefix, Key(request.prefix, file)) \/ Key(request.prefix, file) \in DOMAIN fileMap
       /\ \A path \in Declared(request) : OnDirectories(out, path)

\* What a straight request has by now, and what it has not.
CopyingStraight ==
  filter # "idle" /\ Straight(request) =>
    /\ \A key \in DOMAIN fileMap : fileMap[key] = key /\ InPrefix(request.prefix, key)
    /\ filter # "failed" =>
         /\ DOMAIN out \subseteq Prepares(request) \cup (Declared(request) \ DOMAIN fileMap)
         /\ \A path \in Declared(request) : path \in DOMAIN fileMap \/ Delivered(path)

InvFilter == Copying /\ CopyingStraight /\ FilterFailsForAReason

LEMMA FilterFromTheStart == FilterInit => InvFilter
<1> SUFFICES ASSUME FilterInit PROVE InvFilter
  OBVIOUS
<1>1. filter = "idle" /\ fileMap = <<>> /\ position = 1 /\ out = EmptyRoot
  BY DEF FilterInit
<1>2. Sane(EmptyRoot)
  <2>1. DOMAIN EmptyRoot = {<<>>} /\ EmptyRoot[<<>>].kind = "dir"
    BY DEF EmptyRoot, Directory
  <2>2. <<>> \in Seq(Word)
    OBVIOUS
  <2> QED BY <2>1, <2>2 DEF Sane
<1>3. Sane(out)
  BY <1>1, <1>2
<1> QED BY <1>1, <1>3 DEF InvFilter, Copying, CopyingStraight, FilterFailsForAReason

\* While the archive is written, and when it is unpacked as a whole.
LEMMA FilterUndisturbed ==
  ASSUME InvFilter, UNCHANGED filtering, pc = "done" => UNCHANGED vars
  PROVE  InvFilter'
<1>1. /\ request' = request /\ fileMap' = fileMap /\ out' = out /\ position' = position /\ filter' = filter
  BY DEF filtering
<1>2. CASE filter = "idle"
  BY <1>1, <1>2 DEF InvFilter, Copying, CopyingStraight, FilterFailsForAReason
<1>3. CASE filter # "idle"
  <2>1. pc' = pc /\ archive' = archive
    BY <1>3 DEF InvFilter, Copying, vars
  <2> QED BY <1>1, <1>3, <2>1 DEF InvFilter, Copying, CopyingStraight, FilterFailsForAReason, Delivered, IsFirst
<1> QED BY <1>2, <1>3

LEMMA PreparedIs ==
  ASSUME NEW r \in Requests
  PROVE  /\ DOMAIN Prepared(r) = Prepares(r) /\ Sane(Prepared(r))
         /\ \A path \in Declared(r) : OnDirectories(Prepared(r), path)
<1>1. DOMAIN Prepared(r) = Prepares(r) /\ \A p \in Prepares(r) : Prepared(r)[p] = Directory
  BY DEF Prepared, Prepares
<1>2. Directory.kind = "dir"
  BY DEF Directory
<1>3. ASSUME NEW p \in Prepares(r)
      PROVE  p \in Seq(Word) /\ (p = <<>> \/ Dir(p) \in Prepares(r))
  <2>1. PICK q \in Declared(r) : p \in Above(q)
    BY DEF Prepares
  <2>2. q \in Path /\ q \in Seq(Name) /\ Plain(q)
    BY RequestIs
  <2>3. PICK n \in 0..(Len(q) - 1) : p = SubSeq(q, 1, n)
    BY <2>1 DEF Above
  <2>4. Len(q) \in Nat /\ n \in 0..Len(q)
    BY <2>2, <2>3
  <2>5. p \in Seq(Name) /\ Len(p) = n /\ \A i \in 0..n : SubSeq(p, 1, i) = SubSeq(q, 1, i)
    BY <2>2, <2>3, <2>4, PlainAbove
  <2>6. ASSUME p # <<>> PROVE Dir(p) \in Prepares(r)
    <3>1. p \in Path /\ n # 0
      BY <2>5, <2>6 DEF Path
    <3>2. Dir(p) = SubSeq(p, 1, n - 1) /\ n - 1 \in 0..n /\ n - 1 \in 0..(Len(q) - 1)
      BY <2>4, <2>5, <3>1, DirOf
    <3>3. Dir(p) = SubSeq(q, 1, n - 1)
      BY <2>5, <3>2
    <3>4. Dir(p) \in Above(q)
      BY <3>2, <3>3 DEF Above
    <3> QED BY <3>4 DEF Prepares
  <2> QED BY <2>5, <2>6, NamesAreWords
<1>4. Sane(Prepared(r))
  BY <1>1, <1>2, <1>3 DEF Sane
<1>5. \A path \in Declared(r) : OnDirectories(Prepared(r), path)
  BY <1>1, <1>2 DEF OnDirectories, Prepares
<1> QED BY <1>1, <1>4, <1>5

LEMMA PrefixFilterKeeps ==
  ASSUME InvFilter, archive \in Seq(TarHeader), NEW r \in Requests, PrefixFilter(r)
  PROVE  InvFilter'
<1> DEFINE keys == {Key(r.prefix, file) : file \in r.files}
           fileOf(key) == CHOOSE file \in r.files : Key(r.prefix, file) = key
<1>1. /\ pc = "done" /\ filter = "idle" /\ request' = r /\ filter' = "reading"
            /\ position' = position /\ pc' = pc
      /\ archive' = archive
      /\ out' = Prepared(r) /\ fileMap' = [key \in keys |-> Meant(r.prefix, fileOf(key))]
  BY DEF PrefixFilter, vars
<1>2. \A key \in keys : fileOf(key) \in r.files /\ Key(r.prefix, fileOf(key)) = key
  OBVIOUS
<1>3. position = 1 /\ position' \in Nat \ {0}
  BY <1>1 DEF InvFilter, Copying
<1>4. DOMAIN fileMap' = keys /\ \A key \in keys : fileMap'[key] = Meant(r.prefix, fileOf(key))
  BY <1>1
<1>5. fileMap' = [key \in DOMAIN fileMap' |-> fileMap'[key]]
  BY <1>1
<1> HIDE DEF fileOf
<1>6. \A key \in keys : fileMap'[key] \in Declared(r)
  BY <1>2, <1>4 DEF Declared
<1>7. /\ DOMAIN out' = Prepares(r) /\ Sane(out') /\ \A path \in Declared(r) : OnDirectories(out', path)
  BY <1>1, PreparedIs
<1>8. \A n \in DOMAIN archive' : ~(n < position')
  <2>1. ASSUME NEW n \in DOMAIN archive', n < position' PROVE FALSE
    <3>1. DOMAIN archive' \subseteq Nat \ {0}
      BY <1>1
    <3> QED BY <1>1, <1>3, <2>1, <3>1
  <2> QED BY <2>1
<1>9. Copying'
  <2>1. \A file \in r.files : Key(r.prefix, file) \in keys
    OBVIOUS
  <2> HIDE DEF keys
  <2> QED BY <1>1, <1>3, <1>4, <1>5, <1>6, <1>7, <1>8, <2>1 DEF Copying
<1>10. ASSUME Straight(r)
       PROVE  /\ \A key \in keys : fileMap'[key] = key /\ InPrefix(r.prefix, key)
              /\ Declared(r) \subseteq keys
  <2>1. \A file \in r.files : Key(r.prefix, file) = Meant(r.prefix, file)
                                 /\ InPrefix(r.prefix, Key(r.prefix, file))
    BY <1>10, KeysAreMeant
  <2> QED BY <1>2, <1>4, <2>1 DEF Declared
<1>11. CopyingStraight'
  <2> HIDE DEF keys
  <2> QED BY <1>1, <1>4, <1>7, <1>10 DEF CopyingStraight
<1>12. FilterFailsForAReason'
  BY <1>1 DEF FilterFailsForAReason
<1> QED BY <1>9, <1>11, <1>12 DEF InvFilter

LEMMA SkipKeeps ==
  ASSUME InvFilter, archive \in Seq(TarHeader), Skip
  PROVE  InvFilter'
<1>1. /\ filter = "reading" /\ position' = position + 1
      /\ InPrefix(request.prefix, archive[position].path) => archive[position].path \notin DOMAIN fileMap
      /\ request' = request /\ fileMap' = fileMap /\ out' = out /\ filter' = filter /\ pc' = pc
            /\ archive' = archive
  BY DEF Skip, Wanted, Mapped, FilterEntry, vars
<1>2. position \in Nat \ {0} /\ position' \in Nat \ {0}
  BY <1>1 DEF InvFilter, Copying
<1>3. DOMAIN archive \subseteq Nat
  OBVIOUS
<1>4. \A n \in DOMAIN archive : n < position' => n < position \/ n = position
  BY <1>1, <1>2, <1>3
<1>5. \A path : Delivered(path) => Delivered(path)'
  BY <1>1, <1>2, <1>3 DEF Delivered, IsFirst
<1>6. Copying'
  BY <1>1, <1>2, <1>4 DEF InvFilter, Copying
<1>7. CopyingStraight'
  BY <1>1, <1>5 DEF InvFilter, CopyingStraight
<1> QED BY <1>1, <1>6, <1>7 DEF InvFilter, FilterFailsForAReason

LEMMA ExtractKeeps ==
  ASSUME InvFilter, archive \in Seq(TarHeader), Extract
  PROVE  InvFilter'
<1> DEFINE e == archive[position]
           p == e.path
           path == fileMap[p]
           r == Copied(e, path)
<1>1. /\ filter = "reading" /\ position <= Len(archive) /\ p \in DOMAIN fileMap
      /\ InPrefix(request.prefix, p)
      /\ out' = r.fs /\ filter' = (IF r.failed THEN "failed" ELSE filter)
      /\ fileMap' = Without(fileMap, p) /\ position' = position + 1
      /\ request' = request /\ pc' = pc /\ archive' = archive
  BY DEF Extract, Wanted, Mapped, FilterEntry, Remaining, vars
<1>2. /\ position \in Nat \ {0} /\ Sane(out) /\ pc = "done" /\ request \in Requests
      /\ \A key \in DOMAIN fileMap : fileMap[key] \in Declared(request)
      /\ \A n \in DOMAIN archive : n < position /\ InPrefix(request.prefix, archive[n].path) =>
           archive[n].path \notin DOMAIN fileMap
      /\ \A file \in request.files :
           InPrefix(request.prefix, Key(request.prefix, file)) \/ Key(request.prefix, file) \in DOMAIN fileMap
      /\ \A q \in Declared(request) : OnDirectories(out, q)
  BY <1>1 DEF InvFilter, Copying
<1>3. /\ DOMAIN archive = 1..Len(archive) /\ Len(archive) \in Nat /\ position \in DOMAIN archive
      /\ position' \in Nat \ {0}
  BY <1>1, <1>2
<1>4. e \in TarHeader
  BY <1>3
<1>5. /\ DOMAIN fileMap' = DOMAIN fileMap \ {p} /\ \A key \in DOMAIN fileMap' : fileMap'[key] = fileMap[key]
      /\ fileMap' = [key \in DOMAIN fileMap' |-> fileMap'[key]]
  BY <1>1 DEF Without
<1>6. path \in Declared(request) /\ path \in Path /\ Plain(path) /\ OnDirectories(out, path)
  BY <1>1, <1>2, RequestIs
<1> HIDE DEF path
<1>7. Sane(out') /\ \A q \in Declared(request) : OnDirectories(out', q)
  <2> HIDE DEF e
  <2>1. Sane(r.fs) /\ \A q : OnDirectories(out, q) => OnDirectories(r.fs, q)
    BY <1>2, <1>4, <1>6, CopiedKeeps
  <2> QED BY <1>1, <1>2, <2>1
<1> HIDE DEF r
<1>8. \A n \in DOMAIN archive : n < position' /\ InPrefix(request.prefix, archive[n].path) =>
        archive[n].path \notin DOMAIN fileMap'
  <2>1. \A n \in DOMAIN archive : n < position' => n < position \/ n = position
    BY <1>1, <1>2, <1>3
  <2> QED BY <1>2, <1>5, <2>1
<1>9. Copying'
  <2>1. filter' \in {"reading", "failed"}
    BY <1>1
  <2> HIDE DEF e, p
  <2>2. \A file \in request.files :
          InPrefix(request.prefix, Key(request.prefix, file)) \/ Key(request.prefix, file) \in DOMAIN fileMap'
    BY <1>1, <1>2, <1>5
  <2> QED BY <1>1, <1>2, <1>3, <1>5, <1>7, <1>8, <2>1, <2>2 DEF Copying
<1>10. ASSUME Straight(request)
       PROVE  /\ path = p /\ \A key \in DOMAIN fileMap : fileMap[key] = key /\ InPrefix(request.prefix, key)
              /\ DOMAIN out \subseteq Prepares(request) \cup (Declared(request) \ DOMAIN fileMap)
              /\ \A q \in Declared(request) : q \in DOMAIN fileMap \/ Delivered(q)
              /\ path \in DOMAIN out => (\E q \in Declared(request) : path \in Above(q))
                    /\ out[path].kind = "dir"
  <2>1. /\ \A key \in DOMAIN fileMap : fileMap[key] = key /\ InPrefix(request.prefix, key)
        /\ DOMAIN out \subseteq Prepares(request) \cup (Declared(request) \ DOMAIN fileMap)
        /\ \A q \in Declared(request) : q \in DOMAIN fileMap \/ Delivered(q)
    BY <1>1, <1>10 DEF InvFilter, CopyingStraight
  <2>2. path = p
    BY <1>1, <2>1 DEF path
  <2> HIDE DEF e, p
  <2>3. ASSUME path \in DOMAIN out
        PROVE  (\E q \in Declared(request) : path \in Above(q)) /\ out[path].kind = "dir"
    <3>1. path \in Prepares(request)
      BY <1>1, <2>1, <2>2, <2>3
    <3>2. PICK q \in Declared(request) : path \in Above(q)
      BY <3>1 DEF Prepares
    <3> QED BY <1>2, <3>2 DEF OnDirectories
  <2> QED BY <2>1, <2>2, <2>3
<1>11. ASSUME Straight(request)
       PROVE  /\ r.failed => e.kind = "special" \/ path \in DOMAIN out
              /\ ~r.failed => /\ DOMAIN out' = DOMAIN out \cup {path}
                              /\ \A q \in DOMAIN out : q # path => out'[q] = out[q]
                              /\ IsCopy(out', e, path)
  <2>1. path \in DOMAIN out => out[path].kind = "dir"
    BY <1>10, <1>11
  <2> HIDE DEF e
  <2> QED BY <1>1, <1>4, <1>6, <2>1, CopiedHere DEF r
<1>12. CopyingStraight'
  <2> SUFFICES ASSUME Straight(request)
               PROVE  /\ \A key \in DOMAIN fileMap' : fileMap'[key] = key /\ InPrefix(request.prefix, key)
                      /\ filter' # "failed" =>
                           /\ DOMAIN out' \subseteq Prepares(request) \cup (Declared(request) \ DOMAIN fileMap')
                           /\ \A q \in Declared(request) : q \in DOMAIN fileMap' \/ Delivered(q)'
    BY <1>1 DEF CopyingStraight
  <2>1. \A key \in DOMAIN fileMap' : fileMap'[key] = key /\ InPrefix(request.prefix, key)
    BY <1>5, <1>10
  <2>2. ASSUME filter' # "failed"
        PROVE  /\ DOMAIN out' \subseteq Prepares(request) \cup (Declared(request) \ DOMAIN fileMap')
               /\ \A q \in Declared(request) : q \in DOMAIN fileMap' \/ Delivered(q)'
    <3>1. ~r.failed
      BY <1>1, <2>2
    <3>2. DOMAIN out' \subseteq Prepares(request) \cup (Declared(request) \ DOMAIN fileMap')
      <4> HIDE DEF e, p
      <4> QED BY <1>5, <1>6, <1>10, <1>11, <3>1
    <3>3. ASSUME NEW q \in Declared(request), q \notin DOMAIN fileMap' PROVE Delivered(q)'
      <4>1. CASE q = path
        <5>1. \A m \in 1..(position - 1) : archive[m].path # p
          <6>1. \A m \in 1..(position - 1) : m \in DOMAIN archive /\ m < position
            BY <1>2, <1>3
          <6> HIDE DEF p
          <6> QED BY <1>1, <1>2, <6>1
        <5>2. archive'[position].path = q /\ \A m \in 1..(position - 1) : archive'[m].path # q
          BY <1>1, <1>10, <4>1, <5>1
        <5>3. IsCopy(out', archive'[position], q)
          BY <1>1, <1>11, <3>1, <4>1
        <5>4. position \in DOMAIN archive' /\ position < position'
          BY <1>1, <1>2, <1>3
        <5> QED BY <5>2, <5>3, <5>4 DEF Delivered, IsFirst
      <4>2. CASE q # path
        <5>1. q \notin DOMAIN fileMap
          BY <1>5, <1>10, <3>3, <4>2
        <5>2. PICK n \in DOMAIN archive : n < position /\ IsFirst(n, q) /\ IsCopy(out, archive[n], q)
          BY <1>10, <3>3, <5>1 DEF Delivered
        <5>3. IsCopy(out', archive[n], q)
          <6>1. q \in DOMAIN out /\ q \in DOMAIN out' /\ out'[q] = out[q]
            BY <1>11, <3>1, <4>2, <5>2 DEF IsCopy
          <6> QED BY <5>2, <6>1 DEF IsCopy
        <5>4. n < position' /\ n \in DOMAIN archive' /\ archive'[n] = archive[n]
          BY <1>1, <1>2, <1>3, <5>2
        <5>5. archive'[n].path = q /\ \A m \in 1..(n - 1) : archive'[m].path # q
          BY <1>1, <5>2 DEF IsFirst
        <5> QED BY <5>3, <5>4, <5>5 DEF Delivered, IsFirst
      <4> QED BY <4>1, <4>2
    <3> QED BY <3>2, <3>3
  <2> QED BY <2>1, <2>2
<1>13. FilterFailsForAReason'
  <2> SUFFICES ASSUME Straight(request), filter' = "failed"
               PROVE  \E q \in Declared(request) :
                        \/ \A a \in Range(archive) : a.path # q
                        \/ \E a \in Range(archive) : a.path = q /\ a.kind = "special"
                        \/ \E o \in Declared(request) : q \in Above(o)
    BY <1>1 DEF FilterFailsForAReason
  <2>1. r.failed /\ e \in Range(archive) /\ path = p
    BY <1>1, <1>3, <1>10 DEF Range
  <2>2. e.kind = "special" \/ \E o \in Declared(request) : path \in Above(o)
    BY <1>10, <1>11, <2>1
  <2> HIDE DEF e
  <2> QED BY <1>6, <2>1, <2>2
<1> QED BY <1>9, <1>12, <1>13 DEF InvFilter

LEMMA NothingLeft ==
  ASSUME NEW f, f = [key \in DOMAIN f |-> f[key]], DOMAIN f = {}
  PROVE  f = <<>>
OBVIOUS

LEMMA EndFilterKeeps ==
  ASSUME InvFilter, archive \in Seq(TarHeader), EndFilter
  PROVE  InvFilter'
<1>1. /\ filter = "reading" /\ (position > Len(archive) \/ fileMap = <<>>)
      /\ filter' = (IF fileMap = <<>> THEN "done" ELSE "failed")
      /\ request' = request /\ fileMap' = fileMap /\ out' = out /\ position' = position
            /\ pc' = pc /\ archive' = archive
  BY DEF EndFilter, vars
<1>2. Copying'
  BY <1>1 DEF InvFilter, Copying
<1>3. CopyingStraight'
  BY <1>1 DEF InvFilter, CopyingStraight, Delivered, IsFirst
<1>4. ASSUME fileMap # <<>>
      PROVE  \E key \in DOMAIN fileMap :
               /\ fileMap[key] \in Declared(request)
               /\ InPrefix(request.prefix, key) => \A a \in Range(archive) : a.path # key
  <2>1. PICK key : key \in DOMAIN fileMap
    <3>1. DOMAIN fileMap # {}
      <4>1. fileMap = [key \in DOMAIN fileMap |-> fileMap[key]]
        BY <1>1 DEF InvFilter, Copying
      <4> QED BY <1>4, <4>1, NothingLeft
    <3> QED BY <3>1
  <2>2. /\ fileMap[key] \in Declared(request) /\ position \in Nat \ {0}
        /\ \A n \in DOMAIN archive : n < position /\ InPrefix(request.prefix, archive[n].path) =>
             archive[n].path \notin DOMAIN fileMap
    BY <1>1, <2>1 DEF InvFilter, Copying
  <2>3. \A n \in DOMAIN archive : n < position
    BY <1>1, <1>4, <2>2
  <2> QED BY <2>1, <2>2, <2>3 DEF Range
<1>5. FilterFailsForAReason'
  <2> SUFFICES ASSUME Straight(request), filter' = "failed"
               PROVE  \E q \in Declared(request) : \A a \in Range(archive) : a.path # q
    BY <1>1 DEF FilterFailsForAReason
  <2>1. PICK key \in DOMAIN fileMap :
          /\ fileMap[key] \in Declared(request)
          /\ InPrefix(request.prefix, key) => \A a \in Range(archive) : a.path # key
    BY <1>1, <1>4
  <2>2. fileMap[key] = key /\ InPrefix(request.prefix, key)
    BY <1>1, <2>1 DEF InvFilter, CopyingStraight
  <2> QED BY <2>1, <2>2
<1> QED BY <1>2, <1>3, <1>5 DEF InvFilter

LEMMA ArchiveOfHeaders == InvArchive => archive \in Seq(TarHeader)
BY DEF InvArchive, Typed

LEMMA ReadersWait == pc = "done" /\ Next => UNCHANGED vars
BY DEF Next, AddRPM, WriteTree, SkipDuplicate, AttributesFail, CopyEntry, PassOver, UnknownMode,
       WriteHardLinks, Reading, Terminated

LEMMA FilterInductive == ArchivesSpec => []InvFilter
<1>1. ArchivesInit => InvFilter
  BY FilterFromTheStart DEF ArchivesInit
<1>2. InvArchive /\ InvFilter /\ [ArchivesNext]_<<vars, unpacking, filtering, use>> => InvFilter'
  <2> SUFFICES ASSUME InvArchive, InvFilter, [ArchivesNext]_<<vars, unpacking, filtering, use>> PROVE InvFilter'
    OBVIOUS
  <2>1. CASE Write
    BY <2>1, ReadersWait, FilterUndisturbed DEF Write
  <2>2. CASE Unpack
    BY <2>2, ReadersLeaveIt, FilterUndisturbed DEF Unpack
  <2>3. CASE TakeOut
    <3>1. archive \in Seq(TarHeader)
      BY ArchiveOfHeaders
    <3>2. ASSUME NEW r \in Requests, PrefixFilter(r) PROVE InvFilter'
      BY <3>1, <3>2, PrefixFilterKeeps
    <3>3. Skip \/ Extract \/ EndFilter => InvFilter'
      BY <3>1, SkipKeeps, ExtractKeeps, EndFilterKeeps
    <3> QED BY <2>3, <3>2, <3>3 DEF TakeOut, FilterNext
  <2>4. CASE UNCHANGED <<vars, unpacking, filtering, use>>
    BY <2>4, FilterUndisturbed
  <2> QED BY <2>1, <2>2, <2>3, <2>4 DEF ArchivesNext
<1> QED BY <1>1, <1>2, ArchiveInductive, PTL DEF ArchivesSpec

LEMMA FilesTyped == InvFilter => FilesTypeOK
<1> SUFFICES ASSUME InvFilter PROVE FilesTypeOK
  OBVIOUS
<1>1. /\ filter \in {"idle", "reading", "done", "failed"} /\ position \in Nat \ {0} /\ Sane(out)
  BY DEF InvFilter, Copying
<1>2. /\ Range(fileMap) \subseteq Declared(request)
      /\ \A n \in DOMAIN archive : n < position /\ InPrefix(request.prefix, archive[n].path) =>
           archive[n].path \notin DOMAIN fileMap
  <2>1. CASE filter = "idle"
    <3>1. fileMap = <<>>
      BY <2>1 DEF InvFilter, Copying
    <3>2. DOMAIN fileMap = {}
      BY <3>1
    <3> QED BY <3>2 DEF Range
  <2>2. CASE filter # "idle"
    BY <2>2 DEF InvFilter, Copying, Range
  <2> QED BY <2>1, <2>2
<1>3. \A p \in DOMAIN out : p = <<>> \/ (Dir(p) \in DOMAIN out /\ out[Dir(p)].kind = "dir")
  BY <1>1 DEF Sane
<1> QED BY <1>1, <1>2, <1>3 DEF FilesTypeOK

LEMMA FirstIs ==
  ASSUME archive \in Seq(TarHeader), NEW path, NEW n \in DOMAIN archive, IsFirst(n, path)
  PROVE  First(path) = archive[n]
<1>1. DOMAIN archive = 1..Len(archive) /\ Len(archive) \in Nat
  OBVIOUS
<1>2. \A m \in DOMAIN archive : IsFirst(m, path) => m = n
  <2> SUFFICES ASSUME NEW m \in DOMAIN archive, IsFirst(m, path) PROVE m = n
    OBVIOUS
  <2>1. ~(m \in 1..(n - 1)) /\ ~(n \in 1..(m - 1))
    BY DEF IsFirst
  <2> QED BY <1>1, <2>1
<1>3. First(path) = archive[CHOOSE m \in DOMAIN archive : IsFirst(m, path)]
  BY DEF First, IsFirst
<1>4. (CHOOSE m \in DOMAIN archive : IsFirst(m, path)) = n
  BY <1>2
<1> QED BY <1>3, <1>4

\* A file whose text has the prefix elsewhere keeps the command from succeeding.
LEMMA DoneIsStraight ==
  ASSUME InvFilter, filter = "done", Distinct(request)
  PROVE  Straight(request)
<1>1. DOMAIN fileMap = {}
  <2>1. fileMap = <<>>
    BY DEF InvFilter, Copying
  <2> QED BY <2>1
<1>2. ASSUME NEW file \in request.files, Occurs(request.prefix, file), ~IsPrefix(request.prefix, file)
      PROVE  FALSE
  <2>1. ~InPrefix(request.prefix, file) /\ Key(request.prefix, file) = file
    BY <1>2 DEF Distinct, Key
  <2>2. file \in DOMAIN fileMap
    BY <2>1 DEF InvFilter, Copying
  <2> QED BY <1>1, <2>2
<1> QED BY <1>2 DEF Straight

LEMMA FilesExtractedHolds == InvArchive /\ InvFilter => FilesExtracted
<1> SUFFICES ASSUME InvArchive, InvFilter, filter = "done", Straight(request),
                    NEW path \in Declared(request)
             PROVE  /\ \E a \in Range(archive) : a.path = path
                    /\ LET e == First(path)
                       IN  CASE e.kind = "dir" -> IsDir(out, path)
                             [] e.kind = "symlink" -> out[path] = [kind |-> "symlink", to |-> e.to]
                             [] e.kind = "link" /\ (e.to \in Declared(request) => First(e.to).kind # "file") ->
                                  out[path].kind = "symlink"
                             [] OTHER -> Found(out, path) /\ {Node(out, path).body} = BodyInArchive(e)
  BY DoneIsStraight DEF FilesExtracted
<1>1. /\ archive \in Seq(TarHeader) /\ DOMAIN archive = 1..Len(archive) /\ Len(archive) \in Nat
      /\ request \in Requests /\ DOMAIN fileMap = {}
  <2>1. fileMap = <<>> /\ request \in Requests
    BY DEF InvFilter, Copying
  <2>2. DOMAIN fileMap = {}
    BY <2>1
  <2> QED BY <2>1, <2>2, ArchiveOfHeaders
<1>2. ASSUME NEW q \in Declared(request)
      PROVE  /\ q \in Path /\ Plain(q) /\ OnDirectories(out, q)
             /\ \E n \in DOMAIN archive : First(q) = archive[n] /\ archive[n].path = q
                   /\ IsCopy(out, archive[n], q)
  <2>1. q \in Path /\ Plain(q) /\ OnDirectories(out, q)
    BY <1>1, RequestIs DEF InvFilter, Copying
  <2>2. Delivered(q)
    BY <1>1 DEF InvFilter, CopyingStraight
  <2>3. PICK n \in DOMAIN archive : IsFirst(n, q) /\ IsCopy(out, archive[n], q)
    BY <2>2 DEF Delivered
  <2>4. First(q) = archive[n]
    BY <1>1, <2>3, FirstIs
  <2> QED BY <2>1, <2>3, <2>4 DEF IsFirst
<1>3. PICK n \in DOMAIN archive : First(path) = archive[n] /\ archive[n].path = path
            /\ IsCopy(out, archive[n], path)
  BY <1>2
<1> DEFINE e == archive[n]
<1>4. e \in TarHeader /\ First(path) = e /\ e.path = path /\ IsCopy(out, e, path)
  BY <1>1, <1>3
<1>5. path \in Path /\ Plain(path) /\ OnDirectories(out, path) /\ path \in DOMAIN out
  BY <1>2, <1>4 DEF IsCopy
<1>6. \E a \in Range(archive) : a.path = path
  BY <1>3 DEF Range
<1> HIDE DEF e
<1>7. CASE e.kind = "dir"
  <2>1. out[path].kind = "dir"
    BY <1>4, <1>7 DEF IsCopy
  <2>2. IsDir(out, path)
    BY <1>5, <2>1, StandsHere
  <2> QED BY <1>4, <1>6, <1>7, <2>2
<1>8. CASE e.kind = "symlink"
  <2>1. out[path] = [kind |-> "symlink", to |-> e.to]
    BY <1>4, <1>8 DEF IsCopy, LinkNames
  <2> QED BY <1>4, <1>6, <1>8, <2>1
<1>9. CASE e.kind = "file"
  <2>1. out[path] = [kind |-> "file", body |-> e.body]
    BY <1>4, <1>9 DEF IsCopy
  <2>2. Found(out, path) /\ Node(out, path) = out[path]
    BY <1>5, <2>1, StandsHere
  <2>3. BodyInArchive(e) = {e.body}
    BY <1>9 DEF BodyInArchive
  <2> QED BY <1>4, <1>6, <1>9, <2>1, <2>2, <2>3
<1>10. CASE e.kind = "link" /\ (e.to \in Declared(request) => First(e.to).kind # "file")
  <2>1. out[path].kind = "symlink"
    BY <1>4, <1>10 DEF IsCopy
  <2> QED BY <1>4, <1>6, <1>10, <2>1
<1>11. CASE e.kind = "link" /\ ~(e.to \in Declared(request) => First(e.to).kind # "file")
  <2> DEFINE to == e.to
  <2>1. to \in Declared(request) /\ First(to).kind = "file"
    BY <1>11
  <2>2. /\ to \in Path /\ Plain(to) /\ OnDirectories(out, to)
        /\ \E m \in DOMAIN archive : First(to) = archive[m] /\ archive[m].path = to
              /\ IsCopy(out, archive[m], to)
    BY <1>2, <2>1
  <2>3. PICK m \in DOMAIN archive : First(to) = archive[m] /\ archive[m].path = to
              /\ IsCopy(out, archive[m], to)
    BY <2>2
  <2>4. archive[m].kind = "file" /\ to \in DOMAIN out /\ out[to] = [kind |-> "file", body |-> archive[m].body]
    BY <2>1, <2>3 DEF IsCopy
  <2>5. out[path] = [kind |-> "symlink", to |-> Rel(Dir(path), to)]
    BY <1>4, <1>11 DEF IsCopy, LinkNames
  <2>6. Walk(out, path) = [at |-> to, rest |-> <<>>]
    <3> HIDE DEF to
    <3>1. out[to].kind # "symlink" /\ out[path].kind = "symlink" /\ out[path].to = Rel(Dir(path), to)
      BY <2>4, <2>5
    <3> QED BY <1>5, <2>2, <2>4, <3>1, LinkWalk
  <2>7. Found(out, path) /\ Node(out, path).body = archive[m].body
    BY <2>4, <2>6 DEF Found, Node
  <2>8. \A o \in Range(archive) : o.path = to /\ o.kind = "file" => o = archive[m]
    <3> SUFFICES ASSUME NEW k \in DOMAIN archive, archive[k].path = to, archive[k].kind = "file"
                 PROVE  k = m
      BY DEF Range
    <3>1. OncePerPath
      BY OncePerPathHolds
    <3>2. ~(k < m) /\ ~(m < k)
      BY <2>3, <2>4, <3>1 DEF OncePerPath
    <3> QED BY <1>1, <3>2
  <2>9. BodyInArchive(e) = {archive[m].body}
    <3>1. archive[m] \in Range(archive)
      BY DEF Range
    <3>2. BodyInArchive(e) = {o.body : o \in {o \in Range(archive) : o.path = to /\ o.kind = "file"}}
      BY <1>11 DEF BodyInArchive
    <3> HIDE DEF to
    <3> QED BY <2>3, <2>4, <2>8, <3>1, <3>2
  <2> QED BY <1>4, <1>6, <1>11, <2>7, <2>9
<1> QED BY <1>4, <1>7, <1>8, <1>9, <1>10, <1>11, <1>6 DEF IsCopy

\* When tar2files succeeds, each file that a target declares is where Bazel expects it
\* and is what the archive has under its name: a directory, a symbolic link as it was, or
\* a file with its content, also where that is reached through the relative link that is
\* made of a hard link (tar.go:52-148).
THEOREM OutputsAreSound == ArchivesSpec => []ExtractedSound
<1>1. InvArchive /\ InvFilter => ExtractedSound
  BY FilesTyped, FilesExtractedHolds DEF ExtractedSound
<1> QED BY <1>1, ArchiveInductive, FilterInductive, PTL

-----------------------------------------------------------------------------
(* What Untar has made of the entries before k, where no two of the archive *)
(* are in each other's way.                                                 *)

NoClash == \A m, n \in DOMAIN archive : ~InTheWay(m, n)

IsLeaf(n) == archive[n].kind \in {"file", "symlink", "link"}
IsDirPlace(p) ==
  \/ p = <<>>
  \/ \E n \in DOMAIN archive :
       p \in Above(archive[n].path) \/ (archive[n].kind = "dir" /\ archive[n].path = p)

\* What an entry becomes: a link waits for the end, and is then a name of the file.
Becomes(node, n) ==
  /\ archive[n].kind = "file" => node = [kind |-> "file", body |-> archive[n].body]
  /\ archive[n].kind = "symlink" => node = [kind |-> "symlink", to |-> Linkname(archive[n])]
  /\ archive[n].kind = "link" => node.kind = "file" /\ {node.body} = BodyInArchive(archive[n])
IsUnpacked(disk, n, made) ==
  /\ archive[n].kind = "dir" => archive[n].path \in DOMAIN disk /\ disk[archive[n].path].kind = "dir"
  /\ IsLeaf(n) => \/ archive[n].kind = "link" /\ archive[n].path \in DOMAIN made
                  \/ archive[n].path \in DOMAIN disk /\ Becomes(disk[archive[n].path], n)

Placed(disk, k, made) ==
  /\ Rooted(disk)
  /\ \A p \in DOMAIN disk :
       /\ OnDirectories(disk, p)
       /\ disk[p].kind = "dir" => IsDirPlace(p)
       /\ disk[p].kind # "dir" =>
            p \notin DOMAIN made /\ \E n \in DOMAIN archive : n < k /\ IsLeaf(n) /\ archive[n].path = p
  /\ \A n \in DOMAIN archive : n < k => IsUnpacked(disk, n, made)
  /\ \A t \in DOMAIN made :
       /\ OnDirectories(disk, t)
       /\ \E n \in DOMAIN archive : /\ n < k /\ archive[n].kind = "link" /\ archive[n].path = t
                                    /\ archive[n].to = made[t]

HeadersPlain ==
  /\ archive \in Seq(TarHeader)
  /\ \A n \in DOMAIN archive : archive[n].path \in Path /\ Plain(archive[n].path)

LEMMA NotAboveItself ==
  ASSUME NEW path \in Path
  PROVE  path \notin Above(path)
<1> SUFFICES ASSUME NEW i \in 0..(Len(path) - 1), path = SubSeq(path, 1, i) PROVE FALSE
  BY DEF Above
<1>1. path \in Seq(Name) /\ Len(path) \in Nat
  BY DEF Path
<1>2. Len(SubSeq(path, 1, i)) = i
  BY <1>1, UpTo
<1> QED BY <1>1, <1>2

\* The place of an entry that is still to come, and of a link that is still to be made.
LEMMA PlaceIsFree ==
  ASSUME HeadersPlain, NoClash, NEW disk, NEW k \in Nat, NEW made, Placed(disk, k, made),
         NEW n \in DOMAIN archive, IsLeaf(n), ~(n < k) \/ archive[n].path \in DOMAIN made
  PROVE  archive[n].path \notin DOMAIN disk
<1> DEFINE p == archive[n].path
<1>1. p \in Path
  BY DEF HeadersPlain
<1>2. ASSUME NEW m \in DOMAIN archive, m # n PROVE p \notin Above(archive[m].path) \cup {archive[m].path}
  BY <1>2 DEF NoClash, InTheWay, IsLeaf
<1>3. ASSUME NEW m \in DOMAIN archive, m # n, IsLeaf(m) PROVE archive[m].path # p
  BY <1>3 DEF NoClash, InTheWay, IsLeaf
<1>4. SUFFICES ASSUME p \in DOMAIN disk PROVE FALSE
  OBVIOUS
<1>5. CASE disk[p].kind = "dir"
  <2>1. IsDirPlace(p)
    BY <1>4, <1>5 DEF Placed
  <2>2. p # <<>>
    BY <1>1 DEF Path
  <2>3. PICK m \in DOMAIN archive : p \in Above(archive[m].path) \/ (archive[m].kind = "dir"
              /\ archive[m].path = p)
    BY <2>1, <2>2 DEF IsDirPlace
  <2>4. m = n
    BY <1>2, <2>3
  <2> QED BY <1>1, <2>3, <2>4, NotAboveItself DEF IsLeaf
<1>6. CASE disk[p].kind # "dir"
  <2>1. p \notin DOMAIN made /\ \E m \in DOMAIN archive : m < k /\ IsLeaf(m) /\ archive[m].path = p
    BY <1>4, <1>6 DEF Placed
  <2> QED BY <1>3, <2>1
<1> QED BY <1>5, <1>6

LEMMA MakingPlaces ==
  ASSUME HeadersPlain, NoClash, NEW disk, NEW k \in DOMAIN archive, NEW made, Placed(disk, k, made),
         NEW dir \in Seq(Name), Plain(dir),
         dir \in Above(archive[k].path) \/ (archive[k].kind = "dir" /\ dir = archive[k].path)
  PROVE  \E new : /\ MkdirAll(disk, dir) = [fs |-> new, failed |-> FALSE]
                  /\ Placed(new, k, made)
                        /\ \A i \in 0..Len(dir) : SubSeq(dir, 1, i) \in DOMAIN new /\ new[SubSeq(dir, 1, i)].kind = "dir"
<1>1. Len(dir) \in Nat /\ \A i \in 0..Len(dir) : IsDirPlace(SubSeq(dir, 1, i)) /\
        SubSeq(dir, 1, i) \in Above(archive[k].path) \cup {archive[k].path}
  <2> DEFINE path == archive[k].path
  <2>1. path \in Seq(Name) /\ Plain(path) /\ Len(path) \in Nat
    BY DEF HeadersPlain, Path
  <2>2. CASE dir \in Above(path)
    <3>1. PICK n \in 0..(Len(path) - 1) : dir = SubSeq(path, 1, n)
      BY <2>2 DEF Above
    <3>2. n \in 0..Len(path)
      BY <2>1, <3>1
    <3>3. Len(dir) = n /\ \A i \in 0..n : SubSeq(dir, 1, i) = SubSeq(path, 1, i)
      BY <2>1, <3>1, <3>2, PlainAbove
    <3>4. \A i \in 0..n : SubSeq(dir, 1, i) \in Above(path)
      <4> TAKE i \in 0..n
      <4>1. i \in 0..(Len(path) - 1) /\ SubSeq(dir, 1, i) = SubSeq(path, 1, i)
        BY <2>1, <3>1, <3>3
      <4> QED BY <4>1 DEF Above
    <3> QED BY <3>3, <3>4 DEF IsDirPlace
  <2>3. CASE archive[k].kind = "dir" /\ dir = path
    <3>1. SubSeq(dir, 1, Len(dir)) = dir /\ Len(dir) \in Nat
      OBVIOUS
    <3>2. \A i \in 0..Len(dir) : i # Len(dir) => SubSeq(dir, 1, i) \in Above(path)
      BY <2>1, <2>3 DEF Above
    <3> HIDE DEF path
    <3>3. \A i \in 0..Len(dir) : SubSeq(dir, 1, i) \in Above(path) \/ SubSeq(dir, 1, i) = dir
      BY <3>1, <3>2
    <3> QED BY <2>3, <3>1, <3>3 DEF IsDirPlace, path
  <2> QED BY <2>2, <2>3
<1>2. ASSUME NEW i \in 0..Len(dir), SubSeq(dir, 1, i) \in DOMAIN disk PROVE disk[SubSeq(dir, 1, i)].kind = "dir"
  <2> DEFINE p == SubSeq(dir, 1, i)
  <2>1. SUFFICES ASSUME disk[p].kind # "dir" PROVE FALSE
    OBVIOUS
  <2>2. PICK m \in DOMAIN archive : m < k /\ IsLeaf(m) /\ archive[m].path = p
    BY <1>2, <2>1 DEF Placed
  <2>3. m # k
    BY <2>2 DEF HeadersPlain
  <2>4. InTheWay(m, k)
    BY <1>1, <2>2, <2>3 DEF InTheWay, IsLeaf
  <2> QED BY <2>4 DEF NoClash
<1>3. <<>> \in DOMAIN disk
  BY DEF Placed, Rooted
<1>4. PICK new : MkdirAll(disk, dir) = [fs |-> new, failed |-> FALSE] /\ IsMade(new, disk, dir, Len(dir))
  BY <1>2, <1>3, MkdirAllHere
<1>5. /\ DOMAIN new = DOMAIN disk \cup {SubSeq(dir, 1, i) : i \in 0..Len(dir)}
      /\ \A p \in DOMAIN disk : new[p] = disk[p]
      /\ \A p \in DOMAIN new : p \notin DOMAIN disk => new[p].kind = "dir"
  BY <1>4 DEF IsMade, Directory
<1>6. \A i \in 0..Len(dir) : SubSeq(dir, 1, i) \in DOMAIN new /\ new[SubSeq(dir, 1, i)].kind = "dir"
  BY <1>2, <1>5
<1>7. \A p : OnDirectories(disk, p) => OnDirectories(new, p)
  BY <1>5 DEF OnDirectories
<1>8. ASSUME NEW p \in DOMAIN new
      PROVE  /\ OnDirectories(new, p)
             /\ new[p].kind = "dir" => IsDirPlace(p)
             /\ new[p].kind # "dir" =>
                  p \notin DOMAIN made /\ \E n \in DOMAIN archive : n < k /\ IsLeaf(n) /\ archive[n].path = p
  <2>1. CASE p \in DOMAIN disk
    BY <1>5, <1>7, <2>1 DEF Placed
  <2>2. CASE p \notin DOMAIN disk
    <3>1. PICK i \in 0..Len(dir) : p = SubSeq(dir, 1, i)
      BY <1>5, <2>2
    <3>2. Above(p) = {SubSeq(dir, 1, j) : j \in 0..(i - 1)}
      BY <3>1, PlainAbove
    <3>3. OnDirectories(new, p)
      <4> SUFFICES ASSUME NEW j \in 0..(i - 1)
                   PROVE  SubSeq(dir, 1, j) \in DOMAIN new /\ new[SubSeq(dir, 1, j)].kind = "dir"
        BY <3>2 DEF OnDirectories
      <4>1. j \in 0..Len(dir)
        BY <1>1, <3>1
      <4> QED BY <1>6, <4>1
    <3> QED BY <1>1, <1>5, <2>2, <3>1, <3>3
  <2> QED BY <2>1, <2>2
<1>9. Rooted(new)
  BY <1>5 DEF Placed, Rooted
<1>10. Placed(new, k, made)
  <2>1. /\ \A n \in DOMAIN archive : n < k => IsUnpacked(new, n, made)
        /\ \A t \in DOMAIN made :
            /\ OnDirectories(new, t)
            /\ \E n \in DOMAIN archive : n < k /\ archive[n].kind = "link"
                  /\ archive[n].path = t /\ archive[n].to = made[t]
    BY <1>5, <1>7 DEF Placed, IsUnpacked
  <2> QED BY <1>8, <1>9, <2>1 DEF Placed
<1> QED BY <1>4, <1>6, <1>10

\* A file, or a link that is not a directory, is put in its place.
LEMMA PuttingPlaces ==
  ASSUME HeadersPlain, NoClash, NEW disk, NEW k \in Nat, NEW made, Placed(disk, k, made),
         NEW n \in DOMAIN archive, IsLeaf(n), archive[n].path \notin DOMAIN disk,
         OnDirectories(disk, archive[n].path), NEW node, node.kind # "dir", Becomes(node, n),
         NEW k2 \in Nat, n < k2, k <= k2,
         \A j \in DOMAIN archive : j < k2 => j < k \/ j = n,
         NEW left, DOMAIN left = DOMAIN made \ {archive[n].path}, \A t \in DOMAIN left : left[t] = made[t]
  PROVE  Placed(With(disk, archive[n].path, node), k2, left)
<1> DEFINE path == archive[n].path
           new == With(disk, path, node)
<1>1. /\ DOMAIN new = DOMAIN disk \cup {path} /\ new[path] = node
      /\ \A p \in DOMAIN disk : p # path /\ new[p] = disk[p]
  BY DEF With
<1>2. DOMAIN archive \subseteq Nat
  BY DEF HeadersPlain
<1>3. \A j \in DOMAIN archive : j < k => j < k2
  BY <1>2
<1> HIDE DEF new
<1>4. \A p : OnDirectories(disk, p) => OnDirectories(new, p)
  BY <1>1 DEF OnDirectories
<1>5. ASSUME NEW p \in DOMAIN new
      PROVE  /\ OnDirectories(new, p)
             /\ new[p].kind = "dir" => IsDirPlace(p)
             /\ new[p].kind # "dir" =>
                  p \notin DOMAIN left /\ \E m \in DOMAIN archive : m < k2 /\ IsLeaf(m) /\ archive[m].path = p
  <2>1. CASE p = path
    BY <1>1, <1>4, <2>1
  <2>2. CASE p # path
    <3>1. p \in DOMAIN disk /\ new[p] = disk[p]
      BY <1>1, <2>2
    <3> QED BY <1>3, <1>4, <3>1 DEF Placed
  <2> QED BY <2>1, <2>2
<1>6. Rooted(new)
  BY <1>1 DEF Placed, Rooted
<1>7. ASSUME NEW j \in DOMAIN archive, j < k2
      PROVE  IsUnpacked(new, j, left)
  <2>1. CASE j = n
    BY <1>1, <2>1 DEF IsUnpacked, IsLeaf
  <2>2. CASE j # n /\ j < k
    <3>1. IsUnpacked(disk, j, made)
      BY <2>2 DEF Placed
    <3>2. ASSUME IsLeaf(j) PROVE archive[j].path # path
      BY <2>2, <3>2 DEF NoClash, InTheWay, IsLeaf
    <3> QED BY <1>1, <3>1, <3>2 DEF IsUnpacked
  <2> QED BY <1>7, <2>1, <2>2
<1>8. ASSUME NEW t \in DOMAIN left
      PROVE  /\ OnDirectories(new, t)
             /\ \E m \in DOMAIN archive : m < k2 /\ archive[m].kind = "link"
                   /\ archive[m].path = t /\ archive[m].to = left[t]
  <2>1. t \in DOMAIN made /\ left[t] = made[t]
    OBVIOUS
  <2>2. /\ OnDirectories(disk, t)
        /\ \E m \in DOMAIN archive : m < k /\ archive[m].kind = "link" /\ archive[m].path = t
              /\ archive[m].to = made[t]
    BY <2>1 DEF Placed
  <2> QED BY <1>3, <1>4, <2>1, <2>2
<1>9. Placed(new, k2, left)
  BY <1>5, <1>6, <1>7, <1>8 DEF Placed
<1> QED BY <1>9 DEF new

\* An entry that adds no file.
LEMMA PassingPlaces ==
  ASSUME HeadersPlain, NEW disk, NEW k \in Nat, NEW made, Placed(disk, k, made),
         k \in DOMAIN archive, IsUnpacked(disk, k, made)
  PROVE  Placed(disk, k + 1, made)
<1>1. DOMAIN archive \subseteq Nat
  BY DEF HeadersPlain
<1>2. \A j \in DOMAIN archive : (j < k => j < k + 1) /\ (j < k + 1 => j < k \/ j = k)
  BY <1>1
<1> QED BY <1>2 DEF Placed

-----------------------------------------------------------------------------
(* The invariant of Untar.                                                  *)

InvUntar ==
  /\ untar \in {"idle", "reading", "linking", "done", "failed"} /\ at \in Nat \ {0}
  /\ untar = "idle" => fs = EmptyRoot /\ links = <<>> /\ at = 1
  /\ untar # "idle" => pc = "done"
  /\ untar \in {"linking", "done"} => at > Len(archive)
  /\ untar = "done" => links = <<>>
  /\ untar # "idle" /\ NoClash => untar # "failed" /\ Placed(fs, at, links)

LEMMA HeadersArePlain == InvArchive /\ PlainInputs /\ pc = "done" => HeadersPlain
BY ArchiveOfHeaders, PathsArePlain DEF HeadersPlain

LEMMA UntarFromTheStart == UntarInit => InvUntar
BY DEF UntarInit, InvUntar

LEMMA UntarUndisturbed ==
  ASSUME InvUntar, UNCHANGED unpacking, pc = "done" => UNCHANGED vars
  PROVE  InvUntar'
<1>1. fs' = fs /\ links' = links /\ at' = at /\ untar' = untar
  BY DEF unpacking
<1>2. CASE untar = "idle"
  BY <1>1, <1>2 DEF InvUntar
<1>3. CASE untar # "idle"
  <2>1. pc' = pc /\ archive' = archive
    BY <1>3 DEF InvUntar, vars
  <2>2. NoClash' <=> NoClash
    BY <2>1 DEF NoClash, InTheWay
  <2>3. Placed(fs, at, links)' <=> Placed(fs, at, links)
    BY <1>1, <2>1 DEF Placed, IsLeaf, IsDirPlace, IsUnpacked, Becomes, BodyInArchive
  <2> QED BY <1>1, <1>3, <2>1, <2>2, <2>3 DEF InvUntar
<1> QED BY <1>2, <1>3

\* A step of Untar, once it has begun.
LEMMA UntarStep ==
  ASSUME InvUntar, untar # "idle", UNCHANGED vars, untar' \in {"reading", "linking", "done", "failed"},
         at' \in Nat \ {0}, untar' \in {"linking", "done"} => at' > Len(archive),
         untar' = "done" => links' = <<>>,
         NoClash => untar' # "failed" /\ Placed(fs', at', links')
  PROVE  InvUntar'
<1>1. pc' = pc /\ archive' = archive /\ pc = "done"
  BY DEF InvUntar, vars
<1>2. NoClash' <=> NoClash
  BY <1>1 DEF NoClash, InTheWay
<1>3. Placed(fs, at, links)' <=> Placed(fs', at', links')
  BY <1>1 DEF Placed, IsLeaf, IsDirPlace, IsUnpacked, Becomes, BodyInArchive
<1> QED BY <1>1, <1>2, <1>3 DEF InvUntar

LEMMA UntarBegins ==
  ASSUME InvUntar, HeadersPlain, Untar
  PROVE  InvUntar'
<1>1. /\ pc = "done" /\ untar = "idle" /\ untar' = "reading" /\ fs' = fs /\ links' = links /\ at' = at
      /\ pc' = pc /\ archive' = archive
  BY DEF Untar, vars
<1>2. fs = EmptyRoot /\ links = <<>> /\ at = 1
  BY <1>1 DEF InvUntar
<1>3. DOMAIN fs = {<<>>} /\ fs[<<>>].kind = "dir" /\ DOMAIN links = {}
  BY <1>2 DEF EmptyRoot, Directory
<1>4. \A n \in DOMAIN archive : ~(n < 1)
  BY DEF HeadersPlain
<1>5. OnDirectories(fs, <<>>)
  <2>1. Above(<<>>) = {}
    <3>1. Len(<<>>) = 0 /\ 0..(0 - 1) = {}
      OBVIOUS
    <3> QED BY <3>1 DEF Above
  <2> QED BY <2>1 DEF OnDirectories
<1>6. Placed(fs, at, links)
  BY <1>2, <1>3, <1>4, <1>5 DEF Placed, Rooted, IsDirPlace
<1>7. NoClash' <=> NoClash
  BY <1>1 DEF NoClash, InTheWay
<1>8. Placed(fs, at, links)'
  BY <1>1, <1>6 DEF Placed, IsLeaf, IsDirPlace, IsUnpacked, Becomes, BodyInArchive
<1> QED BY <1>1, <1>2, <1>7, <1>8 DEF InvUntar

LEMMA ReadingIsOn ==
  ASSUME InvUntar, HeadersPlain, ReadingEntry
  PROVE  /\ untar = "reading" /\ at \in DOMAIN archive /\ at \in Nat /\ at + 1 \in Nat \ {0}
         /\ NoClash => Placed(fs, at, links)
         /\ UntarEntry.path \in Path /\ Plain(UntarEntry.path) /\ UntarEntry = archive[at]
         /\ Dir(UntarEntry.path) \in Seq(Name) /\ Plain(Dir(UntarEntry.path))
         /\ Dir(UntarEntry.path) \in Above(UntarEntry.path)
<1>1. untar = "reading" /\ at <= Len(archive) /\ at \in Nat \ {0} /\ archive \in Seq(TarHeader)
  BY DEF ReadingEntry, InvUntar, HeadersPlain
<1>2. at \in DOMAIN archive
  BY <1>1
<1> DEFINE path == archive[at].path
<1>3. path \in Path /\ path \in Seq(Name) /\ Plain(path)
  BY <1>2 DEF HeadersPlain, Path
<1> HIDE DEF path
<1>4. Dir(path) = SubSeq(path, 1, Len(path) - 1) /\ Dir(path) \in Seq(Name)
            /\ Dir(path) \in Above(path) /\ Len(path) \in Nat \ {0}
  BY <1>3, DirOf
<1>5. Plain(Dir(path))
  <2>1. Len(path) - 1 \in 0..Len(path)
    BY <1>4
  <2> QED BY <1>3, <1>4, <2>1, PlainAbove
<1> QED BY <1>1, <1>2, <1>3, <1>4, <1>5 DEF path, UntarEntry, InvUntar

\* The directory of an entry is made.
LEMMA DirIsMade ==
  ASSUME InvUntar, HeadersPlain, ReadingEntry, NoClash
  PROVE  \E new : /\ MkdirAll(fs, Dir(UntarEntry.path)) = [fs |-> new, failed |-> FALSE]
                  /\ Placed(new, at, links) /\ OnDirectories(new, UntarEntry.path)
                  /\ IsLeaf(at) => UntarEntry.path \notin DOMAIN new
                  /\ archive[at].kind \in {"file", "symlink", "link"} => UntarEntry.path \notin DOMAIN links
<1> DEFINE path == UntarEntry.path
           dir == Dir(path)
<1>1. /\ at \in DOMAIN archive /\ at \in Nat /\ Placed(fs, at, links)
      /\ path \in Path /\ path \in Seq(Name) /\ Plain(path) /\ path = archive[at].path
      /\ dir \in Seq(Name) /\ Plain(dir) /\ dir \in Above(path)
  BY ReadingIsOn DEF Path
<1> HIDE DEF path
<1>2. dir = SubSeq(path, 1, Len(path) - 1) /\ Len(path) \in Nat \ {0}
  BY <1>1, DirOf
<1>3. PICK new : /\ MkdirAll(fs, dir) = [fs |-> new, failed |-> FALSE] /\ Placed(new, at, links)
                 /\ \A i \in 0..Len(dir) : SubSeq(dir, 1, i) \in DOMAIN new
                       /\ new[SubSeq(dir, 1, i)].kind = "dir"
  <2>1. dir \in Above(archive[at].path)
    BY <1>1
  <2>2. at \in DOMAIN archive /\ Placed(fs, at, links) /\ dir \in Seq(Name) /\ Plain(dir)
    BY <1>1
  <2> HIDE DEF dir
  <2> QED BY <2>1, <2>2, MakingPlaces
<1>4. OnDirectories(new, path)
  <2> SUFFICES ASSUME NEW i \in 0..(Len(path) - 1)
               PROVE  SubSeq(path, 1, i) \in DOMAIN new /\ new[SubSeq(path, 1, i)].kind = "dir"
    BY DEF OnDirectories, Above
  <2>1. Len(path) - 1 \in 0..Len(path) /\ i \in 0..(Len(path) - 1)
    BY <1>2
  <2>2. Len(dir) = Len(path) - 1 /\ SubSeq(dir, 1, i) = SubSeq(path, 1, i)
    BY <1>1, <1>2, <2>1, PlainAbove
  <2> HIDE DEF dir
  <2> QED BY <1>3, <2>1, <2>2
<1>5. IsLeaf(at) => path \notin DOMAIN new
  BY <1>1, <1>3, PlaceIsFree
<1>6. ASSUME archive[at].kind \in {"file", "symlink", "link"}, path \in DOMAIN links PROVE FALSE
  <2>1. PICK n \in DOMAIN archive : n < at /\ archive[n].kind = "link" /\ archive[n].path = path
    BY <1>1, <1>6 DEF Placed
  <2>2. n # at
    BY <1>1, <2>1
  <2>3. InTheWay(n, at)
    BY <1>1, <2>1, <2>2 DEF InTheWay
  <2> QED BY <1>1, <2>3 DEF NoClash
<1> QED BY <1>3, <1>4, <1>5, <1>6 DEF path

LEMMA UntarDirKeeps ==
  ASSUME InvUntar, HeadersPlain, UntarDir
  PROVE  InvUntar'
<1> DEFINE r == MkdirAll(fs, UntarEntry.path)
<1>1. /\ ReadingEntry /\ UntarEntry.kind = "dir" /\ links' = links
      /\ fs' = r.fs /\ untar' = (IF r.failed THEN "failed" ELSE untar) /\ at' = at + 1 /\ UNCHANGED vars
  BY DEF UntarDir, Did
<1>2. /\ untar = "reading" /\ at \in DOMAIN archive /\ at \in Nat /\ at' \in Nat \ {0}
      /\ UntarEntry = archive[at] /\ UntarEntry.path \in Path /\ Plain(UntarEntry.path)
  BY <1>1, ReadingIsOn
<1>3. ASSUME NoClash PROVE untar' # "failed" /\ Placed(fs', at', links')
  <2> DEFINE path == UntarEntry.path
  <2>1. Placed(fs, at, links)
    BY <1>1, <1>3, ReadingIsOn
  <2>2. path \in Seq(Name) /\ Plain(path) /\ archive[at].kind = "dir" /\ path = archive[at].path
    BY <1>1, <1>2 DEF Path
  <2> HIDE DEF path
  <2>3. PICK new : /\ MkdirAll(fs, path) = [fs |-> new, failed |-> FALSE] /\ Placed(new, at, links)
                   /\ \A i \in 0..Len(path) : SubSeq(path, 1, i) \in DOMAIN new
                         /\ new[SubSeq(path, 1, i)].kind = "dir"
    <3>1. path \in Above(archive[at].path) \/ (archive[at].kind = "dir" /\ path = archive[at].path)
      BY <2>2
    <3>2. at \in DOMAIN archive /\ path \in Seq(Name) /\ Plain(path)
      BY <1>2, <2>2
    <3> QED BY <1>3, <2>1, <3>1, <3>2, MakingPlaces
  <2>4. IsUnpacked(new, at, links)
    <3>1. Len(path) \in 0..Len(path) /\ SubSeq(path, 1, Len(path)) = path
      BY <2>2
    <3> QED BY <2>2, <2>3, <3>1 DEF IsUnpacked, IsLeaf
  <2>5. Placed(new, at + 1, links)
    BY <1>2, <2>3, <2>4, PassingPlaces
  <2> QED BY <1>1, <1>2, <2>3, <2>5 DEF path
<1> HIDE DEF r
<1> QED BY <1>1, <1>2, <1>3, UntarStep

LEMMA UntarLinkKeeps ==
  ASSUME InvUntar, HeadersPlain, UntarLink
  PROVE  InvUntar'
<1> DEFINE r == MkdirAll(fs, Dir(UntarEntry.path))
           path == UntarEntry.path
<1>1. /\ ReadingEntry /\ UntarEntry.kind = "link"
      /\ fs' = r.fs /\ untar' = (IF r.failed THEN "failed" ELSE untar) /\ at' = at + 1 /\ UNCHANGED vars
      /\ links' = IF r.failed THEN links ELSE With(links, UntarEntry.path, UntarEntry.to)
  BY DEF UntarLink, Did
<1>2. /\ untar = "reading" /\ at \in DOMAIN archive /\ at \in Nat /\ at' \in Nat \ {0}
      /\ UntarEntry = archive[at]
  BY <1>1, ReadingIsOn
<1>3. ASSUME NoClash PROVE untar' # "failed" /\ Placed(fs', at', links')
  <2>1. PICK new : /\ MkdirAll(fs, Dir(UntarEntry.path)) = [fs |-> new, failed |-> FALSE]
                   /\ Placed(new, at, links) /\ OnDirectories(new, UntarEntry.path)
                   /\ IsLeaf(at) => UntarEntry.path \notin DOMAIN new
    BY <1>1, <1>3, DirIsMade
  <2>2. fs' = new /\ untar' = "reading" /\ links' = With(links, path, archive[at].to) /\ at' = at + 1
    BY <1>1, <1>2, <2>1
  <2>3. Placed(new, at, links) /\ \A j \in DOMAIN archive : (j < at => j < at + 1)
              /\ (j < at + 1 => j < at \/ j = at)
    BY <1>2, <2>1 DEF HeadersPlain
  <2>4. /\ path \notin DOMAIN new /\ OnDirectories(new, path) /\ archive[at].path = path
              /\ archive[at].kind = "link"
        /\ at < at + 1
    BY <1>1, <1>2, <2>1 DEF IsLeaf
  <2> HIDE DEF path
  <2>5. /\ DOMAIN links' = DOMAIN links \cup {path} /\ links'[path] = archive[at].to
        /\ \A t \in DOMAIN links : t # path => links'[t] = links[t]
    BY <2>2 DEF With
  <2>6. ASSUME NEW t \in DOMAIN links'
        PROVE  /\ OnDirectories(new, t)
               /\ \E n \in DOMAIN archive : /\ n < at + 1 /\ archive[n].kind = "link" /\ archive[n].path = t
                                            /\ archive[n].to = links'[t]
    <3>1. CASE t = path
      BY <1>2, <2>4, <2>5, <3>1
    <3>2. CASE t # path
      <4>1. t \in DOMAIN links /\ links'[t] = links[t]
        BY <2>5, <3>2
      <4> QED BY <2>3, <4>1 DEF Placed
    <3> QED BY <3>1, <3>2
  <2>7. ASSUME NEW p \in DOMAIN new
        PROVE  /\ OnDirectories(new, p)
               /\ new[p].kind = "dir" => IsDirPlace(p)
               /\ new[p].kind # "dir" =>
                    p \notin DOMAIN links' /\ \E n \in DOMAIN archive : n < at + 1 /\ IsLeaf(n)
                          /\ archive[n].path = p
    <3>1. p # path
      BY <2>4
    <3> QED BY <2>3, <2>5, <3>1 DEF Placed
  <2>8. /\ Rooted(new)
        /\ \A n \in DOMAIN archive : n < at + 1 => IsUnpacked(new, n, links')
    <3>1. \A n \in DOMAIN archive : IsUnpacked(new, n, links) => IsUnpacked(new, n, links')
      BY <2>5 DEF IsUnpacked
    <3>2. IsUnpacked(new, at, links')
      BY <2>4, <2>5 DEF IsUnpacked
    <3> QED BY <2>3, <3>1, <3>2 DEF Placed
  <2>9. Placed(new, at + 1, links')
    BY <2>6, <2>7, <2>8 DEF Placed
  <2> QED BY <2>2, <2>9
<1> HIDE DEF r, path
<1> QED BY <1>1, <1>2, <1>3, UntarStep

\* A call that puts a file or a link where there is none.
LEMMA CallPlaces ==
  ASSUME InvUntar, HeadersPlain, ReadingEntry, NoClash, UntarEntry.kind \in {"file", "symlink"},
         NEW new, Placed(new, at, links), OnDirectories(new, UntarEntry.path), UntarEntry.path \notin DOMAIN new,
         UntarEntry.path \notin DOMAIN links, NEW node, node.kind # "dir", Becomes(node, at)
  PROVE  LET r == Try(new, UntarEntry.path \notin DOMAIN new, UntarEntry.path, node)
         IN  ~r.failed /\ Placed(r.fs, at + 1, links)
<1> DEFINE path == UntarEntry.path
           can == path \notin DOMAIN new
           k == at + 1
<1>1. /\ at \in DOMAIN archive /\ at \in Nat /\ UntarEntry = archive[at] /\ can
  BY ReadingIsOn
<1>2. Try(new, can, path, node) = [fs |-> With(new, path, node), failed |-> FALSE]
  BY <1>1 DEF Try
<1>3. k \in Nat /\ at < k /\ at <= k /\ \A j \in DOMAIN archive : j < k => j < at \/ j = at
  BY <1>1 DEF HeadersPlain
<1>4. IsLeaf(at) /\ path = archive[at].path
  BY <1>1 DEF IsLeaf
<1>5. DOMAIN links = DOMAIN links \ {archive[at].path}
  BY <1>4
<1> HIDE DEF k, path
<1>6. Placed(With(new, archive[at].path, node), k, links)
  <2>1. archive[at].path \notin DOMAIN new /\ OnDirectories(new, archive[at].path)
    BY <1>1
  <2> QED BY <1>1, <1>3, <1>4, <1>5, <2>1, PuttingPlaces
<1> QED BY <1>2, <1>4, <1>6 DEF k, path

LEMMA UntarFileKeeps ==
  ASSUME InvUntar, HeadersPlain, UntarFile
  PROVE  InvUntar'
<1> DEFINE path == UntarEntry.path
           dir == MkdirAll(fs, Dir(path))
           r == IF dir.failed THEN dir ELSE Create(dir.fs, path, UntarEntry.body)
<1>1. /\ ReadingEntry /\ UntarEntry.kind = "file" /\ links' = links
      /\ fs' = r.fs /\ untar' = (IF r.failed THEN "failed" ELSE untar) /\ at' = at + 1 /\ UNCHANGED vars
  BY DEF UntarFile, Did
<1>2. /\ untar = "reading" /\ at \in DOMAIN archive /\ at \in Nat /\ at' \in Nat \ {0}
      /\ UntarEntry = archive[at] /\ path \in Path /\ Plain(path)
  BY <1>1, ReadingIsOn
<1>3. ASSUME NoClash PROVE untar' # "failed" /\ Placed(fs', at', links')
  <2>1. PICK new : /\ dir = [fs |-> new, failed |-> FALSE]
                   /\ Placed(new, at, links) /\ OnDirectories(new, path)
                   /\ path \notin DOMAIN new /\ path \notin DOMAIN links
    <3>1. IsLeaf(at) /\ archive[at].kind \in {"file", "symlink", "link"}
      BY <1>1, <1>2 DEF IsLeaf
    <3> QED BY <1>1, <1>3, <3>1, DirIsMade
  <2> HIDE DEF dir, path
  <2> DEFINE node == [kind |-> "file", body |-> UntarEntry.body]
             can == path \in DOMAIN new => new[path].kind = "file"
  <2>2. r = Create(new, path, UntarEntry.body)
    BY <2>1
  <2>3. Create(new, path, UntarEntry.body) = Try(new, can, path, node)
    BY <1>2, <2>1, CallsHere
  <2>4. can = (path \notin DOMAIN new)
    BY <2>1
  <2>5. node.kind # "dir" /\ Becomes(node, at)
    BY <1>1, <1>2 DEF Becomes
  <2> HIDE DEF node, can
  <2>6. LET c == Try(new, path \notin DOMAIN new, path, node)
        IN  ~c.failed /\ Placed(c.fs, at + 1, links)
    BY <1>1, <1>3, <2>1, <2>5, CallPlaces DEF path
  <2> HIDE DEF r
  <2> QED BY <1>1, <1>2, <2>2, <2>3, <2>4, <2>6
<1> HIDE DEF r
<1> QED BY <1>1, <1>2, <1>3, UntarStep

LEMMA UntarSymlinkKeeps ==
  ASSUME InvUntar, HeadersPlain, UntarSymlink
  PROVE  InvUntar'
<1> DEFINE path == UntarEntry.path
           dir == MkdirAll(fs, Dir(path))
           names == Linkname(UntarEntry)
           r == IF dir.failed THEN dir ELSE Symlink(dir.fs, names, path)
<1>1. /\ ReadingEntry /\ UntarEntry.kind = "symlink" /\ links' = links
      /\ fs' = r.fs /\ untar' = (IF r.failed THEN "failed" ELSE untar) /\ at' = at + 1 /\ UNCHANGED vars
  BY DEF UntarSymlink, Did
<1>2. /\ untar = "reading" /\ at \in DOMAIN archive /\ at \in Nat /\ at' \in Nat \ {0}
      /\ UntarEntry = archive[at] /\ path \in Path /\ Plain(path)
  BY <1>1, ReadingIsOn
<1>3. ASSUME NoClash PROVE untar' # "failed" /\ Placed(fs', at', links')
  <2>1. PICK new : /\ dir = [fs |-> new, failed |-> FALSE]
                   /\ Placed(new, at, links) /\ OnDirectories(new, path)
                   /\ path \notin DOMAIN new /\ path \notin DOMAIN links
    <3>1. IsLeaf(at) /\ archive[at].kind \in {"file", "symlink", "link"}
      BY <1>1, <1>2 DEF IsLeaf
    <3> QED BY <1>1, <1>3, <3>1, DirIsMade
  <2> HIDE DEF dir, path, names
  <2> DEFINE node == [kind |-> "symlink", to |-> names]
  <2>2. r = Symlink(new, names, path)
    BY <2>1
  <2>3. Symlink(new, names, path) = Try(new, path \notin DOMAIN new, path, node)
    BY <1>2, <2>1, CallsHere
  <2>4. node.kind # "dir" /\ Becomes(node, at)
    BY <1>1, <1>2 DEF Becomes, names
  <2> HIDE DEF node
  <2>5. LET c == Try(new, path \notin DOMAIN new, path, node)
        IN  ~c.failed /\ Placed(c.fs, at + 1, links)
    BY <1>1, <1>3, <2>1, <2>4, CallPlaces DEF path
  <2> HIDE DEF r
  <2> QED BY <1>1, <1>2, <2>2, <2>3, <2>5
<1> HIDE DEF r
<1> QED BY <1>1, <1>2, <1>3, UntarStep

LEMMA UntarOtherKeeps ==
  ASSUME InvUntar, HeadersPlain, UntarOther
  PROVE  InvUntar'
<1>1. /\ ReadingEntry /\ UntarEntry.kind = "special" /\ at' = at + 1
      /\ fs' = fs /\ links' = links /\ untar' = untar /\ UNCHANGED vars
  BY DEF UntarOther
<1>2. /\ untar = "reading" /\ at \in DOMAIN archive /\ at \in Nat /\ at' \in Nat \ {0}
      /\ UntarEntry = archive[at] /\ (NoClash => Placed(fs, at, links))
  BY <1>1, ReadingIsOn
<1>3. IsUnpacked(fs, at, links)
  BY <1>1, <1>2 DEF IsUnpacked, IsLeaf
<1>4. NoClash => untar' # "failed" /\ Placed(fs', at', links')
  BY <1>1, <1>2, <1>3, PassingPlaces
<1> QED BY <1>1, <1>2, <1>4, UntarStep

LEMMA UntarEndsKeep ==
  ASSUME InvUntar, EndOfArchive \/ EndUntar
  PROVE  InvUntar'
<1>1. /\ untar # "idle" /\ untar # "failed" /\ untar' \in {"linking", "done"} /\ at' = at
            /\ fs' = fs /\ links' = links
      /\ UNCHANGED vars /\ at' > Len(archive) /\ (untar' = "done" => links' = <<>>)
  BY DEF EndOfArchive, EndUntar, InvUntar
<1>2. at' \in Nat \ {0} /\ (NoClash => Placed(fs, at, links))
  BY <1>1 DEF InvUntar
<1> QED BY <1>1, <1>2, UntarStep

LEMMA OneFile ==
  ASSUME HeadersPlain, OncePerPath, NEW j \in DOMAIN archive, archive[j].kind = "file",
         NEW o \in Range(archive), o.path = archive[j].path, o.kind = "file"
  PROVE  o = archive[j]
<1>1. PICK i \in DOMAIN archive : o = archive[i]
  BY DEF Range
<1>2. ~(i < j) /\ ~(j < i)
  BY <1>1 DEF OncePerPath
<1>3. DOMAIN archive \subseteq Nat
  BY DEF HeadersPlain
<1>4. i = j
  BY <1>2, <1>3
<1> QED BY <1>1, <1>4

LEMMA MakeLinkKeeps ==
  ASSUME InvUntar, HeadersPlain, LinksHaveFiles, OncePerPath, MakeLink
  PROVE  InvUntar'
<1>1. PICK target \in DOMAIN links :
        LET r == Link(fs, links[target], target)
        IN  fs' = r.fs /\ untar' = (IF r.failed THEN "failed" ELSE untar) /\ links' = Without(links, target)
  BY DEF MakeLink
<1> DEFINE source == links[target]
           r == Link(fs, source, target)
<1>2. untar = "linking" /\ UNCHANGED vars /\ at' = at /\ at \in Nat \ {0} /\ at > Len(archive)
  BY DEF MakeLink, InvUntar
<1>3. ASSUME NoClash PROVE untar' # "failed" /\ Placed(fs', at', links')
  <2>1. Placed(fs, at, links)
    BY <1>2, <1>3 DEF InvUntar
  <2>2. PICK n \in DOMAIN archive : n < at /\ archive[n].kind = "link"
              /\ archive[n].path = target /\ archive[n].to = source
    BY <2>1 DEF Placed
  <2>3. target \in Path /\ Plain(target) /\ OnDirectories(fs, target) /\ IsLeaf(n)
    BY <2>1, <2>2 DEF HeadersPlain, Placed, IsLeaf
  <2>4. target \notin DOMAIN fs
    <3>1. archive[n].path \in DOMAIN links
      BY <2>2
    <3> QED BY <1>2, <1>3, <2>1, <2>2, <2>3, <3>1, PlaceIsFree
  <2>5. PICK j \in DOMAIN archive : archive[j].path = source /\ archive[j].kind = "file"
    BY <2>2 DEF LinksHaveFiles, FileAt
  <2>6. j < at /\ source \in Path /\ Plain(source)
    BY <1>2, <2>5 DEF HeadersPlain
  <2>7. /\ source \in DOMAIN fs /\ OnDirectories(fs, source)
        /\ fs[source] = [kind |-> "file", body |-> archive[j].body]
    <3>1. IsUnpacked(fs, j, links)
      BY <2>1, <2>6 DEF Placed
    <3>2. source \in DOMAIN fs /\ fs[source] = [kind |-> "file", body |-> archive[j].body]
      BY <2>5, <3>1 DEF IsUnpacked, IsLeaf, Becomes
    <3> QED BY <2>1, <3>2 DEF Placed
  <2> HIDE DEF source
  <2> DEFINE node == fs[source]
             can == target \notin DOMAIN fs
  <2>8. Link(fs, source, target) = Try(fs, can, target, node)
    <3>1. fs[source].kind # "dir"
      BY <2>7
    <3> QED BY <2>3, <2>6, <2>7, <3>1, CallsHere
  <2>9. Link(fs, source, target) = [fs |-> With(fs, target, node), failed |-> FALSE]
    BY <2>4, <2>8 DEF Try
  <2>10. fs' = With(fs, target, node) /\ untar' = "linking" /\ links' = Without(links, target)
    BY <1>1, <1>2, <2>9 DEF source
  <2>11. DOMAIN links' = DOMAIN links \ {target} /\ \A t \in DOMAIN links' : links'[t] = links[t]
    BY <2>10 DEF Without
  <2>12. node.kind # "dir" /\ Becomes(node, n)
    <3>1. \A o \in Range(archive) : o.path = source /\ o.kind = "file" => o = archive[j]
      BY <2>5, OneFile
    <3>2. BodyInArchive(archive[n]) = {o.body : o \in {o \in Range(archive) : o.path = source
                /\ o.kind = "file"}}
      BY <2>2 DEF BodyInArchive
    <3>3. archive[j] \in Range(archive)
      BY DEF Range
    <3>4. {archive[j].body} = BodyInArchive(archive[n])
      BY <2>5, <3>1, <3>2, <3>3
    <3> QED BY <2>2, <2>7, <3>4 DEF Becomes
  <2> HIDE DEF node
  <2>13. PICK left : left = links'
    OBVIOUS
  <2>14. Placed(With(fs, archive[n].path, node), at, left)
    <3>1. /\ archive[n].path \notin DOMAIN fs /\ OnDirectories(fs, archive[n].path)
          /\ DOMAIN left = DOMAIN links \ {archive[n].path} /\ \A t \in DOMAIN left : left[t] = links[t]
      BY <2>2, <2>3, <2>4, <2>11, <2>13
    <3>2. at \in Nat /\ at <= at /\ \A i \in DOMAIN archive : i < at => i < at \/ i = n
      BY <1>2
    <3> QED BY <1>3, <2>1, <2>2, <2>3, <2>12, <3>1, <3>2, PuttingPlaces
  <2> QED BY <1>2, <2>2, <2>10, <2>13, <2>14
<1>4. untar' \in {"linking", "failed"}
  BY <1>1, <1>2
<1> HIDE DEF r
<1> QED BY <1>2, <1>3, <1>4, UntarStep

LEMMA PlainInductive == ArchivesSpec => [](PlainInputs /\ LinksHaveFiles)
<1>1. ArchivesInit => PlainInputs /\ LinksHaveFiles
  <2>1. ArchivesInit => Init
    BY DEF ArchivesInit, Init
  <2> QED BY <2>1, PlainFromTheStart
<1>2. InvArchive /\ (PlainInputs /\ LinksHaveFiles) /\ [ArchivesNext]_<<vars, unpacking, filtering, use>>
        => (PlainInputs /\ LinksHaveFiles)'
  <2> SUFFICES ASSUME InvArchive, PlainInputs, LinksHaveFiles, [ArchivesNext]_<<vars, unpacking, filtering, use>>
               PROVE  (PlainInputs /\ LinksHaveFiles)'
    OBVIOUS
  <2>1. [Next]_vars
    BY ReadersLeaveIt DEF ArchivesNext, Write
  <2> QED BY <2>1, PlainKept
<1> QED BY <1>1, <1>2, ArchiveInductive, PTL DEF ArchivesSpec

LEMMA UntarInductive == ArchivesSpec => []InvUntar
<1>1. ArchivesInit => InvUntar
  BY UntarFromTheStart DEF ArchivesInit
<1>2. InvArchive /\ (PlainInputs /\ LinksHaveFiles) /\ InvUntar
            /\ [ArchivesNext]_<<vars, unpacking, filtering, use>> => InvUntar'
  <2> SUFFICES ASSUME InvArchive, PlainInputs, LinksHaveFiles, InvUntar,
                      [ArchivesNext]_<<vars, unpacking, filtering, use>>
               PROVE  InvUntar'
    OBVIOUS
  <2>1. CASE Write
    BY <2>1, ReadersWait, UntarUndisturbed DEF Write
  <2>2. CASE Unpack
    <3>1. pc = "done"
      BY <2>2 DEF Unpack, UntarNext, Untar, UntarDir, UntarFile, UntarSymlink, UntarLink, UntarOther,
                  EndOfArchive, MakeLink, EndUntar, ReadingEntry, InvUntar
    <3>2. HeadersPlain
      BY <3>1, HeadersArePlain
    <3>3. UntarNext /\ OncePerPath
      BY <2>2, OncePerPathHolds DEF Unpack
    <3> QED BY <3>2, <3>3, UntarBegins, UntarDirKeeps, UntarFileKeeps, UntarSymlinkKeeps, UntarLinkKeeps,
               UntarOtherKeeps, UntarEndsKeep, MakeLinkKeeps DEF UntarNext
  <2>3. CASE TakeOut
    BY <2>3, ReadersLeaveIt, UntarUndisturbed DEF TakeOut
  <2>4. CASE UNCHANGED <<vars, unpacking, filtering, use>>
    BY <2>4, UntarUndisturbed
  <2> QED BY <2>1, <2>2, <2>3, <2>4 DEF ArchivesNext
<1> QED BY <1>1, <1>2, ArchiveInductive, PlainInductive, PTL DEF ArchivesSpec

LEMMA PlacesArePaths ==
  ASSUME HeadersPlain, Placed(fs, at, links), NEW p \in DOMAIN fs, p # <<>>
  PROVE  p \in Path
<1>1. CASE \E n \in DOMAIN archive : archive[n].path = p
  BY <1>1 DEF HeadersPlain
<1>2. CASE \E n \in DOMAIN archive : p \in Above(archive[n].path)
  <2>1. PICK n \in DOMAIN archive : p \in Above(archive[n].path)
    BY <1>2
  <2> DEFINE path == archive[n].path
  <2>2. path \in Seq(Name) /\ Len(path) \in Nat
    BY DEF HeadersPlain, Path
  <2>3. PICK i \in 0..(Len(path) - 1) : p = SubSeq(path, 1, i)
    BY <2>1 DEF Above
  <2> HIDE DEF path
  <2>4. i \in 0..Len(path)
    BY <2>2, <2>3
  <2>5. p \in Seq(Name)
    BY <2>2, <2>3, <2>4, UpTo
  <2> QED BY <2>5 DEF Path
<1> QED BY <1>1, <1>2 DEF Placed, IsDirPlace

\* The commands that read an archive only give up for a reason: unpacking one, if two of
\* its entries are in each other's way, and taking files out of it, if one is missing, is
\* of another kind, or is a link where a directory has been made (tar.go:52-235).
THEOREM OnlyJustFailures == ArchivesSpec => []FailuresJustified
<1>1. InvUntar /\ InvFilter => FailuresJustified
  <2> SUFFICES ASSUME InvUntar, InvFilter PROVE UntarFailsForAReason /\ FilterFailsForAReason
    BY DEF FailuresJustified
  <2>1. UntarFailsForAReason
    <3> SUFFICES ASSUME untar = "failed" PROVE ~NoClash
      BY DEF UntarFailsForAReason, NoClash
    <3> QED BY DEF InvUntar
  <2> QED BY <2>1 DEF InvFilter
<1> QED BY <1>1, UntarInductive, FilterInductive, PTL

\* Where no two entries are in each other's way, what is unpacked is what the archive holds:
\* directories, and files with their content under each of their names, made in directories
\* that are there (tar.go:159-235).
THEOREM UnpackedInPlace == ArchivesSpec => [](NoClash => SandboxTypeOK /\ FilesUnpacked)
<1>1. InvArchive /\ (PlainInputs /\ LinksHaveFiles) /\ InvUntar => (NoClash => SandboxTypeOK /\ FilesUnpacked)
  <2> SUFFICES ASSUME InvArchive, PlainInputs, InvUntar, NoClash PROVE SandboxTypeOK /\ FilesUnpacked
    OBVIOUS
  <2>1. untar \in {"idle", "reading", "linking", "done", "failed"} /\ at \in Nat \ {0}
    BY DEF InvUntar
  <2>2. CASE untar = "idle"
    <3>1. DOMAIN fs = {<<>>} /\ DOMAIN links = {}
      BY <2>2 DEF InvUntar, EmptyRoot
    <3> QED BY <2>1, <2>2, <3>1 DEF SandboxTypeOK, FilesUnpacked
  <2>3. CASE untar # "idle"
    <3>1. HeadersPlain /\ Placed(fs, at, links)
      BY <2>3, HeadersArePlain DEF InvUntar
    <3>2. ASSUME NEW p \in DOMAIN fs, p # <<>> PROVE Dir(p) \in DOMAIN fs /\ fs[Dir(p)].kind = "dir"
      <4>1. p \in Path
        BY <3>1, <3>2, PlacesArePaths
      <4> QED BY <3>1, <4>1, DirOf DEF Placed, OnDirectories
    <3>3. ASSUME NEW target \in DOMAIN links PROVE Found(fs, Dir(target))
      <4>1. target \in Path /\ Plain(target) /\ OnDirectories(fs, target)
        BY <3>1 DEF Placed, HeadersPlain
      <4>2. IsDir(fs, Dir(target))
        BY <4>1, StandsHere
      <4> QED BY <4>2 DEF IsDir
    <3>4. SandboxTypeOK
      BY <2>1, <3>2, <3>3 DEF SandboxTypeOK
    <3>5. FilesUnpacked
      <4> SUFFICES ASSUME untar = "done", NEW n \in DOMAIN archive
                   PROVE  /\ archive[n].kind = "dir" => IsDir(fs, archive[n].path)
                          /\ archive[n].kind \in {"file", "link"} =>
                               /\ Found(fs, archive[n].path)
                               /\ {Node(fs, archive[n].path).body} = BodyInArchive(archive[n])
        BY DEF FilesUnpacked
      <4> DEFINE path == archive[n].path
      <4>1. n < at /\ DOMAIN links = {}
        <5>1. at > Len(archive) /\ links = <<>>
          BY DEF InvUntar
        <5> QED BY <2>1, <3>1, <5>1 DEF HeadersPlain
      <4>2. IsUnpacked(fs, n, links)
        BY <3>1, <4>1 DEF Placed
      <4>3. path \in Path /\ Plain(path)
        BY <3>1 DEF HeadersPlain
      <4>4. CASE archive[n].kind = "dir"
        <5>1. path \in DOMAIN fs /\ fs[path].kind = "dir"
          BY <4>2, <4>4 DEF IsUnpacked
        <5>2. IsDir(fs, path)
          BY <3>1, <4>3, <5>1, StandsHere DEF Placed
        <5> QED BY <4>4, <5>2
      <4>5. CASE archive[n].kind \in {"file", "link"}
        <5>1. path \in DOMAIN fs /\ Becomes(fs[path], n)
          BY <4>1, <4>2, <4>5 DEF IsUnpacked, IsLeaf
        <5>2. fs[path].kind = "file" /\ {fs[path].body} = BodyInArchive(archive[n])
          BY <4>5, <5>1 DEF Becomes, BodyInArchive
        <5>3. Found(fs, path) /\ Node(fs, path) = fs[path]
          BY <3>1, <4>3, <5>1, <5>2, StandsHere DEF Placed
        <5> QED BY <4>5, <5>2, <5>3
      <4> QED BY <4>4, <4>5
    <3> QED BY <3>4, <3>5
  <2> QED BY <2>2, <2>3
<1> QED BY <1>1, ArchiveInductive, PlainInductive, UntarInductive, PTL
=============================================================================

------------------------------ MODULE LddProofs ------------------------------
(***************************************************************************)
(* What the search for shared libraries lists, for any file system without  *)
(* links in a circle: nothing but what is needed, once; no link without its *)
(* target; and all that the objects themselves need.                        *)
(*                                                                          *)
(* Chains of links, and lists that are put together of others, are defined  *)
(* by recursion.  That there is a chain from every path is shown for a set  *)
(* of paths that cannot be larger; what holds of all parts of a list, for   *)
(* the first that would break it (NatMinimum).                              *)
(***************************************************************************)
EXTENDS Ldd, TLAPS, FiniteSetTheorems, WellFoundedInduction

\* A set of naturals that is not empty has a least element.
LEMMA NatMinimum ==
  ASSUME NEW S \in SUBSET Nat, S # {}
  PROVE  \E x \in S : \A y \in S : x <= y
<1> DEFINE Less == {ss \in Nat \X Nat : ss[1] < ss[2]}
<1>1. IsWellFoundedOn(Less, Nat)
  BY NatLessThanWellFounded, Zenon DEF OpToRel
<1>2. PICK x \in S : \A y \in S : <<y, x>> \notin Less
  BY <1>1, WFMin, Zenon
<1>3. \A y \in S : ~(y < x)
  BY <1>2
<1> QED
  BY <1>3

-----------------------------------------------------------------------------
(* Chains of links.                                                         *)

IsChain(f, S, to) ==
  /\ f = [p \in S |-> f[p]]
  /\ \A p \in S : f[p] = IF p \in DOMAIN to THEN <<to[p]>> \o f[to[p]] ELSE <<p>>
HasChain(S, to) == (\A p \in S \cap DOMAIN to : to[p] \in S) /\ \E f : IsChain(f, S, to)

\* Two of them agree where they are both defined.
LEMMA ChainUnique ==
  ASSUME NEW to, Straight(to), NEW S, NEW T, NEW f, NEW g, IsChain(f, S, to), IsChain(g, T, to),
         \A p \in S \cap DOMAIN to : to[p] \in S, \A p \in T \cap DOMAIN to : to[p] \in T
  PROVE  \A p \in S \cap T : f[p] = g[p]
<1> DEFINE Apart == {p \in S \cap T : f[p] # g[p]}
<1>1. SUFFICES ASSUME Apart # {} PROVE FALSE
  OBVIOUS
<1>2. Apart \in SUBSET DOMAIN to
  BY DEF IsChain
<1>3. PICK p \in Apart : to[p] \notin Apart
  BY <1>1, <1>2 DEF Straight
<1>4. to[p] \in S \cap T /\ f[to[p]] = g[to[p]]
  BY <1>2, <1>3
<1> QED
  BY <1>2, <1>3, <1>4 DEF IsChain

LEMMA ChainExists ==
  ASSUME NEW D, NEW to, to \in [DOMAIN to -> D], DOMAIN to \subseteq D, Straight(to)
  PROVE  \E f : IsChain(f, D, to)
<1> DEFINE P == {p \in D : \E S \in SUBSET D : p \in S /\ HasChain(S, to)}
           Is(p, v) == \E S \in SUBSET D : /\ p \in S /\ \A q \in S \cap DOMAIN to : to[q] \in S
                                           /\ \E f : IsChain(f, S, to) /\ v = f[p]
           h == [p \in P |-> CHOOSE v : Is(p, v)]
<1>1. ASSUME NEW S \in SUBSET D, \A q \in S \cap DOMAIN to : to[q] \in S,
             NEW f, IsChain(f, S, to), NEW p \in S
      PROVE  p \in P /\ h[p] = f[p]
  <2>1. p \in P
    BY <1>1 DEF HasChain
  <2>2. Is(p, f[p])
    BY <1>1
  <2>3. Is(p, h[p])
    BY <2>1, <2>2
  <2>4. PICK T \in SUBSET D : /\ p \in T /\ \A q \in T \cap DOMAIN to : to[q] \in T
                              /\ \E g : IsChain(g, T, to) /\ h[p] = g[p]
    BY <2>3
  <2>5. PICK g : IsChain(g, T, to) /\ h[p] = g[p]
    BY <2>4
  <2> HIDE DEF P, h, Is
  <2>6. f[p] = g[p]
    BY <1>1, <2>4, <2>5, ChainUnique
  <2> QED BY <2>1, <2>5, <2>6
<1>2. P \in SUBSET D /\ h = [p \in P |-> h[p]]
  <2>1. P \in SUBSET D
    OBVIOUS
  <2> HIDE DEF P, Is
  <2> QED BY <2>1
<1>3. ASSUME NEW p \in P
      PROVE  /\ p \in DOMAIN to => to[p] \in P
             /\ h[p] = IF p \in DOMAIN to THEN <<to[p]>> \o h[to[p]] ELSE <<p>>
  <2>1. PICK S \in SUBSET D : p \in S /\ HasChain(S, to)
    BY <1>3
  <2>2. PICK f : IsChain(f, S, to)
    BY <2>1 DEF HasChain
  <2>3. \A q \in S : q \in P /\ h[q] = f[q]
    <3>1. \A q \in S \cap DOMAIN to : to[q] \in S
      BY <2>1 DEF HasChain
    <3> HIDE DEF P, h
    <3> QED BY <1>1, <2>2, <3>1
  <2> HIDE DEF P, h
  <2>4. f[p] = IF p \in DOMAIN to THEN <<to[p]>> \o f[to[p]] ELSE <<p>>
    BY <2>1, <2>2 DEF IsChain
  <2>5. p \in DOMAIN to => to[p] \in S
    BY <2>1 DEF HasChain
  <2> QED BY <2>1, <2>3, <2>4, <2>5
<1>4. IsChain(h, P, to)
  BY <1>2, <1>3 DEF IsChain
<1>5. ASSUME NEW p \in D, p \in DOMAIN to => to[p] \in P PROVE p \in P
  <2> DEFINE S == P \cup {p}
             f == [q \in S |-> IF q \in P THEN h[q]
                              ELSE IF q \in DOMAIN to THEN <<to[q]>> \o h[to[q]] ELSE <<q>>]
  <2> HIDE DEF P, h
  <2>1. S \in SUBSET D /\ p \in S /\ \A q \in S \cap DOMAIN to : to[q] \in P
    BY <1>2, <1>3, <1>5
  <2>2. \A q \in S : f[q] = IF q \in DOMAIN to THEN <<to[q]>> \o f[to[q]] ELSE <<q>>
    BY <1>3, <2>1
  <2>3. IsChain(f, S, to)
    BY <2>2 DEF IsChain
  <2>4. HasChain(S, to)
    BY <2>1, <2>3 DEF HasChain
  <2> QED BY <2>1, <2>4, <1>5 DEF P
<1>6. P = D
  <2> DEFINE Left == D \ P
  <2> HIDE DEF P
  <2>1. SUFFICES ASSUME Left # {} PROVE FALSE
    BY <1>2
  <2>2. Left \in SUBSET DOMAIN to
    BY <1>5
  <2>3. PICK p \in Left : to[p] \notin Left
    BY <2>1, <2>2 DEF Straight
  <2> QED BY <1>5, <2>2, <2>3
<1> HIDE DEF P, h
<1> QED
  BY <1>4, <1>6

LEMMA ChainSteps ==
  ASSUME NEW fs, NEW to, to \in [DOMAIN to -> DOMAIN fs], DOMAIN to \subseteq DOMAIN fs, Straight(to),
         NEW p \in DOMAIN fs
  PROVE  Chain(fs, to)[p] = IF p \in DOMAIN to THEN <<to[p]>> \o Chain(fs, to)[to[p]] ELSE <<p>>
<1>1. PICK f : IsChain(f, DOMAIN fs, to)
  BY ChainExists
<1>2. f = [q \in DOMAIN fs |-> IF q \in DOMAIN to THEN <<to[q]>> \o f[to[q]] ELSE <<q>>]
  BY <1>1 DEF IsChain
<1> DEFINE chain[q \in DOMAIN fs] == IF q \in DOMAIN to THEN <<to[q]>> \o chain[to[q]] ELSE <<q>>
<1>3. chain = [q \in DOMAIN fs |-> IF q \in DOMAIN to THEN <<to[q]>> \o chain[to[q]] ELSE <<q>>]
  BY <1>2 DEF chain
<1>4. Chain(fs, to) = chain
  BY DEF Chain
<1> HIDE DEF chain
<1> QED
  BY <1>3, <1>4

\* A chain goes from each link to what it leads to, and ends at a file that is none.
IsPath(c, to, p, D) ==
  /\ c \in Seq(D) /\ c # <<>>
  /\ c[1] = IF p \in DOMAIN to THEN to[p] ELSE p
  /\ \A m \in 2..Len(c) : c[m] = IF c[m - 1] \in DOMAIN to THEN to[c[m - 1]] ELSE c[m - 1]
  /\ c[Len(c)] \notin DOMAIN to

LEMMA ChainIsPath ==
  ASSUME NEW fs, NEW to, to \in [DOMAIN to -> DOMAIN fs], DOMAIN to \subseteq DOMAIN fs, Straight(to),
         NEW p \in DOMAIN fs
  PROVE  IsPath(Chain(fs, to)[p], to, p, DOMAIN fs)
<1> DEFINE D == DOMAIN fs
           c == Chain(fs, to)
           Bad == {q \in D : ~IsPath(c[q], to, q, D)}
<1>0. \A q \in D : c[q] = IF q \in DOMAIN to THEN <<to[q]>> \o c[to[q]] ELSE <<q>>
  BY ChainSteps
<1> HIDE DEF c
<1>1. SUFFICES ASSUME Bad # {} PROVE FALSE
  BY DEF c
<1>2. Bad \in SUBSET DOMAIN to
  <2> SUFFICES ASSUME NEW q \in D, q \notin DOMAIN to PROVE IsPath(<<q>>, to, q, D)
    BY <1>0
  <2> HIDE DEF D
  <2> QED BY DEF IsPath
<1>3. PICK q \in Bad : to[q] \notin Bad
  BY <1>1, <1>2 DEF Straight
<1>4. /\ q \in D /\ q \in DOMAIN to /\ to[q] \in D /\ IsPath(c[to[q]], to, to[q], D)
      /\ c[q] = <<to[q]>> \o c[to[q]]
  BY <1>0, <1>2, <1>3
<1> DEFINE r == to[q]
           s == c[r]
<1>5. s \in Seq(D) /\ s # <<>> /\ s[1] = (IF r \in DOMAIN to THEN to[r] ELSE r)
      /\ (\A m \in 2..Len(s) : s[m] = IF s[m - 1] \in DOMAIN to THEN to[s[m - 1]] ELSE s[m - 1])
      /\ s[Len(s)] \notin DOMAIN to /\ r \in D /\ c[q] = <<r>> \o s
  BY <1>4 DEF IsPath
<1> HIDE DEF r, s, D
<1>6. /\ <<r>> \o s \in Seq(D) /\ <<r>> \o s # <<>> /\ Len(<<r>> \o s) = Len(s) + 1 /\ Len(s) \in Nat \ {0}
      /\ (<<r>> \o s)[1] = r /\ \A m \in 2..(Len(s) + 1) : (<<r>> \o s)[m] = s[m - 1]
  BY <1>5
<1> DEFINE t == <<r>> \o s
<1>7. t \in Seq(D) /\ t # <<>> /\ Len(t) = Len(s) + 1 /\ Len(s) \in Nat \ {0}
      /\ t[1] = r /\ \A m \in 2..(Len(s) + 1) : t[m] = s[m - 1]
  BY <1>6
<1> HIDE DEF t
<1>8. ASSUME NEW m \in 2..Len(t)
      PROVE  t[m] = IF t[m - 1] \in DOMAIN to THEN to[t[m - 1]] ELSE t[m - 1]
  <2>1. CASE m = 2
    <3>1. 2 \in 2..(Len(s) + 1) /\ 2 - 1 = 1
      BY <1>7
    <3>2. t[2] = s[1] /\ t[2 - 1] = r
      BY <1>7, <3>1
    <3>3. s[1] = (IF r \in DOMAIN to THEN to[r] ELSE r)
      BY <1>5
    <3> QED BY <2>1, <3>2, <3>3
  <2>2. CASE m # 2
    <3>1. m - 1 \in 2..Len(s) /\ m - 1 \in 2..(Len(s) + 1) /\ m \in 2..(Len(s) + 1)
      BY <1>7, <2>2
    <3>2. t[m] = s[m - 1] /\ t[m - 1] = s[(m - 1) - 1]
      BY <1>7, <3>1
    <3>3. s[m - 1] = IF s[(m - 1) - 1] \in DOMAIN to THEN to[s[(m - 1) - 1]] ELSE s[(m - 1) - 1]
      BY <1>5, <3>1
    <3> QED BY <3>2, <3>3
  <2> QED BY <2>1, <2>2
<1>9. t[Len(t)] \notin DOMAIN to
  <2>1. Len(t) \in 2..(Len(s) + 1) /\ Len(t) - 1 = Len(s)
    BY <1>7
  <2>2. t[Len(t)] = s[Len(s)]
    BY <1>7, <2>1
  <2> QED BY <1>5, <2>2
<1>10. IsPath(t, to, q, D)
  BY <1>4, <1>7, <1>8, <1>9 DEF IsPath, r
<1> QED
  BY <1>3, <1>5, <1>10 DEF t
-----------------------------------------------------------------------------
(* Lists put together of others.                                            *)

IsFlattening(f, s, n) == f = [i \in 1..n |-> IF i = 1 THEN s[i] ELSE f[i - 1] \o s[i]]

LEMMA FlatteningExists ==
  ASSUME NEW s, NEW n \in Nat
  PROVE  \E f : IsFlattening(f, s, n)
<1> DEFINE Bad == {j \in Nat : ~\E f : IsFlattening(f, s, j)}
<1>1. SUFFICES ASSUME Bad # {} PROVE FALSE
  OBVIOUS
<1>2. PICK j \in Bad : \A i \in Bad : j <= i
  <2>1. Bad \in SUBSET Nat
    OBVIOUS
  <2> HIDE DEF Bad
  <2> QED BY <1>1, <2>1, NatMinimum
<1>3. j # 0
  <2> DEFINE f == [i \in 1..0 |-> s[i]]
  <2>1. IsFlattening(f, s, 0)
    BY DEF IsFlattening
  <2> QED BY <2>1
<1>4. j - 1 \in Nat /\ j - 1 \notin Bad
  <2>1. j \in Nat
    OBVIOUS
  <2> HIDE DEF Bad
  <2> QED BY <1>2, <1>3, <2>1
<1>5. PICK f : IsFlattening(f, s, j - 1)
  BY <1>4
<1> DEFINE g == [i \in 1..j |-> IF i = j THEN (IF j = 1 THEN s[j] ELSE f[j - 1] \o s[j]) ELSE f[i]]
<1>6. \A i \in 1..j : g[i] = IF i = 1 THEN s[i] ELSE g[i - 1] \o s[i]
  <2> TAKE i \in 1..j
  <2>1. CASE i = j
    BY <2>1, <1>3, <1>4
  <2>2. CASE i # j
    <3>1. i \in 1..(j - 1)
      BY <2>2
    <3>2. f[i] = IF i = 1 THEN s[i] ELSE f[i - 1] \o s[i]
      BY <3>1, <1>5 DEF IsFlattening
    <3> QED BY <3>1, <3>2, <2>2
  <2> QED BY <2>1, <2>2
<1>7. IsFlattening(g, s, j)
  BY <1>6 DEF IsFlattening
<1> QED BY <1>7

\* Where a member of such a list comes from, and what is before it.
From(list, s, n) ==
  \A m \in DOMAIN list : \E i \in 1..n : \E x \in DOMAIN s[i] :
    /\ list[m] = s[i][x]
    /\ \A z : z \in Earlier(list, m) <=> (\E b \in 1..(i - 1) : z \in Range(s[b])) \/ z \in Earlier(s[i], x)

LEMMA FromAppended ==
  ASSUME NEW D, NEW list \in Seq(D), NEW s, NEW n \in Nat, s[n + 1] \in Seq(D), From(list, s, n),
         \A z : z \in Range(list) <=> \E b \in 1..n : z \in Range(s[b])
  PROVE  /\ From(list \o s[n + 1], s, n + 1)
         /\ \A z : z \in Range(list \o s[n + 1]) <=> \E b \in 1..(n + 1) : z \in Range(s[b])
<1> DEFINE t == s[n + 1]
           u == list \o t
<1>1. t \in Seq(D)
  OBVIOUS
<1> HIDE DEF t
<1>2. /\ u \in Seq(D) /\ Len(list) \in Nat /\ Len(t) \in Nat /\ Len(u) = Len(list) + Len(t)
      /\ DOMAIN u = 1..Len(u) /\ DOMAIN list = 1..Len(list) /\ DOMAIN t = 1..Len(t)
      /\ \A m \in 1..Len(list) : u[m] = list[m]
      /\ \A m \in 1..Len(t) : u[Len(list) + m] = t[m]
  BY <1>1
<1> HIDE DEF u
<1>3. \A z : z \in Range(u) <=> z \in Range(list) \/ z \in Range(t)
  <2>1. ASSUME NEW m \in DOMAIN u PROVE u[m] \in Range(list) \/ u[m] \in Range(t)
    <3>1. CASE m \in 1..Len(list)
      BY <1>2, <3>1 DEF Range
    <3>2. CASE m \notin 1..Len(list)
      <4>1. m - Len(list) \in 1..Len(t) /\ m = Len(list) + (m - Len(list))
        BY <1>2, <3>2
      <4> QED BY <1>2, <4>1 DEF Range
    <3> QED BY <3>1, <3>2
  <2>2. ASSUME NEW m \in DOMAIN list PROVE list[m] \in Range(u)
    <3>1. m \in DOMAIN u /\ u[m] = list[m]
      BY <1>2
    <3> QED BY <3>1 DEF Range
  <2>3. ASSUME NEW m \in DOMAIN t PROVE t[m] \in Range(u)
    <3>1. Len(list) + m \in DOMAIN u /\ u[Len(list) + m] = t[m]
      BY <1>2
    <3> QED BY <3>1 DEF Range
  <2> QED BY <2>1, <2>2, <2>3 DEF Range
<1>4. \A z : z \in Range(u) <=> \E b \in 1..(n + 1) : z \in Range(s[b])
  BY <1>3 DEF t
<1>5. ASSUME NEW m \in DOMAIN u
      PROVE  \E i \in 1..(n + 1) : \E x \in DOMAIN s[i] :
               /\ u[m] = s[i][x]
               /\ \A z : z \in Earlier(u, m) <=>
                           (\E b \in 1..(i - 1) : z \in Range(s[b])) \/ z \in Earlier(s[i], x)
  <2>1. CASE m \in DOMAIN list
    <3>1. u[m] = list[m] /\ \A z : z \in Earlier(u, m) <=> z \in Earlier(list, m)
      <4>1. \A x \in 1..(m - 1) : x \in 1..Len(list)
        BY <1>2, <2>1
      <4> QED BY <1>2, <2>1, <4>1 DEF Earlier
    <3>2. PICK i \in 1..n : \E x \in DOMAIN s[i] :
            /\ list[m] = s[i][x]
            /\ \A z : z \in Earlier(list, m) <=>
                        (\E b \in 1..(i - 1) : z \in Range(s[b])) \/ z \in Earlier(s[i], x)
      BY <2>1 DEF From
    <3>3. i \in 1..(n + 1)
      OBVIOUS
    <3> QED BY <3>1, <3>2, <3>3
  <2>2. CASE m \notin DOMAIN list
    <3> DEFINE x == m - Len(list)
    <3>1. x \in 1..Len(t) /\ m = Len(list) + x
      BY <1>2, <2>2
    <3> HIDE DEF x
    <3>2. u[m] = t[x] /\ x \in DOMAIN t
      BY <1>2, <3>1
    <3>3. \A z : z \in Earlier(u, m) <=> z \in Range(list) \/ z \in Earlier(t, x)
      <4>1. ASSUME NEW y \in 1..(m - 1) PROVE u[y] \in Range(list) \/ u[y] \in Earlier(t, x)
        <5>1. CASE y \in 1..Len(list)
          BY <1>2, <5>1 DEF Range
        <5>2. CASE y \notin 1..Len(list)
          <6>1. y - Len(list) \in 1..(x - 1) /\ y - Len(list) \in 1..Len(t) /\ y = Len(list) + (y - Len(list))
            BY <1>2, <3>1, <5>2
          <6> QED BY <1>2, <6>1 DEF Earlier
        <5> QED BY <5>1, <5>2
      <4>2. ASSUME NEW y \in DOMAIN list PROVE list[y] \in Earlier(u, m)
        <5>1. y \in 1..(m - 1) /\ u[y] = list[y]
          BY <1>2, <3>1
        <5> QED BY <5>1 DEF Earlier
      <4>3. ASSUME NEW y \in 1..(x - 1) PROVE t[y] \in Earlier(u, m)
        <5>1. Len(list) + y \in 1..(m - 1) /\ u[Len(list) + y] = t[y]
          BY <1>2, <3>1
        <5> QED BY <5>1 DEF Earlier
      <4> QED BY <4>1, <4>2, <4>3 DEF Earlier, Range
    <3>4. (n + 1) - 1 = n /\ n + 1 \in 1..(n + 1)
      OBVIOUS
    <3> QED BY <3>2, <3>3, <3>4 DEF t
  <2> QED BY <2>1, <2>2
<1> QED
  BY <1>4, <1>5 DEF From, u, t

LEMMA Flattened ==
  ASSUME NEW D, NEW s, NEW n \in Nat, s = [i \in 1..n |-> s[i]], \A i \in 1..n : s[i] \in Seq(D)
  PROVE  /\ FlattenSeq(s) \in Seq(D) /\ From(FlattenSeq(s), s, n)
         /\ \A z : z \in Range(FlattenSeq(s)) <=> \E i \in 1..n : z \in Range(s[i])
<1>1. DOMAIN s = 1..n /\ Len(s) = n
  OBVIOUS
<1>2. CASE n = 0
  <2>1. s = <<>>
    BY <1>2
  <2>2. FlattenSeq(s) = <<>>
    BY <1>1, <1>2, <2>1 DEF FlattenSeq
  <2> DEFINE e == FlattenSeq(s)
  <2>3. DOMAIN e = {} /\ e \in Seq(D)
    BY <2>2
  <2> HIDE DEF e
  <2>4. From(e, s, n) /\ \A z : z \notin Range(e)
    BY <2>3 DEF From, Range
  <2>5. \A z : ~\E i \in 1..n : z \in Range(s[i])
    BY <1>2
  <2> QED BY <2>3, <2>4, <2>5 DEF e
<1>3. CASE n # 0
  <2>1. PICK f : IsFlattening(f, s, n)
    BY FlatteningExists
  <2> DEFINE flatten[i \in 1..Len(s)] == IF i = 1 THEN s[i] ELSE flatten[i - 1] \o s[i]
  <2>2. flatten = [i \in 1..Len(s) |-> IF i = 1 THEN s[i] ELSE flatten[i - 1] \o s[i]]
    <3>1. f = [i \in 1..Len(s) |-> IF i = 1 THEN s[i] ELSE f[i - 1] \o s[i]]
      BY <1>1, <2>1 DEF IsFlattening
    <3> QED BY <3>1 DEF flatten
  <2>3. FlattenSeq(s) = flatten[Len(s)]
    BY <1>1, <1>3 DEF FlattenSeq
  <2> HIDE DEF flatten
  <2>4. \A i \in 1..n : flatten[i] = IF i = 1 THEN s[i] ELSE flatten[i - 1] \o s[i]
    BY <1>1, <2>2
  <2> DEFINE Good(i) == /\ flatten[i] \in Seq(D) /\ From(flatten[i], s, i)
                        /\ \A z : z \in Range(flatten[i]) <=> \E b \in 1..i : z \in Range(s[b])
             Bad == {i \in 1..n : ~Good(i)}
  <2>5. SUFFICES ASSUME Bad # {} PROVE FALSE
    <3>1. n \notin Bad => Good(n)
      BY <1>3
    <3>2. Good(n) => /\ FlattenSeq(s) \in Seq(D) /\ From(FlattenSeq(s), s, n)
                     /\ \A z : z \in Range(FlattenSeq(s)) <=> \E b \in 1..n : z \in Range(s[b])
      BY <1>1, <2>3
    <3> HIDE DEF Bad, Good
    <3>3. ASSUME Bad = {} PROVE n \notin Bad
      BY <3>3
    <3>4. CASE Bad = {}
      BY <3>1, <3>2, <3>3, <3>4
    <3> QED BY <3>4
  <2>6. PICK i \in Bad : \A j \in Bad : i <= j
    <3>1. Bad \in SUBSET Nat
      OBVIOUS
    <3> HIDE DEF Bad
    <3> QED BY <2>5, <3>1, NatMinimum
  <2>7. i \in 1..n /\ s[i] \in Seq(D)
    OBVIOUS
  <2>8. CASE i = 1
    <3>1. flatten[1] = s[1]
      BY <2>4, <2>7, <2>8
    <3>2. From(s[1], s, 1)
      <4> SUFFICES ASSUME NEW m \in DOMAIN s[1]
                   PROVE  \E b \in 1..1 : \E x \in DOMAIN s[b] :
                            /\ s[1][m] = s[b][x]
                            /\ \A z : z \in Earlier(s[1], m) <=>
                                 (\E a \in 1..(b - 1) : z \in Range(s[a])) \/ z \in Earlier(s[b], x)
        BY DEF From
      <4>1. \A z : ~\E a \in 1..(1 - 1) : z \in Range(s[a])
        OBVIOUS
      <4> QED BY <4>1
    <3>3. Good(1)
      <4>1. 1..1 = {1}
        OBVIOUS
      <4> QED BY <2>7, <2>8, <3>1, <3>2, <4>1
    <3> QED BY <2>8, <3>3
  <2>9. CASE i # 1
    <3>1. i - 1 \in 1..n /\ i - 1 \in Nat /\ (i - 1) + 1 = i
      BY <2>7, <2>9
    <3>2. Good(i - 1)
      <4>1. ~(i <= i - 1)
        BY <2>7
      <4>2. i - 1 \notin Bad
        BY <2>6, <4>1
      <4> QED BY <3>1, <4>2
    <3>3. flatten[i] = flatten[i - 1] \o s[i]
      BY <2>4, <2>7, <2>9
    <3>4. flatten[i] \in Seq(D)
      BY <2>7, <3>2, <3>3
    <3>5. /\ From(flatten[i - 1] \o s[i], s, i)
          /\ \A z : z \in Range(flatten[i - 1] \o s[i]) <=> \E b \in 1..i : z \in Range(s[b])
      <4> DEFINE j == i - 1
      <4>1. /\ j \in Nat /\ j + 1 = i /\ s[j + 1] \in Seq(D) /\ flatten[j] \in Seq(D) /\ From(flatten[j], s, j)
            /\ \A z : z \in Range(flatten[j]) <=> \E b \in 1..j : z \in Range(s[b])
        BY <2>7, <3>1, <3>2
      <4> HIDE DEF j
      <4>2. /\ From(flatten[j] \o s[j + 1], s, j + 1)
            /\ \A z : z \in Range(flatten[j] \o s[j + 1]) <=> \E b \in 1..(j + 1) : z \in Range(s[b])
        BY <4>1, FromAppended
      <4> QED BY <4>1, <4>2 DEF j
    <3>6. Good(i)
      BY <3>3, <3>4, <3>5
    <3> QED BY <3>6
  <2> QED BY <2>8, <2>9
<1> QED
  BY <1>2, <1>3

\* A list without the members known: the others once, in their order; what was before
\* one of them is known or still before it.
LEMMA WithoutSound ==
  ASSUME NEW D, NEW list \in Seq(D), NEW known
  PROVE  /\ Without(list, known) \in Seq(D)
         /\ \A z : z \in Range(Without(list, known)) <=> z \in Range(list) /\ z \notin known
         /\ \A m \in DOMAIN Without(list, known) : \E i \in DOMAIN list :
              /\ Without(list, known)[m] = list[i]
              /\ Without(list, known)[m] \notin known \cup Earlier(Without(list, known), m)
              /\ \A z \in Earlier(list, i) : z \in known \cup Earlier(Without(list, known), m)
<1> DEFINE n == Len(list)
           s == [i \in DOMAIN list |->
                   IF list[i] \in known \cup Earlier(list, i) THEN <<>> ELSE <<list[i]>>]
           w == FlattenSeq(s)
<1>1. n \in Nat /\ DOMAIN list = 1..n /\ \A i \in 1..n : list[i] \in D
  OBVIOUS
<1>2. /\ s = [i \in 1..n |-> s[i]]
      /\ \A i \in 1..n : s[i] = IF list[i] \in known \cup Earlier(list, i) THEN <<>> ELSE <<list[i]>>
  BY <1>1
<1> HIDE DEF n, s
<1>3. \A i \in 1..n : /\ s[i] \in Seq(D)
                      /\ \A x \in DOMAIN s[i] : /\ x = 1 /\ s[i][x] = list[i]
                                                /\ list[i] \notin known \cup Earlier(list, i)
                      /\ list[i] \notin known \cup Earlier(list, i) => 1 \in DOMAIN s[i]
  <2> TAKE i \in 1..n
  <2>1. CASE list[i] \in known \cup Earlier(list, i)
    <3>1. s[i] = <<>>
      BY <1>2, <2>1
    <3> QED BY <2>1, <3>1
  <2>2. CASE list[i] \notin known \cup Earlier(list, i)
    <3>1. s[i] = <<list[i]>>
      BY <1>2, <2>2
    <3> QED BY <1>1, <2>2, <3>1
  <2> QED BY <2>1, <2>2
<1>4. /\ w \in Seq(D) /\ From(w, s, n)
      /\ \A z : z \in Range(w) <=> \E i \in 1..n : z \in Range(s[i])
  BY <1>1, <1>2, <1>3, Flattened
<1> HIDE DEF w
\* The first member of its kind is listed, unless it is known.
<1>5. ASSUME NEW b \in 1..n, list[b] \notin known
      PROVE  \E c \in 1..b : list[b] \in Range(s[c])
  <2> DEFINE Same == {c \in 1..b : list[c] = list[b]}
  <2>1. Same \in SUBSET Nat /\ Same # {}
    <3>1. b \in Same
      OBVIOUS
    <3> QED BY <3>1
  <2>2. PICK c \in Same : \A y \in Same : c <= y
    <3> HIDE DEF Same
    <3> QED BY <2>1, NatMinimum
  <2>3. c \in 1..b /\ c \in 1..n /\ list[c] = list[b]
    BY <1>1
  <2>4. list[c] \notin Earlier(list, c)
    <3>1. ASSUME NEW y \in 1..(c - 1), list[y] = list[c] PROVE FALSE
      <4>1. y \in Same /\ ~(c <= y)
        BY <2>3, <3>1
      <4> QED BY <2>2, <4>1
    <3> QED BY <3>1 DEF Earlier
  <2>5. 1 \in DOMAIN s[c] /\ s[c][1] = list[b]
    BY <1>3, <1>5, <2>3, <2>4
  <2> QED BY <2>3, <2>5 DEF Range
<1>6. \A z : z \in Range(w) <=> z \in Range(list) /\ z \notin known
  <2>1. ASSUME NEW i \in 1..n, NEW z \in Range(s[i]) PROVE z \in Range(list) /\ z \notin known
    <3>1. PICK x \in DOMAIN s[i] : z = s[i][x]
      BY <2>1 DEF Range
    <3> QED BY <1>1, <1>3, <3>1 DEF Range
  <2>2. ASSUME NEW z \in Range(list), z \notin known PROVE \E i \in 1..n : z \in Range(s[i])
    <3>1. PICK b \in 1..n : z = list[b]
      BY <1>1, <2>2 DEF Range
    <3>2. PICK c \in 1..b : list[b] \in Range(s[c])
      BY <1>5, <2>2, <3>1
    <3>3. c \in 1..n
      BY <1>1
    <3> QED BY <3>1, <3>2, <3>3
  <2> QED BY <1>4, <2>1, <2>2
<1>7. ASSUME NEW m \in DOMAIN w
      PROVE  \E i \in DOMAIN list : /\ w[m] = list[i] /\ w[m] \notin known \cup Earlier(w, m)
                                    /\ \A z \in Earlier(list, i) : z \in known \cup Earlier(w, m)
  <2>1. PICK i \in 1..n : \E x \in DOMAIN s[i] :
          /\ w[m] = s[i][x]
          /\ \A z : z \in Earlier(w, m) <=> (\E b \in 1..(i - 1) : z \in Range(s[b])) \/ z \in Earlier(s[i], x)
    BY <1>4 DEF From
  <2>2. PICK x \in DOMAIN s[i] :
          /\ w[m] = s[i][x]
          /\ \A z : z \in Earlier(w, m) <=> (\E b \in 1..(i - 1) : z \in Range(s[b])) \/ z \in Earlier(s[i], x)
    BY <2>1
  <2>3. x = 1 /\ w[m] = list[i] /\ list[i] \notin known \cup Earlier(list, i)
    BY <1>3, <2>2
  <2>4. \A z : z \notin Earlier(s[i], 1)
    BY DEF Earlier
  <2>5. \A z : z \in Earlier(w, m) <=> \E b \in 1..(i - 1) : z \in Range(s[b])
    BY <2>2, <2>3, <2>4
  <2>6. list[i] \notin Earlier(w, m)
    <3>1. ASSUME NEW b \in 1..(i - 1), list[i] \in Range(s[b]) PROVE FALSE
      <4>1. b \in 1..n
        BY <1>1
      <4>2. list[b] = list[i]
        BY <1>3, <3>1, <4>1 DEF Range
      <4> QED BY <2>3, <4>2 DEF Earlier
    <3> QED BY <2>5, <3>1
  <2>7. ASSUME NEW z \in Earlier(list, i), z \notin known PROVE z \in Earlier(w, m)
    <3>1. PICK b \in 1..(i - 1) : z = list[b]
      BY <2>7 DEF Earlier
    <3>2. b \in 1..n
      BY <1>1
    <3>3. PICK c \in 1..b : list[b] \in Range(s[c])
      BY <1>5, <2>7, <3>1, <3>2
    <3>4. c \in 1..(i - 1)
      BY <1>1
    <3> QED BY <2>5, <3>1, <3>3, <3>4
  <2> QED BY <1>1, <2>3, <2>6, <2>7
<1>8. Without(list, known) = w
  BY DEF Without, w, s
<1> QED
  BY <1>4, <1>6, <1>7, <1>8
-----------------------------------------------------------------------------
(* Links, and what followSymlinks lists.                                    *)

FileSystem == [Paths -> File]

\* The kinds of files, told apart.
LEMMA FileKinds ==
  ASSUME NEW f \in File
  PROVE  /\ f[1] = "link" => f[2] \in (Dirs \cup {"."}) \X Names
         /\ f[1] = "elf" => f[2] \in Seq(Names)
<1>1. CASE f = <<"none">>
  BY <1>1
<1>2. CASE f \in {"elf"} \X Seq(Names)
  BY <1>2
<1>3. CASE f \in {"link"} \X ((Dirs \cup {"."}) \X Names)
  BY <1>3
<1> QED
  BY <1>1, <1>2, <1>3 DEF File

LEMMA TargetTyped ==
  ASSUME NEW fs \in FileSystem, NEW dir \in Dirs, NEW p \in Links(fs)
  PROVE  Target(fs, dir, p) \in Paths
<1>1. fs[p] \in File /\ fs[p][1] = "link"
  BY DEF Links, FileSystem
<1>2. fs[p][2] \in (Dirs \cup {"."}) \X Names
  BY <1>1, FileKinds
<1> DEFINE target == fs[p][2]
<1>3. target[1] \in Dirs \cup {"."} /\ target[2] \in Names /\ target = <<target[1], target[2]>>
  BY <1>2
<1> HIDE DEF target
<1>4. CASE target[1] = "."
  <2>1. Target(fs, dir, p) = <<dir, target[2]>>
    BY <1>4 DEF Target, target
  <2> QED BY <1>3, <2>1 DEF Paths
<1>5. CASE target[1] # "."
  <2>1. Target(fs, dir, p) = target
    BY <1>5 DEF Target, target
  <2>2. target[1] \in Dirs
    BY <1>3, <1>5
  <2> QED BY <1>3, <2>1, <2>2 DEF Paths
<1> QED
  BY <1>4, <1>5

\* A file system without links in a circle.
Sane(fs) == /\ fs \in FileSystem /\ Straight(OwnTargets(fs))
            /\ \A dir \in Dirs : Straight(TargetsFrom(fs, dir))

LEMMA RealTyped ==
  ASSUME NEW fs, Sane(fs), NEW p \in Paths
  PROVE  Real(fs, p) \in Paths
<1> DEFINE to == OwnTargets(fs)
           c == Chain(fs, to)[p]
<1>1. fs \in FileSystem /\ DOMAIN fs = Paths
  BY DEF Sane, FileSystem
<1>2. to = [q \in Links(fs) |-> Target(fs, q[1], q)] /\ DOMAIN to = Links(fs) /\ Links(fs) \subseteq Paths
  BY <1>1 DEF OwnTargets, Links
<1>3. to \in [DOMAIN to -> Paths]
  <2>1. \A q \in Links(fs) : q[1] \in Dirs
    BY <1>2 DEF Paths
  <2>2. \A q \in Links(fs) : Target(fs, q[1], q) \in Paths
    BY <1>1, <2>1, TargetTyped
  <2> HIDE DEF to
  <2> QED BY <1>2, <2>2
<1>4. Straight(to)
  BY DEF Sane
<1> HIDE DEF to
<1>5. IsPath(c, to, p, Paths)
  BY <1>1, <1>2, <1>3, <1>4, ChainIsPath
<1>6. c[Len(c)] \in Paths
  <2>1. c \in Seq(Paths) /\ c # <<>>
    BY <1>5 DEF IsPath
  <2> HIDE DEF c
  <2> QED BY <2>1
<1> QED
  BY <1>6 DEF Real, Last, c, to

LEMMA FollowSymlinksIsPath ==
  ASSUME NEW fs, Sane(fs), NEW file \in Paths
  PROVE  IsPath(followSymlinks(fs, file), TargetsFrom(fs, file[1]), file, Paths)
<1> DEFINE dir == file[1]
           to == TargetsFrom(fs, dir)
<1>1. fs \in FileSystem /\ DOMAIN fs = Paths /\ dir \in Dirs
  BY DEF Sane, FileSystem, Paths
<1> HIDE DEF dir
<1>2. to = [q \in Links(fs) |-> Target(fs, dir, q)] /\ DOMAIN to = Links(fs) /\ Links(fs) \subseteq Paths
  BY <1>1 DEF TargetsFrom, Links
<1>3. to \in [DOMAIN to -> Paths]
  <2>1. \A q \in Links(fs) : Target(fs, dir, q) \in Paths
    BY <1>1, TargetTyped
  <2> HIDE DEF to
  <2> QED BY <1>2, <2>1
<1>4. Straight(to)
  BY <1>1 DEF Sane
<1> HIDE DEF to
<1>5. IsPath(Chain(fs, to)[file], to, file, Paths)
  BY <1>1, <1>2, <1>3, <1>4, ChainIsPath
<1> QED
  BY <1>5 DEF followSymlinks, to, dir

\* The file itself and what followSymlinks makes of it, as ldd and resolve list it.
Block(fs, file) == <<file>> \o followSymlinks(fs, file)

LEMMA BlockTyped ==
  ASSUME NEW fs, Sane(fs), NEW file \in Paths
  PROVE  /\ Block(fs, file) \in Seq(Paths) /\ Len(Block(fs, file)) = Len(followSymlinks(fs, file)) + 1
         /\ Len(followSymlinks(fs, file)) \in Nat \ {0}
         /\ Block(fs, file)[1] = file /\ file \in Range(Block(fs, file))
         /\ \A m \in 1..Len(followSymlinks(fs, file)) :
              Block(fs, file)[m + 1] = followSymlinks(fs, file)[m]
<1> DEFINE c == followSymlinks(fs, file)
           b == <<file>> \o c
<1>1. c \in Seq(Paths) /\ c # <<>>
  BY FollowSymlinksIsPath DEF IsPath
<1> HIDE DEF c
<1>2. b \in Seq(Paths) /\ Len(b) = Len(c) + 1 /\ Len(c) \in Nat \ {0} /\ b[1] = file
      /\ \A m \in 1..Len(c) : b[m + 1] = c[m]
  BY <1>1
<1> HIDE DEF b
<1>3. 1 \in DOMAIN b
  BY <1>2
<1>4. file \in Range(b)
  BY <1>2, <1>3 DEF Range
<1> QED
  BY <1>2, <1>4 DEF Block, b, c

\* The first of a block is the file, each of the others the target of the link before it, or
\* once more the file before it, which is then no link.
LEMMA BlockSteps ==
  ASSUME NEW fs, Sane(fs), NEW file \in Paths, NEW x \in 2..Len(Block(fs, file))
  PROVE  /\ Block(fs, file)[x - 1] \in Paths
         /\ Block(fs, file)[x] = IF Block(fs, file)[x - 1] \in Links(fs)
                                 THEN Target(fs, file[1], Block(fs, file)[x - 1])
                                 ELSE Block(fs, file)[x - 1]
<1> DEFINE c == followSymlinks(fs, file)
           b == Block(fs, file)
           to == TargetsFrom(fs, file[1])
<1>1. IsPath(c, to, file, Paths)
  BY FollowSymlinksIsPath
<1>2. DOMAIN to = Links(fs) /\ \A q \in Links(fs) : to[q] = Target(fs, file[1], q)
  BY DEF TargetsFrom
<1>3. /\ b \in Seq(Paths) /\ Len(b) = Len(c) + 1 /\ Len(c) \in Nat \ {0} /\ b[1] = file
      /\ \A m \in 1..Len(c) : b[m + 1] = c[m]
  BY BlockTyped
<1>4. x \in 2..Len(b)
  OBVIOUS
<1> HIDE DEF b, c, to
<1>5. b[x] = c[x - 1]
  <2>1. x - 1 \in 1..Len(c) /\ (x - 1) + 1 = x
    BY <1>3, <1>4
  <2> QED BY <1>3, <2>1
<1>6. b[x] = IF b[x - 1] \in DOMAIN to THEN to[b[x - 1]] ELSE b[x - 1]
  <2>1. CASE x = 2
    <3>1. b[x - 1] = file /\ b[x] = c[1]
      BY <1>3, <1>5, <2>1
    <3> QED BY <1>1, <3>1 DEF IsPath
  <2>2. CASE x # 2
    <3>1. x - 1 \in 2..Len(c) /\ (x - 1) - 1 \in 1..Len(c) /\ ((x - 1) - 1) + 1 = x - 1
      BY <1>3, <1>4, <2>2
    <3>2. b[x - 1] = c[(x - 1) - 1]
      BY <1>3, <3>1
    <3>3. c[x - 1] = IF c[(x - 1) - 1] \in DOMAIN to THEN to[c[(x - 1) - 1]] ELSE c[(x - 1) - 1]
      BY <1>1, <3>1 DEF IsPath
    <3> QED BY <1>5, <3>2, <3>3
  <2> QED BY <2>1, <2>2
<1>7. b[x - 1] \in Paths
  BY <1>3, <1>4
<1> QED
  BY <1>2, <1>6, <1>7 DEF b

\* When the links agree, each of a block leads where the operating system takes it.
LEMMA BlockAgrees ==
  ASSUME NEW fs, Sane(fs), Agree(fs), NEW file \in Paths, NEW x \in DOMAIN Block(fs, file),
         Block(fs, file)[x] \in Links(fs)
  PROVE  Target(fs, file[1], Block(fs, file)[x])
           = Target(fs, Block(fs, file)[x][1], Block(fs, file)[x])
<1> DEFINE b == Block(fs, file)
           q == b[x]
           r == b[x - 1]
<1>1. b \in Seq(Paths) /\ b[1] = file /\ x \in DOMAIN b
  BY BlockTyped
<1> SUFFICES Target(fs, file[1], q) = Target(fs, q[1], q)
  OBVIOUS
<1> HIDE DEF b
<1>2. CASE x = 1
  <2>1. q = file
    BY <1>1, <1>2
  <2> HIDE DEF q
  <2> QED BY <2>1
<1>3. CASE x # 1
  <2>1. x \in 2..Len(b)
    BY <1>1, <1>3
  <2>2. r \in Paths /\ q = IF r \in Links(fs) THEN Target(fs, file[1], r) ELSE r
    BY <2>1, BlockSteps DEF b
  <2>3. q \in Links(fs)
    BY DEF b
  <2> HIDE DEF q, r
  <2>4. r \in Links(fs) /\ q = Target(fs, file[1], r)
    BY <2>2, <2>3
  <2>5. CASE fs[r][2][1] = "."
    <3>1. q[1] = file[1]
      BY <2>4, <2>5 DEF Target
    <3> QED BY <3>1
  <2>6. CASE fs[r][2][1] # "."
    <3>1. q = fs[r][2]
      BY <2>4, <2>6 DEF Target
    <3>2. fs[q][2][1] # "."
      BY <2>3, <2>4, <2>6, <3>1 DEF Agree, Links
    <3>3. Target(fs, file[1], q) = fs[q][2] /\ Target(fs, q[1], q) = fs[q][2]
      BY <3>2 DEF Target
    <3> QED BY <3>3
  <2> QED BY <2>5, <2>6
<1> QED
  BY <1>2, <1>3

\* So each of it, but for the file and what is listed twice, is where one before it leads,
LEMMA BlockExplained ==
  ASSUME NEW fs, Sane(fs), Agree(fs), NEW file \in Paths, NEW x \in DOMAIN Block(fs, file), x # 1
  PROVE  /\ Block(fs, file)[x - 1] \in Earlier(Block(fs, file), x)
         /\ \/ Block(fs, file)[x] = Block(fs, file)[x - 1]
            \/ /\ fs[Block(fs, file)[x - 1]][1] = "link"
               /\ Block(fs, file)[x]
                    = Target(fs, Block(fs, file)[x - 1][1], Block(fs, file)[x - 1])
<1> DEFINE b == Block(fs, file)
           r == b[x - 1]
<1>1. b \in Seq(Paths) /\ x \in DOMAIN b
  BY BlockTyped
<1> HIDE DEF b
<1>2. x \in 2..Len(b) /\ x - 1 \in DOMAIN b /\ x - 1 \in 1..(x - 1)
  BY <1>1
<1>3. b[x] = IF r \in Links(fs) THEN Target(fs, file[1], r) ELSE r
  BY <1>2, BlockSteps DEF b
<1>4. r \in Links(fs) => Target(fs, file[1], r) = Target(fs, r[1], r)
  BY <1>2, BlockAgrees DEF b
<1>5. r \in Earlier(b, x)
  BY <1>2 DEF Earlier
<1> QED
  BY <1>3, <1>4, <1>5 DEF b, Links

\* A set of files that has the target of each link in it.
Closed(fs, S) == \A f \in S : f \in Links(fs) => Target(fs, f[1], f) \in S

\* and no link of it is without its target.
LEMMA BlockClosed ==
  ASSUME NEW fs, Sane(fs), Agree(fs), NEW file \in Paths
  PROVE  Closed(fs, Range(Block(fs, file)))
<1> DEFINE b == Block(fs, file)
           c == followSymlinks(fs, file)
           to == TargetsFrom(fs, file[1])
<1>1. SUFFICES ASSUME NEW x \in DOMAIN b, b[x] \in Links(fs) PROVE Target(fs, b[x][1], b[x]) \in Range(b)
  BY DEF Closed, Range
<1>2. /\ b \in Seq(Paths) /\ Len(b) = Len(c) + 1 /\ Len(c) \in Nat \ {0}
      /\ \A m \in 1..Len(c) : b[m + 1] = c[m]
  BY BlockTyped
<1>3. c[Len(c)] \notin Links(fs)
  BY FollowSymlinksIsPath DEF IsPath, TargetsFrom
<1>4. Target(fs, file[1], b[x]) = Target(fs, b[x][1], b[x])
  BY <1>1, BlockAgrees
<1>5. x # Len(b)
  <2> HIDE DEF b, c
  <2>1. b[Len(b)] = c[Len(c)]
    BY <1>2
  <2> QED BY <1>1, <1>3, <2>1
<1>6. x + 1 \in 2..Len(b) /\ x + 1 \in DOMAIN b /\ (x + 1) - 1 = x
  <2> HIDE DEF b, c
  <2> QED BY <1>1, <1>2, <1>5
<1>7. b[x + 1] = Target(fs, file[1], b[x])
  <2>1. b[x + 1] = IF b[(x + 1) - 1] \in Links(fs) THEN Target(fs, file[1], b[(x + 1) - 1])
                   ELSE b[(x + 1) - 1]
    BY <1>6, BlockSteps
  <2> HIDE DEF b
  <2> QED BY <1>1, <1>6, <2>1
<1> HIDE DEF b
<1> QED
  BY <1>4, <1>6, <1>7 DEF Range
-----------------------------------------------------------------------------
(* What ldd lists for a file.                                               *)

LEMMA NeededTyped ==
  ASSUME NEW fs, Sane(fs), NEW p \in Paths
  PROVE  Needed(fs, p) \in Seq(Names)
<1>1. Real(fs, p) \in Paths
  BY RealTyped
<1>2. fs[Real(fs, p)] \in File
  BY <1>1 DEF Sane, FileSystem
<1>3. Opens(fs, p) => fs[Real(fs, p)][2] \in Seq(Names)
  BY <1>2, FileKinds DEF Opens
<1>4. <<>> \in Seq(Names)
  OBVIOUS
<1> QED
  BY <1>3, <1>4 DEF Needed

\* The first directory that has a library.
LEMMA LocatedTyped ==
  ASSUME NEW fs, NEW dirs \in Seq(Dirs), NEW name \in Names, Found(fs, dirs, name)
  PROVE  Located(fs, dirs, name) \in Paths
<1> DEFINE Has == {i \in DOMAIN dirs : Exists(fs, <<dirs[i], name>>)}
           First(i) == /\ Exists(fs, <<dirs[i], name>>)
                       /\ \A j \in 1..(i - 1) : ~Exists(fs, <<dirs[j], name>>)
<1>1. Has \in SUBSET Nat /\ Has # {}
  <2>1. DOMAIN dirs \in SUBSET Nat
    OBVIOUS
  <2>2. PICK i \in DOMAIN dirs : Exists(fs, <<dirs[i], name>>)
    BY DEF Found
  <2>3. i \in Has
    BY <2>2
  <2> QED BY <2>1, <2>3
<1>2. PICK i \in Has : \A j \in Has : i <= j
  <2> HIDE DEF Has
  <2> QED BY <1>1, NatMinimum
<1>3. First(i)
  <2>1. ASSUME NEW j \in 1..(i - 1), Exists(fs, <<dirs[j], name>>) PROVE FALSE
    <3>1. i \in DOMAIN dirs /\ DOMAIN dirs = 1..Len(dirs) /\ Len(dirs) \in Nat
      OBVIOUS
    <3>2. j \in DOMAIN dirs /\ ~(i <= j)
      BY <3>1
    <3> QED BY <1>2, <2>1, <3>2
  <2> QED BY <2>1
<1>4. (CHOOSE k \in DOMAIN dirs : First(k)) \in DOMAIN dirs
  <2>1. i \in DOMAIN dirs
    OBVIOUS
  <2> HIDE DEF First, Has
  <2> QED BY <1>3, <2>1
<1> DEFINE k == CHOOSE k \in DOMAIN dirs : First(k)
<1>5. Located(fs, dirs, name) = <<dirs[k], name>>
  BY DEF Located
<1> HIDE DEF k
<1>6. dirs[k] \in Dirs
  BY <1>4 DEF k
<1> QED
  BY <1>5, <1>6 DEF Paths

\* It lists a block for each library the file needs.
LEMMA lddBlocks ==
  ASSUME NEW fs, Sane(fs), NEW dirs \in Seq(Dirs), NEW p \in Paths, lddSucceeds(fs, dirs, p)
  PROVE  \E n \in Nat : \E file \in [1..n -> Paths] : \E s :
           /\ n = Len(Needed(fs, p)) /\ DOMAIN Needed(fs, p) = 1..n
           /\ \A i \in 1..n : /\ Found(fs, dirs, Needed(fs, p)[i])
                              /\ file[i] = Located(fs, dirs, Needed(fs, p)[i])
                              /\ s[i] = Block(fs, file[i])
           /\ ldd(fs, dirs, p) \in Seq(Paths) /\ From(ldd(fs, dirs, p), s, n)
           /\ \A z : z \in Range(ldd(fs, dirs, p)) <=> \E i \in 1..n : z \in Range(s[i])
<1> DEFINE needed == Needed(fs, p)
           n == Len(needed)
           file == [i \in 1..n |-> Located(fs, dirs, needed[i])]
           s == [i \in DOMAIN needed |->
                   LET f == Located(fs, dirs, needed[i]) IN <<f>> \o followSymlinks(fs, f)]
<1>1. needed \in Seq(Names)
  BY NeededTyped
<1>2. \A i \in DOMAIN needed : Found(fs, dirs, needed[i])
  BY DEF lddSucceeds
<1>3. ldd(fs, dirs, p) = FlattenSeq(s)
  BY DEF ldd
<1>4. n \in Nat /\ DOMAIN needed = 1..n /\ \A i \in 1..n : needed[i] \in Names
  <2> HIDE DEF needed
  <2> QED BY <1>1
<1>5. \A i \in 1..n : s[i] = Block(fs, Located(fs, dirs, needed[i]))
  <2> HIDE DEF needed, n
  <2> QED BY <1>4 DEF Block
<1>6. s = [i \in 1..n |-> s[i]]
  <2>1. s = [i \in DOMAIN needed |-> s[i]]
    <3> HIDE DEF needed
    <3> QED OBVIOUS
  <2> HIDE DEF s, needed, n
  <2> QED BY <1>4, <2>1
<1> HIDE DEF needed, n, s
<1>7. file \in [1..n -> Paths]
  <2>1. \A i \in 1..n : Located(fs, dirs, needed[i]) \in Paths
    BY <1>2, <1>4, LocatedTyped
  <2> QED BY <2>1
<1>8. \A i \in 1..n : file[i] = Located(fs, dirs, needed[i])
  OBVIOUS
<1> HIDE DEF file
<1>9. \A i \in 1..n : s[i] = Block(fs, file[i]) /\ s[i] \in Seq(Paths)
  <2>1. \A i \in 1..n : s[i] = Block(fs, file[i]) /\ file[i] \in Paths
    BY <1>5, <1>7, <1>8
  <2>2. \A i \in 1..n : Block(fs, file[i]) \in Seq(Paths)
    BY <2>1, BlockTyped
  <2> QED BY <2>1, <2>2
<1>10. /\ FlattenSeq(s) \in Seq(Paths) /\ From(FlattenSeq(s), s, n)
       /\ \A z : z \in Range(FlattenSeq(s)) <=> \E i \in 1..n : z \in Range(s[i])
  BY <1>4, <1>6, <1>9, Flattened
<1> QED
  BY <1>2, <1>3, <1>4, <1>7, <1>8, <1>9, <1>10 DEF needed, n

\* A list in which each file is one of `base`, or was listed before, or is led to by such.
Explained(list, base) ==
  \A j \in DOMAIN list : \/ list[j] \in base \cup Earlier(list, j)
                         \/ \E g \in base \cup Earlier(list, j) : Leads(g, list[j])

LEMMA lddSound ==
  ASSUME NEW p \in Paths, Sane(input.fs), input.libraryPath \in Seq(Dirs),
         lddSucceeds(input.fs, input.libraryPath, p)
  PROVE  LET list == ldd(input.fs, input.libraryPath, p) IN
           /\ list \in Seq(Paths)
           /\ \A i \in DOMAIN Needed(input.fs, p) :
                /\ Found(input.fs, input.libraryPath, Needed(input.fs, p)[i])
                /\ Located(input.fs, input.libraryPath, Needed(input.fs, p)[i]) \in Range(list)
           /\ Agree(input.fs) => Closed(input.fs, Range(list)) /\ Explained(list, {p})
<1> DEFINE fs == input.fs
           dirs == input.libraryPath
           list == ldd(fs, dirs, p)
<1>1. PICK n \in Nat : \E file \in [1..n -> Paths] : \E s :
           /\ n = Len(Needed(fs, p)) /\ DOMAIN Needed(fs, p) = 1..n
           /\ \A i \in 1..n : /\ Found(fs, dirs, Needed(fs, p)[i])
                              /\ file[i] = Located(fs, dirs, Needed(fs, p)[i])
                              /\ s[i] = Block(fs, file[i])
           /\ list \in Seq(Paths) /\ From(list, s, n)
           /\ \A z : z \in Range(list) <=> \E i \in 1..n : z \in Range(s[i])
  BY lddBlocks
<1>1a. PICK file \in [1..n -> Paths] : \E s :
           /\ n = Len(Needed(fs, p)) /\ DOMAIN Needed(fs, p) = 1..n
           /\ \A i \in 1..n : /\ Found(fs, dirs, Needed(fs, p)[i])
                              /\ file[i] = Located(fs, dirs, Needed(fs, p)[i])
                              /\ s[i] = Block(fs, file[i])
           /\ list \in Seq(Paths) /\ From(list, s, n)
           /\ \A z : z \in Range(list) <=> \E i \in 1..n : z \in Range(s[i])
  BY <1>1
<1>2. PICK s :
           /\ n = Len(Needed(fs, p)) /\ DOMAIN Needed(fs, p) = 1..n
           /\ \A i \in 1..n : /\ Found(fs, dirs, Needed(fs, p)[i])
                              /\ file[i] = Located(fs, dirs, Needed(fs, p)[i])
                              /\ s[i] = Block(fs, file[i])
           /\ list \in Seq(Paths) /\ From(list, s, n)
           /\ \A z : z \in Range(list) <=> \E i \in 1..n : z \in Range(s[i])
  BY <1>1a
<1>3. Sane(fs) /\ \A i \in 1..n : file[i] \in Paths /\ s[i] = Block(fs, file[i])
  BY <1>2
<1>4. \A i \in 1..n : s[i][1] = file[i] /\ file[i] \in Range(s[i])
  <2> HIDE DEF fs, dirs, list
  <2>1. \A i \in 1..n : Block(fs, file[i])[1] = file[i] /\ file[i] \in Range(Block(fs, file[i]))
    BY <1>3, BlockTyped
  <2> QED BY <1>3, <2>1
<1>5. \A i \in DOMAIN Needed(fs, p) :
        Found(fs, dirs, Needed(fs, p)[i]) /\ Located(fs, dirs, Needed(fs, p)[i]) \in Range(list)
  <2> HIDE DEF list, fs, dirs
  <2> QED BY <1>2, <1>4
<1>6. ASSUME Agree(fs) PROVE Closed(fs, Range(list))
  <2> HIDE DEF list, fs, dirs
  <2> SUFFICES ASSUME NEW f \in Range(list), f \in Links(fs) PROVE Target(fs, f[1], f) \in Range(list)
    BY DEF Closed
  <2>1. PICK i \in 1..n : f \in Range(s[i])
    BY <1>2
  <2>2. Closed(fs, Range(s[i]))
    BY <1>3, <1>6, BlockClosed
  <2> QED BY <1>2, <2>1, <2>2 DEF Closed
<1>7. ASSUME Agree(fs), NEW j \in DOMAIN list
      PROVE  \/ list[j] \in {p} \cup Earlier(list, j)
             \/ \E g \in {p} \cup Earlier(list, j) : Leads(g, list[j])
  <2>1. PICK i \in 1..n : \E x \in DOMAIN s[i] :
          /\ list[j] = s[i][x]
          /\ \A z : z \in Earlier(list, j) <=>
                      (\E b \in 1..(i - 1) : z \in Range(s[b])) \/ z \in Earlier(s[i], x)
    <3> HIDE DEF list
    <3> QED BY <1>2, <1>7 DEF From
  <2>2. PICK x \in DOMAIN s[i] :
          /\ list[j] = s[i][x]
          /\ \A z : z \in Earlier(list, j) <=>
                      (\E b \in 1..(i - 1) : z \in Range(s[b])) \/ z \in Earlier(s[i], x)
    BY <2>1
  <2>3. CASE x = 1
    <3>1. list[j] = Located(fs, dirs, Needed(fs, p)[i]) /\ i \in DOMAIN Needed(fs, p)
          /\ Found(fs, dirs, Needed(fs, p)[i])
      <4> HIDE DEF list, fs, dirs
      <4> QED BY <1>2, <1>4, <2>2, <2>3
    <3>2. Leads(p, list[j])
      <4> HIDE DEF list
      <4> QED BY <3>1 DEF Leads
    <3> HIDE DEF list
    <3> QED BY <3>2
  <2>4. CASE x # 1
    <3>1. /\ s[i][x - 1] \in Earlier(s[i], x)
          /\ \/ s[i][x] = s[i][x - 1]
             \/ fs[s[i][x - 1]][1] = "link" /\ s[i][x] = Target(fs, s[i][x - 1][1], s[i][x - 1])
      <4> HIDE DEF list, fs, dirs
      <4> QED BY <1>3, <1>7, <2>4, BlockExplained
    <3>2. s[i][x - 1] \in Earlier(list, j)
      <4> HIDE DEF list
      <4> QED BY <2>2, <3>1
    <3>3. list[j] = s[i][x - 1] \/ Leads(s[i][x - 1], list[j])
      <4> HIDE DEF list
      <4> QED BY <2>2, <3>1 DEF Leads
    <3> HIDE DEF list
    <3> QED BY <3>2, <3>3
  <2> QED BY <2>3, <2>4
<1>8. Agree(fs) => Explained(list, {p})
  <2> HIDE DEF list, fs
  <2> QED BY <1>7 DEF Explained
<1> QED
  BY <1>2, <1>5, <1>6, <1>8

\* What resolve lists of an object itself.
LEMMA ObjectSound ==
  ASSUME NEW p \in Paths, Sane(input.fs), Agree(input.fs)
  PROVE  Explained(Block(input.fs, p), {p})
<1> DEFINE fs == input.fs
           b == Block(fs, p)
<1>1. b[1] = p
  BY BlockTyped
<1>2. ASSUME NEW x \in DOMAIN b, x # 1
      PROVE  b[x - 1] \in Earlier(b, x) /\ (b[x] = b[x - 1] \/ Leads(b[x - 1], b[x]))
  BY <1>2, BlockExplained DEF Leads
<1> HIDE DEF b, fs
<1>3. Explained(b, {p})
  BY <1>1, <1>2 DEF Explained
<1> QED
  BY <1>3 DEF b, fs
-----------------------------------------------------------------------------
(* Lists that grow.                                                         *)

LEMMA WithoutExplained ==
  ASSUME NEW list \in Seq(Paths), NEW base, NEW known, Explained(list, base)
  PROVE  Explained(Without(list, known), base \cup known)
<1> DEFINE w == Without(list, known)
<1>1. SUFFICES ASSUME NEW m \in DOMAIN w
               PROVE  \/ w[m] \in (base \cup known) \cup Earlier(w, m)
                      \/ \E g \in (base \cup known) \cup Earlier(w, m) : Leads(g, w[m])
  BY DEF Explained
<1>2. PICK i \in DOMAIN list : /\ w[m] = list[i] /\ w[m] \notin known \cup Earlier(w, m)
                               /\ \A z \in Earlier(list, i) : z \in known \cup Earlier(w, m)
  BY <1>1, WithoutSound
<1> HIDE DEF w
<1>3. \/ list[i] \in base \cup Earlier(list, i)
      \/ \E g \in base \cup Earlier(list, i) : Leads(g, list[i])
  BY DEF Explained
<1> QED
  BY <1>2, <1>3

\* What a list has when the new ones of another are put behind it.
Grown(old, list) == old \o Without(list, Range(old))

LEMMA Appended ==
  ASSUME NEW old \in Seq(Paths), NEW list \in Seq(Paths), NEW new, new = Grown(old, list)
  PROVE  /\ new \in Seq(Paths)
         /\ \A z : z \in Range(new) <=> z \in Range(old) \/ z \in Range(list)
         /\ \A j \in DOMAIN new :
              \/ j \in DOMAIN old /\ new[j] = old[j] /\ Earlier(new, j) = Earlier(old, j)
              \/ /\ new[j] \notin Earlier(new, j)
                 /\ \E i \in DOMAIN list :
                      /\ new[j] = list[i]
                      /\ \A z : z \in Range(old) \/ z \in Earlier(list, i) => z \in Earlier(new, j)
<1> DEFINE w == Without(list, Range(old))
<1>1. /\ w \in Seq(Paths)
      /\ \A z : z \in Range(w) <=> z \in Range(list) /\ z \notin Range(old)
      /\ \A m \in DOMAIN w : \E i \in DOMAIN list :
           /\ w[m] = list[i] /\ w[m] \notin Range(old) \cup Earlier(w, m)
           /\ \A z \in Earlier(list, i) : z \in Range(old) \cup Earlier(w, m)
  BY WithoutSound
<1> HIDE DEF w
<1>2. /\ new \in Seq(Paths) /\ Len(old) \in Nat /\ Len(w) \in Nat /\ Len(new) = Len(old) + Len(w)
      /\ DOMAIN new = 1..Len(new) /\ DOMAIN old = 1..Len(old) /\ DOMAIN w = 1..Len(w)
      /\ \A m \in 1..Len(old) : new[m] = old[m]
      /\ \A m \in 1..Len(w) : new[Len(old) + m] = w[m]
  <2>1. new = old \o w
    BY DEF w, Grown
  <2> QED BY <1>1, <2>1
<1>3. \A z : z \in Range(new) <=> z \in Range(old) \/ z \in Range(w)
  <2>1. ASSUME NEW m \in DOMAIN new PROVE new[m] \in Range(old) \/ new[m] \in Range(w)
    <3>1. CASE m \in 1..Len(old)
      BY <1>2, <3>1 DEF Range
    <3>2. CASE m \notin 1..Len(old)
      <4>1. m - Len(old) \in 1..Len(w) /\ m = Len(old) + (m - Len(old))
        BY <1>2, <3>2
      <4> QED BY <1>2, <4>1 DEF Range
    <3> QED BY <3>1, <3>2
  <2>2. ASSUME NEW m \in DOMAIN old PROVE old[m] \in Range(new)
    <3>1. m \in DOMAIN new /\ new[m] = old[m]
      BY <1>2
    <3> QED BY <3>1 DEF Range
  <2>3. ASSUME NEW m \in DOMAIN w PROVE w[m] \in Range(new)
    <3>1. Len(old) + m \in DOMAIN new /\ new[Len(old) + m] = w[m]
      BY <1>2
    <3> QED BY <3>1 DEF Range
  <2> QED BY <2>1, <2>2, <2>3 DEF Range
<1>4. ASSUME NEW j \in DOMAIN new, j \in DOMAIN old
      PROVE  new[j] = old[j] /\ Earlier(new, j) = Earlier(old, j)
  <2>1. \A x \in 1..(j - 1) : x \in 1..Len(old)
    BY <1>2, <1>4
  <2> QED BY <1>2, <1>4, <2>1 DEF Earlier
<1>5. ASSUME NEW j \in DOMAIN new, j \notin DOMAIN old
      PROVE  /\ new[j] \notin Earlier(new, j)
             /\ \E i \in DOMAIN list :
                  /\ new[j] = list[i]
                  /\ \A z : z \in Range(old) \/ z \in Earlier(list, i) => z \in Earlier(new, j)
  <2> DEFINE m == j - Len(old)
  <2>1. m \in DOMAIN w /\ j = Len(old) + m /\ m \in 1..Len(w)
    BY <1>2, <1>5
  <2> HIDE DEF m
  <2>2. new[j] = w[m]
    BY <1>2, <2>1
  <2>3. PICK i \in DOMAIN list : /\ w[m] = list[i] /\ w[m] \notin Range(old) \cup Earlier(w, m)
                                 /\ \A z \in Earlier(list, i) : z \in Range(old) \cup Earlier(w, m)
    BY <1>1, <2>1
  <2>4. ASSUME NEW y \in 1..(j - 1) PROVE new[y] \in Range(old) \/ new[y] \in Earlier(w, m)
    <3>1. CASE y \in 1..Len(old)
      BY <1>2, <3>1 DEF Range
    <3>2. CASE y \notin 1..Len(old)
      <4>1. y - Len(old) \in 1..(m - 1) /\ y - Len(old) \in 1..Len(w) /\ y = Len(old) + (y - Len(old))
        BY <1>2, <2>1, <3>2
      <4> QED BY <1>2, <4>1 DEF Earlier
    <3> QED BY <3>1, <3>2
  <2>5. ASSUME NEW y \in DOMAIN old PROVE old[y] \in Earlier(new, j)
    <3>1. y \in 1..(j - 1) /\ new[y] = old[y]
      BY <1>2, <2>1
    <3> QED BY <3>1 DEF Earlier
  <2>6. ASSUME NEW y \in 1..(m - 1) PROVE w[y] \in Earlier(new, j)
    <3>1. Len(old) + y \in 1..(j - 1) /\ new[Len(old) + y] = w[y]
      BY <1>2, <2>1
    <3> QED BY <3>1 DEF Earlier
  <2>7. \A z : z \in Earlier(new, j) <=> z \in Range(old) \/ z \in Earlier(w, m)
    BY <2>4, <2>5, <2>6 DEF Earlier, Range
  <2> QED BY <2>2, <2>3, <2>7
<1> QED
  BY <1>1, <1>2, <1>3, <1>4, <1>5

\* OnlyNeeded of any list of files.
Only(files) ==
  \A j \in DOMAIN files :
    /\ files[j] \notin Earlier(files, j)
    /\ \/ files[j] \in Range(input.objects)
       \/ \E g \in Range(input.objects) \cup Earlier(files, j) : Leads(g, files[j])

LEMMA OnlyAppended ==
  ASSUME NEW old \in Seq(Paths), NEW list \in Seq(Paths), NEW new, Only(old),
         new = Grown(old, list),
         NEW base \in SUBSET (Range(input.objects) \cup Range(old)), Explained(list, base)
  PROVE  Only(new)
<1>1. SUFFICES ASSUME NEW j \in DOMAIN new
               PROVE  /\ new[j] \notin Earlier(new, j)
                      /\ \/ new[j] \in Range(input.objects)
                         \/ \E g \in Range(input.objects) \cup Earlier(new, j) : Leads(g, new[j])
  BY DEF Only
<1>2. CASE j \in DOMAIN old /\ new[j] = old[j] /\ Earlier(new, j) = Earlier(old, j)
  BY <1>2 DEF Only
<1>3. CASE /\ new[j] \notin Earlier(new, j)
           /\ \E i \in DOMAIN list :
                /\ new[j] = list[i]
                /\ \A z : z \in Range(old) \/ z \in Earlier(list, i) => z \in Earlier(new, j)
  <2>1. PICK i \in DOMAIN list :
          /\ new[j] = list[i]
          /\ \A z : z \in Range(old) \/ z \in Earlier(list, i) => z \in Earlier(new, j)
    BY <1>3
  <2>2. \/ list[i] \in base \cup Earlier(list, i)
        \/ \E g \in base \cup Earlier(list, i) : Leads(g, list[i])
    BY DEF Explained
  <2>3. \A z \in base \cup Earlier(list, i) : z \in Range(input.objects) \cup Earlier(new, j)
    BY <2>1
  <2> QED BY <1>3, <2>1, <2>2, <2>3
<1>4. \/ j \in DOMAIN old /\ new[j] = old[j] /\ Earlier(new, j) = Earlier(old, j)
      \/ /\ new[j] \notin Earlier(new, j)
         /\ \E i \in DOMAIN list :
              /\ new[j] = list[i]
              /\ \A z : z \in Range(old) \/ z \in Earlier(list, i) => z \in Earlier(new, j)
  <2>1. \A k \in DOMAIN new :
          \/ k \in DOMAIN old /\ new[k] = old[k] /\ Earlier(new, k) = Earlier(old, k)
          \/ /\ new[k] \notin Earlier(new, k)
             /\ \E i \in DOMAIN list :
                  /\ new[k] = list[i]
                  /\ \A z : z \in Range(old) \/ z \in Earlier(list, i) => z \in Earlier(new, k)
    BY Appended
  <2> QED BY <2>1
<1> QED
  BY <1>2, <1>3, <1>4

\* What is left of the queue was in it.
LEMMA RestTyped ==
  ASSUME NEW queue \in Seq(Paths)
  PROVE  Rest(queue) \in Seq(Paths) /\ \A z \in Range(Rest(queue)) : z \in Range(queue)
<1> DEFINE r == Rest(queue)
<1>1. CASE Len(queue) - 1 < 2
  <2>1. r = <<>>
    BY <1>1 DEF Rest
  <2>2. r \in Seq(Paths) /\ DOMAIN r = {}
    BY <2>1
  <2> QED BY <2>2 DEF Range
<1>2. CASE ~(Len(queue) - 1 < 2)
  <2>1. /\ r \in Seq(Paths) /\ DOMAIN r = 1..(Len(queue) - 2)
        /\ \A x \in 1..(Len(queue) - 2) : r[x] = queue[x + 1]
    BY <1>2 DEF Rest
  <2> HIDE DEF r
  <2>2. \A x \in 1..(Len(queue) - 2) : x + 1 \in DOMAIN queue
    BY <1>2
  <2>3. \A z \in Range(r) : z \in Range(queue)
    BY <2>1, <2>2 DEF Range
  <2> QED BY <2>1, <2>3 DEF r
<1> QED
  BY <1>1, <1>2
-----------------------------------------------------------------------------
(* The inductive invariant.                                                 *)

Types == TypeOK /\ input \in Inputs

\* The libraries a file needs are found and listed.
Listed(o) == \A i \in DOMAIN Needed(input.fs, o) :
  LET name == Needed(input.fs, o)[i] IN
    /\ Found(input.fs, input.libraryPath, name)
    /\ Located(input.fs, input.libraryPath, name) \in Range(finalFiles)

\* Those of each object it is done with are, and so are those of the object it is at once
\* the queue is another than that object alone.
ObjectsListed ==
  /\ \A k \in 1..(obj - 1) : Listed(input.objects[k])
  /\ status = "running" => next = <<object>> \/ Listed(object)
  /\ status = "done" => obj = Len(input.objects) /\ Listed(object)

\* When the links agree, nothing else is listed, and no link without its target.
FilesSound ==
  Agree(input.fs) => Only(finalFiles) /\ Closed(input.fs, Range(finalFiles))

Inv == Types /\ ObjectsListed /\ FilesSound

LEMMA Typed ==
  ASSUME input \in Inputs
  PROVE  /\ Sane(input.fs) /\ input.fs \in FileSystem /\ DOMAIN input.fs = Paths
         /\ input.libraryPath \in Seq(Dirs)
         /\ input.objects \in Seq(Paths) /\ input.objects # <<>>
         /\ Len(input.objects) \in Nat \ {0} /\ DOMAIN input.objects = 1..Len(input.objects)
         /\ \A k \in DOMAIN input.objects : input.objects[k] \in Paths
<1>1. /\ input.fs \in FileSystem /\ input.libraryPath \in Seq(Dirs)
      /\ input.objects \in Seq(Paths) \ {<<>>}
      /\ Straight(OwnTargets(input.fs)) /\ \A dir \in Dirs : Straight(TargetsFrom(input.fs, dir))
  BY InputsAssumption DEF FileSystem
<1>2. DOMAIN input.fs = Paths
  BY <1>1 DEF FileSystem
<1> DEFINE objects == input.objects
<1>3. objects \in Seq(Paths) /\ objects # <<>>
  BY <1>1
<1> HIDE DEF objects
<1>4. Len(objects) \in Nat \ {0} /\ DOMAIN objects = 1..Len(objects)
      /\ \A k \in DOMAIN objects : objects[k] \in Paths
  BY <1>3
<1> QED
  BY <1>1, <1>2, <1>3, <1>4 DEF Sane, objects

LEMMA InvInit == Init => Inv
<1> SUFFICES ASSUME Init PROVE Inv
  OBVIOUS
<1>1. input \in Inputs /\ obj = 1 /\ next = <<object>> /\ processed = {} /\ finalFiles = <<>>
      /\ status = "running"
  BY DEF Init
<1>2. obj \in DOMAIN input.objects /\ DOMAIN input.fs = Paths /\ object \in Paths
  BY <1>1, Typed DEF object
<1> DEFINE o == object
<1>3. o \in Paths /\ next = <<o>>
  BY <1>1, <1>2
<1> HIDE DEF o
<1>4. next \in Seq(Paths) /\ Range(next) \subseteq {o}
  BY <1>3 DEF Range
<1>5. DOMAIN finalFiles = {} /\ finalFiles \in Seq(Paths)
  BY <1>1
<1>6. Types
  BY <1>1, <1>2, <1>4, <1>5 DEF Types, TypeOK, o
<1>7. ObjectsListed
  BY <1>1 DEF ObjectsListed
<1>8. FilesSound
  BY <1>5 DEF FilesSound, Only, Closed, Range
<1> QED
  BY <1>6, <1>7, <1>8 DEF Inv

\* What is listed stays so when the list grows.
LEMMA ListedStays ==
  ASSUME NEW o, Listed(o), input' = input, \A z : z \in Range(finalFiles) => z \in Range(finalFiles')
  PROVE  \A i \in DOMAIN Needed(input.fs, o) :
           /\ Found(input.fs, input.libraryPath, Needed(input.fs, o)[i])
           /\ Located(input.fs, input.libraryPath, Needed(input.fs, o)[i]) \in Range(finalFiles')
BY DEF Listed

LEMMA LookIntoKeeps == Inv /\ LookInto => Inv'
<1> SUFFICES ASSUME Inv, LookInto PROVE Inv'
  OBVIOUS
<1> DEFINE fs == input.fs
           p == Head(next)
           list == ldd(fs, input.libraryPath, p)
           found == Without(list, processed)
           queue == next \o found
<1>1. /\ status = "running" /\ next # <<>> /\ lddSucceeds(fs, input.libraryPath, p)
      /\ processed' = processed \cup Range(found)
      /\ finalFiles' = Grown(finalFiles, found)
      /\ next' = Rest(queue)
      /\ UNCHANGED <<input, obj, status>>
  BY DEF LookInto, Grown
<1>2. /\ obj \in DOMAIN input.objects /\ next \in Seq(Paths) /\ processed \subseteq Paths
      /\ finalFiles \in Seq(Paths) /\ Range(next) \subseteq processed \cup {object}
      /\ processed \subseteq Range(finalFiles) /\ input \in Inputs
  BY Typed DEF Inv, Types, TypeOK
<1>3. Sane(fs) /\ input.libraryPath \in Seq(Dirs) /\ object \in Paths /\ DOMAIN input.fs = Paths
      /\ object \in Range(input.objects)
  BY <1>2, Typed DEF object, Range
<1>4. p \in Range(next) /\ p \in Paths
  <2>1. 1 \in DOMAIN next /\ p = next[1] /\ p \in Paths
    BY <1>1, <1>2
  <2> HIDE DEF p
  <2> QED BY <2>1 DEF Range
<1>5. /\ list \in Seq(Paths)
      /\ \A i \in DOMAIN Needed(fs, p) :
           /\ Found(fs, input.libraryPath, Needed(fs, p)[i])
           /\ Located(fs, input.libraryPath, Needed(fs, p)[i]) \in Range(list)
      /\ Agree(fs) => Closed(fs, Range(list)) /\ Explained(list, {p})
  BY <1>1, <1>3, <1>4, lddSound
<1> HIDE DEF p, list
<1>6. found \in Seq(Paths) /\ \A z : z \in Range(found) <=> z \in Range(list) /\ z \notin processed
  BY <1>5, WithoutSound
<1>7. Agree(fs) => Explained(found, {p} \cup processed)
  BY <1>5, WithoutExplained
<1> HIDE DEF found
<1>8. /\ finalFiles' \in Seq(Paths)
      /\ \A z : z \in Range(finalFiles') <=> z \in Range(finalFiles) \/ z \in Range(found)
  BY <1>1, <1>2, <1>6, Appended
<1>9. \A z : z \in Range(finalFiles') <=> z \in Range(finalFiles) \/ z \in Range(list)
  BY <1>2, <1>6, <1>8
<1>10. queue \in Seq(Paths) /\ \A z \in Range(queue) : z \in Range(next) \/ z \in Range(found)
  <2>1. /\ queue \in Seq(Paths) /\ DOMAIN queue = 1..(Len(next) + Len(found))
        /\ \A m \in 1..Len(next) : queue[m] = next[m]
        /\ \A m \in 1..Len(found) : queue[Len(next) + m] = found[m]
        /\ DOMAIN next = 1..Len(next) /\ DOMAIN found = 1..Len(found)
        /\ Len(next) \in Nat /\ Len(found) \in Nat
    BY <1>2, <1>6
  <2> HIDE DEF queue
  <2>2. ASSUME NEW m \in DOMAIN queue PROVE queue[m] \in Range(next) \/ queue[m] \in Range(found)
    <3>1. CASE m \in 1..Len(next)
      BY <2>1, <3>1 DEF Range
    <3>2. CASE m \notin 1..Len(next)
      <4>1. m - Len(next) \in 1..Len(found) /\ m = Len(next) + (m - Len(next))
        BY <2>1, <3>2
      <4> QED BY <2>1, <4>1 DEF Range
    <3> QED BY <3>1, <3>2
  <2> QED BY <2>1, <2>2 DEF Range
<1> HIDE DEF queue
<1>11. next' \in Seq(Paths) /\ \A z \in Range(next') : z \in Range(next) \/ z \in Range(found)
  BY <1>1, <1>10, RestTyped
<1>12. Types'
  <2>1. Range(found) \subseteq Paths
    BY <1>6 DEF Range
  <2>2. Range(next') \subseteq processed' \cup {object'}
    BY <1>1, <1>2, <1>11 DEF object
  <2>3. processed' \subseteq Range(finalFiles') /\ processed' \subseteq Paths
    BY <1>1, <1>2, <1>8, <2>1
  <2>4. status' \in {"running", "done", "failed"} /\ obj' \in DOMAIN input'.objects /\ input' \in Inputs
        /\ DOMAIN input'.fs = Paths
    BY <1>1, <1>2, <1>3
  <2> QED BY <1>8, <1>11, <2>2, <2>3, <2>4 DEF Types, TypeOK
<1>13. ObjectsListed'
  <2>1. ASSUME NEW o, Listed(o) PROVE Listed(o)'
    BY <1>1, <1>9, <2>1, ListedStays DEF Listed
  <2>2. \A k \in 1..(obj' - 1) : Listed(input.objects[k])'
    BY <1>1, <2>1 DEF Inv, ObjectsListed
  <2>3. Listed(object)'
    <3>1. CASE next = <<object>>
      <4>1. p = object
        BY <3>1 DEF p
      <4> QED BY <1>1, <1>5, <1>9, <4>1 DEF Listed, object
    <3>2. CASE Listed(object)
      BY <1>1, <1>9, <3>2, ListedStays DEF Listed, object
    <3> QED BY <1>1, <3>1, <3>2 DEF Inv, ObjectsListed
  <2> QED BY <1>1, <2>2, <2>3 DEF ObjectsListed
<1>14. FilesSound'
  <2> SUFFICES ASSUME Agree(fs) PROVE Only(finalFiles)' /\ Closed(fs, Range(finalFiles'))
    BY <1>1 DEF FilesSound
  <2>1. Only(finalFiles) /\ Closed(fs, Range(finalFiles))
    BY DEF Inv, FilesSound
  <2>2. {p} \cup processed \subseteq Range(input.objects) \cup Range(finalFiles)
    BY <1>2, <1>3, <1>4
  <2>3. Only(finalFiles')
    BY <1>1, <1>2, <1>6, <1>7, <2>1, <2>2, OnlyAppended
  <2>4. Only(finalFiles)'
    BY <1>1, <2>3 DEF Only, Leads
  <2>5. Closed(fs, Range(finalFiles'))
    BY <1>5, <1>9, <2>1 DEF Closed
  <2> QED BY <2>4, <2>5
<1> QED
  BY <1>12, <1>13, <1>14 DEF Inv

LEMMA FailKeeps == Inv /\ Fail => Inv'
<1> SUFFICES ASSUME Inv, Fail PROVE Inv'
  OBVIOUS
<1>1. status' = "failed" /\ UNCHANGED <<input, obj, next, processed, finalFiles>>
  BY DEF Fail
<1>2. Types'
  BY <1>1 DEF Inv, Types, TypeOK, object
<1>3. ObjectsListed'
  <2>1. \A k \in 1..(obj' - 1) : Listed(input.objects[k])'
    BY <1>1 DEF Inv, ObjectsListed, Listed
  <2> QED BY <1>1, <2>1 DEF ObjectsListed
<1>4. FilesSound'
  BY <1>1 DEF Inv, FilesSound, Only, Leads
<1> QED
  BY <1>2, <1>3, <1>4 DEF Inv

LEMMA EndObjectKeeps == Inv /\ EndObject => Inv'
<1> SUFFICES ASSUME Inv, EndObject PROVE Inv'
  OBVIOUS
<1> DEFINE fs == input.fs
           block == Block(fs, object)
<1>1. /\ status = "running" /\ next = <<>> /\ processed' = {} /\ input' = input
      /\ finalFiles' = Grown(finalFiles, block)
      /\ IF obj < Len(input.objects)
         THEN obj' = obj + 1 /\ next' = <<input.objects[obj + 1]>> /\ UNCHANGED status
         ELSE status' = "done" /\ UNCHANGED <<obj, next>>
  BY DEF EndObject, Grown, Block
<1>2. /\ obj \in DOMAIN input.objects /\ finalFiles \in Seq(Paths) /\ input \in Inputs
  BY Typed DEF Inv, Types, TypeOK
<1>3. /\ Sane(fs) /\ object \in Paths /\ DOMAIN input.fs = Paths /\ object \in Range(input.objects)
      /\ obj \in 1..Len(input.objects) /\ Len(input.objects) \in Nat
      /\ \A k \in 1..Len(input.objects) : input.objects[k] \in Paths
  BY <1>2, Typed DEF object, Range
<1>4. block \in Seq(Paths)
  BY <1>3, BlockTyped
<1>5. Agree(fs) => Explained(block, {object}) /\ Closed(fs, Range(block))
  BY <1>3, ObjectSound, BlockClosed
<1> HIDE DEF block
<1>6. /\ finalFiles' \in Seq(Paths)
      /\ \A z : z \in Range(finalFiles') <=> z \in Range(finalFiles) \/ z \in Range(block)
  BY <1>1, <1>2, <1>4, Appended
<1>7. Types'
  <2>1. CASE obj < Len(input.objects)
    <3>1. obj' \in 1..Len(input.objects) /\ next' = <<input'.objects[obj']>> /\ status' = "running"
      BY <1>1, <1>3, <2>1
    <3> DEFINE o == input'.objects[obj']
    <3>2. o \in Paths /\ next' = <<o>> /\ object' = o
      BY <1>1, <1>3, <3>1 DEF object
    <3> HIDE DEF o
    <3>3. next' \in Seq(Paths) /\ Range(next') \subseteq {object'}
      BY <3>2 DEF Range
    <3>4. obj' \in DOMAIN input'.objects /\ DOMAIN input'.fs = Paths /\ input' \in Inputs
      BY <1>1, <1>2, <1>3, <3>1, Typed
    <3> QED BY <1>1, <1>6, <3>1, <3>3, <3>4 DEF Types, TypeOK
  <2>2. CASE ~(obj < Len(input.objects))
    <3>1. next' \in Seq(Paths) /\ DOMAIN next' = {}
      BY <1>1, <2>2
    <3>2. Range(next') = {}
      BY <3>1 DEF Range
    <3> QED BY <1>1, <1>2, <1>3, <1>6, <2>2, <3>1, <3>2 DEF Types, TypeOK
  <2> QED BY <2>1, <2>2
<1>8. ObjectsListed'
  <2>1. ASSUME NEW o, Listed(o) PROVE Listed(o)'
    BY <1>1, <1>6, <2>1, ListedStays DEF Listed
  <2>2. Listed(object)
    <3>1. next # <<object>>
      BY <1>1
    <3> QED BY <1>1, <3>1 DEF Inv, ObjectsListed
  <2>3. \A k \in 1..obj : Listed(input.objects[k])
    <3>1. \A k \in 1..(obj - 1) : Listed(input.objects[k])
      BY DEF Inv, ObjectsListed
    <3>2. \A k \in 1..obj : k = obj \/ k \in 1..(obj - 1)
      BY <1>3
    <3> QED BY <2>2, <3>1, <3>2 DEF object
  <2>4. \A k \in 1..obj : Listed(input.objects[k])'
    <3> TAKE k \in 1..obj
    <3>1. Listed(input.objects[k])
      BY <2>3
    <3> QED BY <1>1, <1>6, <3>1, ListedStays DEF Listed
  <2>5. CASE obj < Len(input.objects)
    <3>1. obj' - 1 = obj /\ next' = <<input'.objects[obj']>> /\ status' = "running"
      BY <1>1, <1>3, <2>5
    <3> QED BY <2>4, <3>1 DEF ObjectsListed, object
  <2>6. CASE ~(obj < Len(input.objects))
    <3>1. obj' = obj /\ obj = Len(input.objects) /\ status' = "done"
          /\ \A k \in 1..(obj - 1) : k \in 1..obj
      BY <1>1, <1>3, <2>6
    <3>2. Listed(object)'
      BY <1>3, <2>4, <3>1, <1>1 DEF object
    <3> QED BY <1>1, <2>4, <3>1, <3>2 DEF ObjectsListed
  <2> QED BY <2>5, <2>6
<1>9. FilesSound'
  <2> SUFFICES ASSUME Agree(fs) PROVE Only(finalFiles)' /\ Closed(fs, Range(finalFiles'))
    BY <1>1 DEF FilesSound
  <2>1. Only(finalFiles) /\ Closed(fs, Range(finalFiles))
    BY DEF Inv, FilesSound
  <2>2. {object} \subseteq Range(input.objects) \cup Range(finalFiles)
    BY <1>3
  <2>3. Only(finalFiles')
    BY <1>1, <1>2, <1>4, <1>5, <2>1, <2>2, OnlyAppended
  <2>4. Only(finalFiles)'
    BY <1>1, <2>3 DEF Only, Leads
  <2>5. Closed(fs, Range(finalFiles'))
    BY <1>5, <1>6, <2>1 DEF Closed
  <2> QED BY <2>4, <2>5
<1> QED
  BY <1>7, <1>8, <1>9 DEF Inv

LEMMA InvAlways == Spec => []Inv
<1>1. Inv /\ [Next]_vars => Inv'
  <2>1. Inv /\ UNCHANGED vars => Inv'
    BY DEF vars, Inv, Types, TypeOK, ObjectsListed, Listed, FilesSound, Only, Leads, object
  <2> QED BY <2>1, LookIntoKeeps, FailKeeps, EndObjectKeeps DEF Next
<1> QED
  BY <1>1, InvInit, PTL DEF Spec
-----------------------------------------------------------------------------
\* As long as no link to another directory leads to a relative one: nothing is listed
\* twice, or without an object or a file listed before that leads to it (ldd.go:10-63).
THEOREM NothingElseListed == Spec => [](Agree(input.fs) => ListSound)
<1>1. Inv => (Agree(input.fs) => ListSound)
  BY DEF Inv, Types, FilesSound, ListSound, OnlyNeeded, Only
<1> QED
  BY <1>1, InvAlways, PTL

\* And no link is listed without its target (ldd.go:85-89, 100-122).
THEOREM LinksListed == Spec => [](Agree(input.fs) => LinksComplete)
<1>1. Inv => (Agree(input.fs) => LinksComplete)
  <2> SUFFICES ASSUME Inv, Agree(input.fs), NEW f \in Range(finalFiles), input.fs[f][1] = "link"
               PROVE  Target(input.fs, f[1], f) \in Range(finalFiles)
    BY DEF LinksComplete
  <2>1. f \in DOMAIN input.fs
    BY DEF Inv, Types, TypeOK, Range
  <2> QED BY <2>1 DEF Inv, FilesSound, Closed, Links
<1> QED
  BY <1>1, InvAlways, PTL

\* Whatever the links are, and however the queue is worked off: when the search is done,
\* each library the objects themselves need is listed (ldd.go:40-51, 93-95).
THEOREM ObjectsComplete == Spec => []DirectComplete
<1>1. Inv => DirectComplete
  <2> SUFFICES ASSUME Inv, status = "done", NEW o \in Range(input.objects) PROVE Listed(o)
    BY DEF DirectComplete, Listed
  <2>1. PICK k \in DOMAIN input.objects : o = input.objects[k]
    BY DEF Range
  <2>2. k \in 1..Len(input.objects) /\ Len(input.objects) \in Nat
    BY <2>1, Typed DEF Inv, Types
  <2>3. k \in 1..(obj - 1) \/ k = obj
    BY <2>2 DEF Inv, ObjectsListed
  <2> QED BY <2>1, <2>3 DEF Inv, ObjectsListed, object
<1> QED
  BY <1>1, InvAlways, PTL
=============================================================================

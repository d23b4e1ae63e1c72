---------------------------- MODULE RpmVersions ----------------------------
(***************************************************************************)
(* The order of versions and packages of pkg/rpm/rpm.go, and the comparison *)
(* of a requirement with what is provided (pkg/sat/loader.go). A string is  *)
(* the sequence of its code points; a version is a record of epoch, ver and *)
(* rel; the result of a comparison is negative, 0 or positive.              *)
(***************************************************************************)
EXTENDS Integers, Sequences

CONSTANTS
  MaxInt,     \* the largest int: Atoi returns it for all that is larger
  ArchOrder   \* the architectures, the preferred one first

ASSUME OrderAssumption == MaxInt \in Nat /\ ArchOrder \in Seq(STRING)

Text == Seq(Nat)
Version == [epoch: Text, ver: Text, rel: Text]
Package == [name: Int, version: Version, arch: STRING, priority: Int]

Dot == 46
Tilde == 126
isNum(c) == c \in 48..57

Sign(x) == IF x < 0 THEN -1 ELSE IF x > 0 THEN 1 ELSE 0
Longest(s, t) == IF Len(s) > Len(t) THEN Len(s) ELSE Len(t)

\* cmp.Or: the first that is not 0.
Or(results) ==
  IF \A n \in DOMAIN results : results[n] = 0 THEN 0
  ELSE results[CHOOSE n \in DOMAIN results :
                 results[n] # 0 /\ \A m \in 1..(n - 1) : results[m] = 0]

\* How many characters from the first on are of its kind, digits or not.
EndsAt(text, n) ==
  n = Len(text) \/ text[n + 1] = Dot \/ isNum(text[n + 1]) # isNum(text[n])
RunLength(text) ==
  CHOOSE n \in 1..Len(text) : EndsAt(text, n) /\ \A m \in 1..(n - 1) : ~EndsAt(text, m)

\* NextToken: digits, other characters, a dot, or the end, of type "".
NextToken_SkipsOne(text) ==   \* mutant: the character after a token is skipped
  IF text = <<>> THEN [type |-> "", text |-> <<>>, rest |-> <<>>]
  ELSE IF text[1] = Dot THEN [type |-> "sep", text |-> <<>>, rest |-> Tail(text)]
  ELSE [type |-> IF isNum(text[1]) THEN "num" ELSE "alpha",
        text |-> SubSeq(text, 1, RunLength(text)),
        rest |-> SubSeq(text, RunLength(text) + 2, Len(text))]

NextToken(text) ==
  IF text = <<>> THEN [type |-> "", text |-> <<>>, rest |-> <<>>]
  ELSE IF text[1] = Dot THEN [type |-> "sep", text |-> <<>>, rest |-> Tail(text)]
  ELSE [type |-> IF isNum(text[1]) THEN "num" ELSE "alpha",
        text |-> SubSeq(text, 1, RunLength(text)),
        rest |-> SubSeq(text, RunLength(text) + 1, Len(text))]

\* The k-th token. A text has no more of them than characters: then comes the end.
Rests(text) ==
  LET rest[k \in 0..Len(text)] == IF k = 0 THEN text ELSE NextToken(rest[k - 1]).rest
  IN rest
Token(text, k) == NextToken(IF k <= Len(text) THEN Rests(text)[k - 1] ELSE <<>>)

\* strconv.Atoi without its error; leading zeros do not count.
Atoi(digits) ==
  LET value[n \in 0..Len(digits)] ==
        IF n = 0 THEN 0
        ELSE IF 10 * value[n - 1] + digits[n] - 48 > MaxInt THEN MaxInt
        ELSE 10 * value[n - 1] + digits[n] - 48
  IN value[Len(digits)]

\* strings.Compare: the end comes before any character.
At(text, n) == IF n <= Len(text) THEN text[n] ELSE -1
CompareText(s, t) == Or([n \in 1..Longest(s, t) |-> Sign(At(s, n) - At(t, n))])

\* Token.Compare: the end, a dot, characters, a number.
Order(type) ==
  IF type = "num" THEN 3 ELSE IF type = "alpha" THEN 2 ELSE IF type = "sep" THEN 1 ELSE 0

TokenCompare(a, b) ==
  IF a.type # b.type THEN Sign(Order(a.type) - Order(b.type))
  ELSE IF a.type = "num" THEN Sign(Atoi(a.text) - Atoi(b.text))
  ELSE CompareText(a.text, b.text)

\* The loop of compare: the first tokens that are not equal decide.
CompareTokens(a, b) ==
  Or([k \in 1..Longest(a, b) |-> TokenCompare(Token(a, k), Token(b, k))])

\* compare: nothing is older than anything, and only then comes what starts with ~.
compare_LeftTilde(a, b) ==   \* mutant: ~ is only looked for on the left
  IF a = <<>> \/ b = <<>> THEN Sign(Len(a) - Len(b))
  ELSE IF a[1] = Tilde /\ b[1] # Tilde THEN -1
  ELSE CompareTokens(a, b)

compare(a, b) ==
  IF a = <<>> \/ b = <<>> THEN Sign(Len(a) - Len(b))
  ELSE IF a[1] = Tilde /\ b[1] = Tilde THEN CompareTokens(Tail(a), Tail(b))
  ELSE IF a[1] = Tilde THEN -1
  ELSE IF b[1] = Tilde THEN 1
  ELSE CompareTokens(a, b)

Compare(a, b) == Or(<<compare(a.epoch, b.epoch), compare(a.ver, b.ver), compare(a.rel, b.rel)>>)

ComparePackageKey(a, b) == Or(<<a.name - b.name, Compare(a.version, b.version)>>)

\* The place of an architecture from the end of the order, 0 if it has none.
ArchPriority(arch) ==
  IF \A n \in DOMAIN ArchOrder : ArchOrder[n] # arch THEN 0
  ELSE Len(ArchOrder) + 1 - CHOOSE n \in DOMAIN ArchOrder :
         ArchOrder[n] = arch /\ \A m \in 1..(n - 1) : ArchOrder[m] # arch

CompareArch(a, b) == ArchPriority(a) - ArchPriority(b)

ComparePackage(a, b) ==
  Or(<<CompareArch(a.arch, b.arch), b.priority - a.priority, Compare(a.version, b.version)>>)

\* compareRequires, for one that provides: a release only one side names does not
\* count, and what has no version provides any.
Unversioned(v) == v.epoch = <<>> /\ v.ver = <<>> /\ v.rel = <<>>
Provided(dep, entry) == IF entry.rel = <<>> THEN [dep EXCEPT !.rel = <<>>] ELSE dep
Wanted(dep, entry) == IF dep.rel = <<>> THEN [entry EXCEPT !.rel = <<>>] ELSE entry

\* What the flags of a requirement accept of the result of a comparison.
Accepts(flags, result) ==
  \/ flags = "EQ" /\ result = 0
  \/ flags = "LE" /\ result <= 0
  \/ flags = "GE" /\ result >= 0
  \/ flags = "LT" /\ result = -1
  \/ flags = "GT" /\ result = 1

works_OneSided(flags, dep, entry) ==   \* mutant: only the release of the provided version is cut
  Unversioned(Provided(dep, entry)) \/ Accepts(flags, Compare(Provided(dep, entry), entry))

works(flags, dep, entry) ==
  \/ Unversioned(Provided(dep, entry))
  \/ Accepts(flags, Compare(Provided(dep, entry), Wanted(dep, entry)))
=============================================================================

--------------------------- MODULE SealingProofs ----------------------------
(***************************************************************************)
(* Proofs about Sealing, for every value of its constants.                 *)
(*                                                                         *)
(* The files of Digest and Sealing are loops over bytes, so most of what   *)
(* follows is about sequences whose elements have no common type, about    *)
(* cutting them up and joining them, and about folds of them: the streamed *)
(* hash is the standard's, the MAC and the rounds are those of RFC 2104    *)
(* and RFC 8018, equal digests and MACs are of equal bytes, a table that   *)
(* is checksummed in chunks gives what the whole table gives, the counter  *)
(* mode is its own inverse, and counters do not repeat.  The invariant of  *)
(* the operations, and the theorems, come last.                            *)
(***************************************************************************)
EXTENDS Sealing, SequenceTheorems, WellFoundedInduction, TLAPS

-----------------------------------------------------------------------------
(* Sequences whose elements have no common type. *)

Row(s) == s \in Seq(Range(s))

\* a function on 1..n is a row
LEMMA RowOf ==
  ASSUME NEW n \in Nat, NEW s, s = [k \in 1..n |-> s[k]]
  PROVE  Row(s) /\ Len(s) = n /\ DOMAIN s = 1..n
<1>1. s \in [1..n -> Range(s)]
  BY DEF Range
<1>2. s \in Seq(Range(s))
  BY <1>1
<1> QED BY <1>1, <1>2 DEF Row

\* the domain of a row, and its elements
LEMMA RowIs ==
  ASSUME NEW s, Row(s)
  PROVE  Len(s) \in Nat /\ DOMAIN s = 1..Len(s) /\ s = [k \in 1..Len(s) |-> s[k]]
BY DEF Row

\* rows of one length with the same elements are the same
LEMMA RowEqual ==
  ASSUME NEW s, NEW r, Row(s), Row(r), Len(s) = Len(r), \A k \in 1..Len(s) : s[k] = r[k]
  PROVE  s = r
BY RowIs

\* the elements of two rows that are joined
LEMMA Joined ==
  ASSUME NEW s, NEW r, Row(s), Row(r)
  PROVE  /\ Row(s \o r) /\ Len(s \o r) = Len(s) + Len(r)
         /\ \A k \in 1..Len(s) : (s \o r)[k] = s[k]
         /\ \A k \in 1..Len(r) : (s \o r)[Len(s) + k] = r[k]
         /\ \A k \in 1..(Len(s) + Len(r)) : (s \o r)[k] = IF k <= Len(s) THEN s[k] ELSE r[k - Len(s)]
<1> DEFINE S == Range(s) \cup Range(r)
<1>1. s \in Seq(S) /\ r \in Seq(S)
  <2>1. s \in [1..Len(s) -> S] /\ r \in [1..Len(r) -> S]
    BY RowIs DEF Range
  <2> QED BY <2>1, RowIs
<1> HIDE DEF S
<1>2. /\ s \o r \in Seq(S) /\ Len(s \o r) = Len(s) + Len(r)
      /\ \A k \in 1..(Len(s) + Len(r)) : (s \o r)[k] = IF k <= Len(s) THEN s[k] ELSE r[k - Len(s)]
  BY <1>1, ConcatProperties
<1>3. Len(s) + Len(r) \in Nat /\ Len(s) \in Nat /\ Len(r) \in Nat
  BY RowIs
<1>4. Row(s \o r)
  <2>1. PICK c : c = s \o r
    OBVIOUS
  <2>2. c \in Seq(S) /\ Len(c) \in Nat
    BY <1>2, <1>3, <2>1
  <2>3. c = [k \in 1..Len(c) |-> c[k]]
    BY <2>2
  <2> QED BY <2>1, <2>2, <2>3, RowOf
<1> QED BY <1>2, <1>3, <1>4

\* x is s and then r
Glued(x, s, r) == /\ Row(x) /\ Len(x) = Len(s) + Len(r)
                  /\ \A k \in 1..Len(s) : x[k] = s[k]
                  /\ \A k \in 1..Len(r) : x[Len(s) + k] = r[k]

\* the same, where no leaf has to see the concatenation
LEMMA Glue ==
  ASSUME NEW s, NEW r, Row(s), Row(r)
  PROVE  Glued(s \o r, s, r)
<1>1. PICK x : x = s \o r
  OBVIOUS
<1>2. /\ Row(x) /\ Len(x) = Len(s) + Len(r) /\ \A k \in 1..Len(s) : x[k] = s[k]
      /\ \A k \in 1..Len(r) : x[Len(s) + k] = r[k]
  BY <1>1, Joined
<1>3. Glued(x, s, r)
  BY <1>2, Zenon DEF Glued
<1> QED BY <1>1, <1>3

\* the elements of a row with one more
LEMMA Appended ==
  ASSUME NEW s, NEW e, Row(s)
  PROVE  /\ Row(Append(s, e)) /\ Len(Append(s, e)) = Len(s) + 1
         /\ \A k \in 1..Len(s) : Append(s, e)[k] = s[k]
         /\ Append(s, e)[Len(s) + 1] = e
<1> DEFINE S == Range(s) \cup {e}
<1>1. s \in Seq(S) /\ e \in S
  <2>1. s \in [1..Len(s) -> S]
    BY RowIs DEF Range
  <2> QED BY <2>1, RowIs
<1> HIDE DEF S
<1>2. /\ Append(s, e) \in Seq(S) /\ Len(Append(s, e)) = Len(s) + 1
      /\ \A k \in 1..Len(s) : Append(s, e)[k] = s[k]
      /\ Append(s, e)[Len(s) + 1] = e
  BY <1>1, AppendProperties
<1>3. Len(s) + 1 \in Nat
  BY RowIs
<1>4. Row(Append(s, e))
  <2>1. PICK c : c = Append(s, e)
    OBVIOUS
  <2>2. c \in Seq(S) /\ Len(c) \in Nat
    BY <1>2, <1>3, <2>1
  <2>3. c = [k \in 1..Len(c) |-> c[k]]
    BY <2>2
  <2> QED BY <2>1, <2>2, <2>3, RowOf
<1> QED BY <1>2, <1>4

\* the elements of a part of a row
LEMMA Cut ==
  ASSUME NEW s, Row(s), NEW a \in Nat \ {0}, NEW b \in Nat, b <= Len(s), a <= b + 1
  PROVE  /\ Row(SubSeq(s, a, b)) /\ Len(SubSeq(s, a, b)) = b - a + 1
         /\ \A k \in 1..(b - a + 1) : SubSeq(s, a, b)[k] = s[a + k - 1]
<1>1. SubSeq(s, a, b) = [k \in 1..(b - a + 1) |-> s[a + k - 1]]
  OBVIOUS
<1>2. b - a + 1 \in Nat
  OBVIOUS
<1> DEFINE r == SubSeq(s, a, b)
<1>3. r = [k \in 1..(b - a + 1) |-> r[k]]
  BY <1>1
<1>4. Row(r) /\ Len(r) = b - a + 1
  <2> HIDE DEF r
  <2> QED BY <1>2, <1>3, RowOf
<1> QED BY <1>1, <1>4

-----------------------------------------------------------------------------
(* Induction, and what a fold of a sequence computes. *)

\* what holds of 0 and of the successor of each number up to m
LEMMA UpTo ==
  ASSUME NEW m \in Nat, NEW T, 0 \in T, \A k \in 0..(m - 1) : k \in T => k + 1 \in T
  PROVE  \A k \in 0..m : k \in T
<1> DEFINE R == OpToRel(<, Nat)
           U == {k \in 0..m : k \notin T}
<1>1. ASSUME NEW x \in Nat, NEW y \in Nat, y < x PROVE <<y, x>> \in R
  BY <1>1 DEF OpToRel
<1>2. IsWellFoundedOn(R, Nat)
  BY NatLessThanWellFounded
<1> HIDE DEF R
<1>3. SUFFICES ASSUME U # {} PROVE FALSE
  OBVIOUS
<1>4. PICK x \in U : \A y \in U : ~ (<<y, x>> \in R)
  <2>1. U \subseteq Nat
    OBVIOUS
  <2> HIDE DEF U
  <2> QED BY <1>2, <1>3, <2>1, WFMin, Zenon
<1>5. x # 0 /\ x - 1 \in 0..(m - 1) /\ x - 1 < x
  OBVIOUS
<1>6. x - 1 \in T
  <2>1. x \in Nat /\ x - 1 \in Nat /\ x - 1 \in 0..m
    BY <1>5
  <2>2. <<x - 1, x>> \in R
    BY <1>1, <1>5, <2>1
  <2>3. x - 1 \notin U
    BY <1>4, <2>2
  <2> QED BY <2>1, <2>3
<1> QED BY <1>4, <1>5, <1>6

\* the greatest number of a set, as the folds take it
LEMMA MaxOf ==
  ASSUME NEW m \in Nat, NEW s \in SUBSET (1..m), s # {}
  PROVE  Max(s) \in s /\ (\A y \in s : Max(s) >= y) /\ (m \in s => Max(s) = m)
<1>1. \E x \in s : \A y \in s : x >= y
  <2> DEFINE T == {k \in 0..m : \A r \in SUBSET (1..k) : r # {} => \E x \in r : \A y \in r : x >= y}
  <2>1. 0 \in T
    <3>1. ASSUME NEW r \in SUBSET (1..0) PROVE r = {}
      OBVIOUS
    <3>2. 0 \in 0..m
      OBVIOUS
    <3> QED BY <3>1, <3>2, Zenon
  <2>2. ASSUME NEW k \in 0..(m - 1), k \in T PROVE k + 1 \in T
    <3>1. ASSUME NEW r \in SUBSET (1..(k + 1)), r # {} PROVE \E x \in r : \A y \in r : x >= y
      <4>1. CASE k + 1 \in r
        BY <4>1
      <4>2. CASE k + 1 \notin r
        <5>1. r \in SUBSET (1..k)
          BY <4>2
        <5> QED BY <2>2, <3>1, <5>1
      <4> QED BY <4>1, <4>2
    <3> QED BY <3>1
  <2> HIDE DEF T
  <2>3. \A k \in 0..m : k \in T
    BY <2>1, <2>2, UpTo
  <2>4. m \in T
    BY <2>3
  <2> QED BY <2>4 DEF T
<1> DEFINE p == CHOOSE x \in s : \A y \in s : x >= y
<1>2. p \in s /\ \A y \in s : p >= y
  BY <1>1
<1>3. Max(s) = p
  BY DEF Max
<1> HIDE DEF p
<1>4. m \in s => p = m
  BY <1>2
<1> QED BY <1>2, <1>3, <1>4

\* the four operators that are folded
Step(f, x, y) == CASE f = "push"   -> Push(x, y)
                   [] f = "update" -> SHA256_Update(x, y)
                   [] f = "xor"    -> XorBytes(x, y)
                   [] f = "feed"   -> CRC_Drv_Feed(x, y)

Folds(f, base, s, m, g) ==
  g = [r \in SUBSET (1..m) |-> IF r = {} THEN base ELSE Step(f, g[r \ {Max(r)}], s[Max(r)])]

\* the recursion of a fold has a solution, which the folds choose
LEMMA FoldExists ==
  ASSUME NEW f, NEW base, NEW s, NEW n \in Nat
  PROVE  \E g : Folds(f, base, s, n, g)
<1> DEFINE T == {m \in 0..n : \E g : Folds(f, base, s, m, g)}
<1>1. 0 \in T
  <2> DEFINE g == [r \in SUBSET (1..0) |-> base]
  <2>1. Folds(f, base, s, 0, g)
    <3>1. SUBSET (1..0) = {{}}
      OBVIOUS
    <3> QED BY <3>1 DEF Folds
  <2> QED BY <2>1
<1>2. ASSUME NEW m \in 0..(n - 1), m \in T PROVE m + 1 \in T
  <2>1. PICK g : Folds(f, base, s, m, g)
    BY <1>2
  <2> DEFINE e == [r \in SUBSET (1..(m + 1)) |->
                     IF m + 1 \in r THEN Step(f, g[r \ {m + 1}], s[m + 1]) ELSE g[r]]
             V(r) == IF r = {} THEN base ELSE Step(f, e[r \ {Max(r)}], s[Max(r)])
  <2>2. ASSUME NEW r \in SUBSET (1..(m + 1)) PROVE e[r] = V(r)
    <3>1. CASE m + 1 \in r
      <4>1. Max(r) = m + 1
        BY <3>1, MaxOf
      <4>2. r \ {m + 1} \in SUBSET (1..m) /\ m + 1 \notin r \ {m + 1}
        OBVIOUS
      <4>3. r \ {m + 1} \in SUBSET (1..(m + 1))
        OBVIOUS
      <4>4. e[r \ {m + 1}] = g[r \ {m + 1}]
        BY <4>2, <4>3
      <4>5. e[r] = Step(f, g[r \ {m + 1}], s[m + 1])
        BY <3>1
      <4> QED BY <3>1, <4>1, <4>4, <4>5
    <3>2. CASE m + 1 \notin r
      <4>1. r \in SUBSET (1..m) /\ r \ {Max(r)} \in SUBSET (1..(m + 1)) /\ m + 1 \notin r \ {Max(r)}
        <5>1. r \in SUBSET (1..m)
          BY <3>2
        <5>2. ASSUME NEW y PROVE r \ {y} \in SUBSET (1..(m + 1)) /\ m + 1 \notin r \ {y}
          BY <3>2
        <5> QED BY <5>1, <5>2, Zenon
      <4>2. e[r] = g[r] /\ e[r \ {Max(r)}] = g[r \ {Max(r)}]
        BY <3>2, <4>1
      <4>3. g[r] = IF r = {} THEN base ELSE Step(f, g[r \ {Max(r)}], s[Max(r)])
        BY <2>1, <4>1, Zenon DEF Folds
      <4> QED BY <4>2, <4>3
    <3> QED BY <3>1, <3>2
  <2>3. e = [r \in SUBSET (1..(m + 1)) |-> e[r]]
    OBVIOUS
  <2> HIDE DEF e
  <2>4. e = [r \in SUBSET (1..(m + 1)) |-> V(r)]
    BY <2>2, <2>3
  <2>5. Folds(f, base, s, m + 1, e)
    BY <2>4, Zenon DEF Folds
  <2> QED BY <2>5
<1> HIDE DEF T
<1>3. n \in T
  BY <1>1, <1>2, UpTo
<1> QED BY <1>3 DEF T

\* a fold goes from the base through the elements in turn
Turns(f, base, s, n, h) == h[0] = base /\ \A k \in 1..n : h[k] = Step(f, h[k - 1], s[k])

\* what the recursion computes, element by element
LEMMA FoldTurns ==
  ASSUME NEW f, NEW base, NEW s, NEW n \in Nat, NEW g, Folds(f, base, s, n, g)
  PROVE  \E h : Turns(f, base, s, n, h) /\ h[n] = g[1..n]
<1> DEFINE h == [k \in 0..n |-> g[1..k]]
<1>1. h[0] = base
  <2>1. 1..0 = {} /\ {} \in SUBSET (1..n)
    OBVIOUS
  <2>2. g[{}] = base
    BY <2>1 DEF Folds
  <2> QED BY <2>1, <2>2
<1>2. ASSUME NEW k \in 1..n PROVE h[k] = Step(f, h[k - 1], s[k])
  <2>1. 1..k \in SUBSET (1..n) /\ 1..k # {} /\ k \in 1..k /\ (1..k) \ {k} = 1..(k - 1) /\ 1..k \in SUBSET (1..k)
    OBVIOUS
  <2>2. Max(1..k) = k
    BY <2>1, MaxOf
  <2>3. g[1..k] = Step(f, g[(1..k) \ {k}], s[k])
    BY <2>1, <2>2 DEF Folds
  <2>4. h[k] = g[1..k] /\ h[k - 1] = g[1..(k - 1)]
    OBVIOUS
  <2> QED BY <2>1, <2>3, <2>4, Zenon
<1>3. h[n] = g[1..n]
  OBVIOUS
<1> HIDE DEF h
<1>4. Turns(f, base, s, n, h)
  BY <1>1, <1>2 DEF Turns
<1> QED BY <1>3, <1>4

\* SHA256_Update pushes the bytes in turn
LEMMA UpdateTurns ==
  ASSUME NEW ctx, NEW s, Row(s)
  PROVE  \E h : Turns("push", ctx, s, Len(s), h) /\ SHA256_Update(ctx, s) = h[Len(s)]
<1> DEFINE G(g) == [r \in SUBSET (1..Len(s)) |-> IF r = {} THEN ctx ELSE Push(g[r \ {Max(r)}], s[Max(r)])]
           p    == CHOOSE g : g = G(g)
<1>1. SHA256_Update(ctx, s) = p[1..Len(s)]
  <2>1. DOMAIN s = 1..Len(s)
    BY RowIs
  <2> QED BY <2>1, Zenon DEF SHA256_Update, FoldLeft, MapThenFoldSet
<1>2. \A x, y : Step("push", x, y) = Push(x, y)
  BY DEF Step
<1>3. \E g : g = G(g)
  <2>1. PICK g : Folds("push", ctx, s, Len(s), g)
    BY FoldExists, RowIs
  <2>2. g = G(g)
    BY <1>2, <2>1, Zenon DEF Folds
  <2> QED BY <2>2
<1>4. p = G(p)
  BY <1>3, Zenon
<1> HIDE DEF p
<1>5. Folds("push", ctx, s, Len(s), p)
  BY <1>2, <1>4, Zenon DEF Folds
<1> QED BY <1>1, <1>5, FoldTurns, RowIs

-----------------------------------------------------------------------------
(* The streamed hash.  A context that has absorbed w holds its whole blocks *)
(* and the rest of it.                                                      *)

\* w is the blocks a and then b
CutInto(w, a, b) ==
  /\ Row(a) /\ Row(b) /\ Len(b) < BlockLen
  /\ Len(w) = BlockLen * Len(a) + Len(b)
  /\ \A j \in 1..Len(a) : /\ Row(a[j]) /\ Len(a[j]) = BlockLen
                          /\ \A k \in 1..BlockLen : a[j][k] = w[BlockLen * (j - 1) + k]
  /\ \A k \in 1..Len(b) : b[k] = w[BlockLen * Len(a) + k]

Context(a, b) == [blocks |-> a, buffer |-> b, bits |-> 8 * (BlockLen * Len(a))]

Absorbed(ctx, w) == \E a, b : CutInto(w, a, b) /\ ctx = Context(a, b)

\* the sizes that the hash is built on
LEMMA Sizes ==
  /\ BlockLen \in Nat /\ LenOffset \in Nat /\ 0 < LenOffset /\ LenOffset < BlockLen
  /\ DigestLen \in Nat /\ 0 < DigestLen /\ DigestLen <= BlockLen
BY DigestAssumption

\* nothing is a row
LEMMA EmptyRow == Row(<<>>) /\ Len(<<>>) = 0
BY DEF Row

\* a new context has absorbed nothing
LEMMA Fresh == Absorbed(SHA256_Init, <<>>)
<1>1. CutInto(<<>>, <<>>, <<>>)
  BY Sizes, EmptyRow DEF CutInto
<1>2. SHA256_Init = Context(<<>>, <<>>)
  BY Sizes, EmptyRow DEF Context, SHA256_Init
<1> QED BY <1>1, <1>2 DEF Absorbed

\* the place of a byte: block j begins inside what was absorbed
LEMMA Inside ==
  ASSUME NEW n \in Nat, NEW j \in 1..n, NEW k \in 1..BlockLen
  PROVE  BlockLen * (j - 1) + k \in 1..(BlockLen * n)
<1>1. BlockLen * (j - 1) \in Nat /\ BlockLen * n = BlockLen * (j - 1) + BlockLen * (n - j + 1)
  BY Sizes
<1>2. BlockLen * (n - j + 1) = BlockLen * (n - j) + BlockLen /\ BlockLen * (n - j) \in Nat
  BY Sizes
<1> QED BY <1>1, <1>2, Sizes

\* one byte more, which may complete a block
LEMMA PushAbsorbs ==
  ASSUME NEW ctx, NEW w, NEW v, NEW e, Absorbed(ctx, w),
         Len(v) = Len(w) + 1, \A k \in 1..Len(w) : v[k] = w[k], v[Len(w) + 1] = e
  PROVE  Absorbed(Push(ctx, e), v)
<1>a. PICK a, b : CutInto(w, a, b) /\ ctx = Context(a, b)
  BY DEF Absorbed
<1> DEFINE n == Len(a)
<1>1. /\ Row(a) /\ Row(b) /\ n \in Nat /\ Len(b) \in Nat /\ Len(b) < BlockLen
      /\ Len(w) = BlockLen * n + Len(b) /\ BlockLen * n \in Nat
  BY <1>a, RowIs, Sizes DEF CutInto
<1>b. ctx.blocks = a /\ ctx.buffer = b /\ ctx.bits = 8 * (BlockLen * n)
  BY <1>a DEF Context
<1>c. PICK c : c = Append(b, e)
  OBVIOUS
<1>d. Len(v) = BlockLen * n + (Len(b) + 1)
  <2>1. PICK q \in Nat : q = BlockLen * n
    BY <1>1
  <2>2. Len(v) = q + Len(b) + 1
    BY <1>1, <2>1
  <2> QED BY <1>1, <2>1, <2>2
<1>2. Row(c) /\ Len(c) = Len(b) + 1 /\ (\A k \in 1..Len(b) : c[k] = b[k]) /\ c[Len(b) + 1] = e
  BY <1>1, <1>c, Appended
<1>3. \A j \in 1..n : /\ Row(a[j]) /\ Len(a[j]) = BlockLen
                      /\ \A k \in 1..BlockLen : a[j][k] = v[BlockLen * (j - 1) + k]
  <2>1. ASSUME NEW j \in 1..n, NEW k \in 1..BlockLen PROVE a[j][k] = v[BlockLen * (j - 1) + k]
    <3>1. BlockLen * (j - 1) + k \in 1..(BlockLen * n)
      BY <1>1, Inside
    <3>2. BlockLen * (j - 1) + k \in 1..Len(w)
      BY <1>1, <3>1
    <3>3. a[j][k] = w[BlockLen * (j - 1) + k]
      BY <1>a DEF CutInto
    <3> QED BY <3>2, <3>3
  <2> QED BY <1>a, <2>1 DEF CutInto
<1>4. \A k \in 1..Len(c) : c[k] = v[BlockLen * n + k]
  <2>1. ASSUME NEW k \in 1..Len(b) PROVE c[k] = v[BlockLen * n + k]
    <3>1. BlockLen * n + k \in 1..Len(w)
      BY <1>1
    <3>2. b[k] = w[BlockLen * n + k]
      BY <1>a DEF CutInto
    <3> QED BY <1>2, <3>1, <3>2
  <2>2. c[Len(b) + 1] = v[BlockLen * n + (Len(b) + 1)]
    BY <1>1, <1>2, <1>d
  <2>3. \A k \in 1..Len(c) : k \in 1..Len(b) \/ k = Len(b) + 1
    BY <1>1, <1>2
  <2> QED BY <2>1, <2>2, <2>3
<1>5. CASE Len(c) = BlockLen
  <2>1. PICK d : d = Append(a, c)
    OBVIOUS
  <2>2. Row(d) /\ Len(d) = n + 1 /\ (\A j \in 1..n : d[j] = a[j]) /\ d[n + 1] = c
    BY <1>1, <2>1, Appended
  <2>3. BlockLen * (n + 1) = BlockLen * n + BlockLen
    BY <1>1, Sizes
  <2>4. ASSUME NEW j \in 1..(n + 1)
        PROVE  Row(d[j]) /\ Len(d[j]) = BlockLen /\ \A k \in 1..BlockLen : d[j][k] = v[BlockLen * (j - 1) + k]
    <3>1. CASE j \in 1..n
      BY <1>3, <2>2, <3>1
    <3>2. CASE j = n + 1
      <4>1. j - 1 = n
        BY <1>1, <3>2
      <4>2. d[j] = c
        BY <2>2, <3>2
      <4>3. Row(d[j]) /\ Len(d[j]) = BlockLen /\ \A k \in 1..BlockLen : d[j][k] = v[BlockLen * n + k]
        BY <1>2, <1>4, <1>5, <4>2
      <4> QED BY <4>1, <4>3
    <3>3. n \in Nat
      BY <1>1
    <3>4. j \in 1..n \/ j = n + 1
      BY <3>3
    <3> QED BY <3>1, <3>2, <3>4
  <2>5. Len(v) = BlockLen * (n + 1) + 0
    <3>1. Len(c) = Len(b) + 1 /\ Len(c) = BlockLen
      BY <1>2, <1>5
    <3> QED BY <1>1, <1>d, <2>3, <3>1, Sizes
  <2>6. CutInto(v, d, <<>>)
    BY <2>2, <2>4, <2>5, EmptyRow, Sizes DEF CutInto
  <2>7. 8 * (BlockLen * n) + 8 * BlockLen = 8 * (BlockLen * Len(d))
    BY <1>1, <2>2, <2>3, Sizes
  <2>8. Push(ctx, e) = [blocks |-> d, buffer |-> <<>>, bits |-> 8 * (BlockLen * n) + 8 * BlockLen]
    BY <1>5, <1>b, <1>c, <2>1 DEF Push
  <2>9. Push(ctx, e) = Context(d, <<>>)
    BY <2>7, <2>8 DEF Context
  <2> QED BY <2>6, <2>9 DEF Absorbed
<1>6. CASE Len(c) # BlockLen
  <2>1. Push(ctx, e) = [ctx EXCEPT !.buffer = c]
    BY <1>6, <1>b, <1>c DEF Push
  <2>2. Push(ctx, e) = Context(a, c)
    BY <1>a, <2>1 DEF Context
  <2>3. Len(c) < BlockLen /\ Len(v) = BlockLen * n + Len(c)
    <3>1. Len(c) = Len(b) + 1
      BY <1>2
    <3>2. Len(b) \in Nat /\ Len(b) < BlockLen
      BY <1>1
    <3> QED BY <1>6, <1>d, <3>1, <3>2, Sizes
  <2>4. CutInto(v, a, c)
    BY <1>1, <1>2, <1>3, <1>4, <2>3 DEF CutInto
  <2> QED BY <2>2, <2>4 DEF Absorbed
<1> QED BY <1>5, <1>6

\* what is given to SHA256_Update comes after what was given before
LEMMA UpdateAbsorbs ==
  ASSUME NEW ctx, NEW w, NEW s, Row(w), Row(s), Absorbed(ctx, w)
  PROVE  Absorbed(SHA256_Update(ctx, s), w \o s)
<1> DEFINE v(m) == [k \in 1..(Len(w) + m) |-> (w \o s)[k]]
<1>1. PICK h : Turns("push", ctx, s, Len(s), h) /\ SHA256_Update(ctx, s) = h[Len(s)]
  BY UpdateTurns
<1>2. Len(w) \in Nat /\ Len(s) \in Nat
  BY RowIs
<1>3. \A m \in 0..Len(s) : Len(v(m)) = Len(w) + m /\ \A k \in 1..(Len(w) + m) : v(m)[k] = (w \o s)[k]
  BY <1>2
<1>4. v(0) = w /\ v(Len(s)) = w \o s
  <2>1. \A k \in 1..Len(w) : (w \o s)[k] = w[k]
    BY Joined
  <2>2. w = [k \in 1..Len(w) |-> w[k]]
    BY RowIs
  <2>3. w \o s = [k \in 1..(Len(w) + Len(s)) |-> (w \o s)[k]]
    <3>1. Row(w \o s) /\ Len(w \o s) = Len(w) + Len(s)
      BY Joined
    <3> QED BY <3>1, RowIs
  <2> QED BY <1>2, <2>1, <2>2, <2>3
<1>5. \A k \in 1..Len(s) : (w \o s)[Len(w) + k] = s[k]
  BY Joined
<1> HIDE DEF v
<1> DEFINE T == {m \in 0..Len(s) : Absorbed(h[m], v(m))}
<1>6. 0 \in T
  BY <1>1, <1>2, <1>4 DEF Turns
<1>7. ASSUME NEW m \in 0..(Len(s) - 1), m \in T PROVE m + 1 \in T
  <2>1. m \in 0..Len(s) /\ m + 1 \in 1..Len(s) /\ m + 1 \in 0..Len(s) /\ (m + 1) - 1 = m /\ m \in Nat
    BY <1>2
  <2>2. h[m + 1] = Push(h[m], s[m + 1])
    <3>1. h[m + 1] = Step("push", h[(m + 1) - 1], s[m + 1])
      BY <1>1, <2>1 DEF Turns
    <3> QED BY <2>1, <3>1 DEF Step
  <2>3. /\ Len(v(m + 1)) = Len(v(m)) + 1
        /\ \A k \in 1..Len(v(m)) : v(m + 1)[k] = v(m)[k]
        /\ v(m + 1)[Len(v(m)) + 1] = s[m + 1]
    BY <1>2, <1>3, <1>5, <2>1, SMTT(40)
  <2>4. Absorbed(h[m + 1], v(m + 1))
    BY <1>7, <2>2, <2>3, PushAbsorbs
  <2> QED BY <2>1, <2>4
<1> HIDE DEF T
<1>8. \A m \in 0..Len(s) : m \in T
  BY <1>2, <1>6, <1>7, UpTo
<1>9. Len(s) \in T
  BY <1>2, <1>8
<1> QED BY <1>1, <1>4, <1>9 DEF T

-----------------------------------------------------------------------------
(* Division. *)

\* a multiple is a step below the next greater one
LEMMA Multiples ==
  ASSUME NEW n \in Nat, NEW p \in Nat, NEW q \in Nat, p < q
  PROVE  n * p + n <= n * q /\ n * p \in Nat /\ n * q \in Nat
<1>1. PICK d \in Nat : q = p + 1 + d
  <2>1. q - p - 1 \in Nat /\ q = p + 1 + (q - p - 1)
    OBVIOUS
  <2> QED BY <2>1
<1>2. n * q = n * p + n + n * d
  BY <1>1
<1>3. n * d \in Nat /\ n * p \in Nat
  OBVIOUS
<1> QED BY <1>2, <1>3

\* quotient and remainder
LEMMA Divided ==
  ASSUME NEW a \in Nat, NEW n \in Nat \ {0}
  PROVE  a \div n \in Nat /\ a % n \in 0..(n - 1) /\ a = n * (a \div n) + (a % n)
OBVIOUS

\* and that there is only one of each
LEMMA Quotient ==
  ASSUME NEW n \in Nat \ {0}, NEW q \in Nat, NEW r \in Nat, r < n, NEW a, a = n * q + r
  PROVE  a \div n = q /\ a % n = r
<1>1. a \in Nat
  BY Multiples
<1> DEFINE p == a \div n
           s == a % n
<1>2. p \in Nat /\ s \in 0..(n - 1) /\ a = n * p + s
  BY <1>1, Divided
<1> HIDE DEF p, s
<1>3. ~ (p < q)
  BY <1>2, Multiples
<1>4. ~ (q < p)
  BY <1>2, Multiples
<1>5. p = q
  BY <1>2, <1>3, <1>4
<1>6. s = r
  <2>1. n * p = n * q /\ n * q \in Nat
    BY <1>5
  <2> QED BY <1>2, <2>1
<1> QED BY <1>5, <1>6 DEF p, s

\* the number of pieces
LEMMA Ceiling ==
  ASSUME NEW n \in Nat \ {0}, NEW q \in Nat, NEW a \in Nat, a <= n * q, n * q < a + n
  PROVE  (a + n - 1) \div n = q
<1>1. n * q \in Nat
  OBVIOUS
<1>2. a + n - 1 - n * q \in Nat /\ a + n - 1 - n * q < n /\ a + n - 1 = n * q + (a + n - 1 - n * q)
  BY <1>1
<1> QED BY <1>2, Quotient

\* d is s cut up into q pieces of n
CutUp(d, q, n, s) ==
  /\ Row(d) /\ Len(d) = q
  /\ \A j \in 1..q : Row(d[j]) /\ Len(d[j]) = n /\ \A k \in 1..n : d[j][k] = s[n * (j - 1) + k]

\* pieces of a sequence that is cut up without a rest
LEMMA WholePieces ==
  ASSUME NEW n \in Nat \ {0}, NEW q \in Nat, NEW s, Row(s), Len(s) = n * q
  PROVE  CutUp(Pieces(s, n), q, n, s)
<1> DEFINE p == Pieces(s, n)
<1>1. Len(s) \in Nat /\ n * q \in Nat
  BY RowIs
<1>2. (Len(s) + n - 1) \div n = q
  BY <1>1, Ceiling
<1>3. p = [j \in 1..q |-> SubSeq(s, n * (j - 1) + 1, IF n * j < Len(s) THEN n * j ELSE Len(s))]
  BY <1>2 DEF Pieces
<1>4. p = [j \in 1..q |-> p[j]]
  BY <1>3
<1>5. ASSUME NEW j \in 1..q
      PROVE  Row(p[j]) /\ Len(p[j]) = n /\ \A k \in 1..n : p[j][k] = s[n * (j - 1) + k]
  <2>1. n * j <= Len(s) /\ n * j \in Nat
    <3>1. j = q \/ j < q
      OBVIOUS
    <3>2. CASE j < q
      <4>1. n * j + n <= n * q /\ n * j \in Nat
        BY <3>2, Multiples
      <4> QED BY <1>1, <4>1
    <3> QED BY <1>1, <3>1, <3>2
  <2>2. n * j = n * (j - 1) + n /\ n * (j - 1) \in Nat
    OBVIOUS
  <2>3. p[j] = SubSeq(s, n * (j - 1) + 1, n * j)
    <3>1. (IF n * j < Len(s) THEN n * j ELSE Len(s)) = n * j
      BY <1>1, <2>1
    <3> QED BY <1>3, <3>1
  <2>4. PICK a \in Nat : a = n * (j - 1)
    BY <2>2
  <2>5. p[j] = SubSeq(s, a + 1, a + n) /\ a + n <= Len(s)
    BY <2>1, <2>2, <2>3, <2>4
  <2>6. Row(SubSeq(s, a + 1, a + n)) /\ Len(SubSeq(s, a + 1, a + n)) = a + n - (a + 1) + 1
        /\ \A k \in 1..(a + n - (a + 1) + 1) : SubSeq(s, a + 1, a + n)[k] = s[(a + 1) + k - 1]
    BY <2>5, Cut
  <2>7. a + n - (a + 1) + 1 = n /\ \A k \in 1..n : (a + 1) + k - 1 = a + k
    OBVIOUS
  <2> HIDE DEF p
  <2> QED BY <2>4, <2>5, <2>6, <2>7
<1>6. Row(p) /\ Len(p) = q
  <2> HIDE DEF p
  <2> QED BY <1>4, RowOf
<1> HIDE DEF p
<1>7. CutUp(p, q, n, s)
  BY <1>5, <1>6 DEF CutUp
<1> QED BY <1>7 DEF p

-----------------------------------------------------------------------------
(* The end of the hash: the standard's padding. *)

Mark == {<<"pad">>}

\* the bytes of the filling
LEMMA ZeroRow ==
  ASSUME NEW n \in Nat
  PROVE  Row(Zeros(n)) /\ Len(Zeros(n)) = n /\ \A k \in 1..n : Zeros(n)[k] = {}
<1>1. PICK v : v = Zeros(n)
  OBVIOUS
<1>2. v = [k \in 1..n |-> v[k]] /\ \A k \in 1..n : v[k] = {}
  BY <1>1 DEF Zeros
<1> QED BY <1>1, <1>2, RowOf

\* the bytes of the length field
LEMMA LengthRow ==
  ASSUME NEW b
  PROVE  /\ Row(LengthField(b)) /\ Len(LengthField(b)) = BlockLen - LenOffset
         /\ \A k \in 1..(BlockLen - LenOffset) : LengthField(b)[k] = {<<"length", b, k>>}
<1>1. PICK v : v = LengthField(b)
  OBVIOUS
<1>2. /\ v = [k \in 1..(BlockLen - LenOffset) |-> v[k]]
      /\ \A k \in 1..(BlockLen - LenOffset) : v[k] = {<<"length", b, k>>}
  BY <1>1 DEF LengthField
<1>3. BlockLen - LenOffset \in Nat
  BY Sizes
<1> QED BY <1>1, <1>2, <1>3, RowOf

\* a row of one byte
LEMMA OneByte == ASSUME NEW e PROVE Row(<<e>>) /\ Len(<<e>>) = 1 /\ <<e>>[1] = e
BY DEF Row, Range

\* b, the mark, z zeroes and the length field
Padded(v, b, z, n) ==
  /\ Row(v) /\ Len(v) = Len(b) + 1 + z + (BlockLen - LenOffset)
  /\ \A k \in 1..Len(b) : v[k] = b[k]
  /\ v[Len(b) + 1] = Mark
  /\ \A k \in 1..z : v[Len(b) + 1 + k] = {}
  /\ \A k \in 1..(BlockLen - LenOffset) : v[Len(b) + 1 + z + k] = {<<"length", n, k>>}

\* what is glued together in SHA256_Final and in the standard is padded
LEMMA Ending ==
  ASSUME NEW b, Row(b), NEW z \in Nat, NEW n
  PROVE  \E v : v = b \o <<Mark>> \o Zeros(z) \o LengthField(n) /\ Padded(v, b, z, n)
<1>1. PICK x : x = b \o <<Mark>>
  OBVIOUS
<1>2. Row(x) /\ Len(x) = Len(b) + 1 /\ (\A k \in 1..Len(b) : x[k] = b[k]) /\ x[Len(b) + 1] = Mark /\ Len(b) \in Nat
  <2>1. /\ Row(x) /\ Len(x) = Len(b) + Len(<<Mark>>) /\ \A k \in 1..Len(b) : x[k] = b[k]
        /\ \A k \in 1..Len(<<Mark>>) : x[Len(b) + k] = <<Mark>>[k]
    BY <1>1, Joined, OneByte
  <2> QED BY <2>1, OneByte, RowIs
<1>3. PICK r, y : r = Zeros(z) /\ y = x \o r
  OBVIOUS
<1>4. Row(y) /\ Len(y) = Len(x) + z /\ (\A k \in 1..Len(x) : y[k] = x[k]) /\ \A k \in 1..z : y[Len(x) + k] = {}
  <2>0. Row(r) /\ Len(r) = z /\ \A k \in 1..z : r[k] = {}
    BY <1>3, ZeroRow
  <2>1. /\ Row(y) /\ Len(y) = Len(x) + Len(r) /\ \A k \in 1..Len(x) : y[k] = x[k]
        /\ \A k \in 1..Len(r) : y[Len(x) + k] = r[k]
    <3>1. Row(x) /\ Row(r) /\ y = x \o r
      BY <1>2, <1>3, <2>0
    <3> QED BY <3>1, Joined
  <2> QED BY <2>0, <2>1
<1>5. PICK v : v = y \o LengthField(n)
  OBVIOUS
<1>6. /\ Row(v) /\ Len(v) = Len(y) + (BlockLen - LenOffset) /\ \A k \in 1..Len(y) : v[k] = y[k]
      /\ \A k \in 1..(BlockLen - LenOffset) : v[Len(y) + k] = {<<"length", n, k>>}
  <2>1. /\ Row(v) /\ Len(v) = Len(y) + Len(LengthField(n)) /\ \A k \in 1..Len(y) : v[k] = y[k]
        /\ \A k \in 1..Len(LengthField(n)) : v[Len(y) + k] = LengthField(n)[k]
    BY <1>4, <1>5, Joined, LengthRow
  <2> QED BY <2>1, LengthRow
<1>7. v = b \o <<Mark>> \o Zeros(z) \o LengthField(n)
  BY <1>1, <1>3, <1>5
<1>8. Len(x) = Len(b) + 1 /\ Len(y) = Len(b) + 1 + z /\ Len(b) \in Nat
  BY <1>2, <1>4
<1>9. Len(v) = Len(b) + 1 + z + (BlockLen - LenOffset)
  BY <1>6, <1>8
<1>10. \A k \in 1..Len(b) : v[k] = b[k]
  <2>1. \A k \in 1..Len(b) : k \in 1..Len(x) /\ k \in 1..Len(y)
    BY <1>8
  <2>2. \A k \in 1..Len(b) : v[k] = y[k] /\ y[k] = x[k] /\ x[k] = b[k]
    BY <1>2, <1>4, <1>6, <2>1
  <2> QED BY <2>2
<1>11. v[Len(b) + 1] = Mark
  <2>1. Len(b) + 1 \in 1..Len(x) /\ Len(b) + 1 \in 1..Len(y)
    BY <1>8
  <2> QED BY <1>2, <1>4, <1>6, <2>1
<1>12. \A k \in 1..z : v[Len(b) + 1 + k] = {}
  <2>1. \A k \in 1..z : Len(b) + 1 + k \in 1..Len(y)
    BY <1>8
  <2>2. \A k \in 1..z : y[Len(b) + 1 + k] = {}
    BY <1>4, <1>8
  <2> QED BY <1>6, <2>1, <2>2
<1>13. \A k \in 1..(BlockLen - LenOffset) : v[Len(b) + 1 + z + k] = {<<"length", n, k>>}
  BY <1>6, <1>8
<1> QED BY <1>6, <1>7, <1>9, <1>10, <1>11, <1>12, <1>13, ZenonT(40) DEF Padded

\* how many zeroes the standard asks for after n blocks and r bytes
Zeroes(r) == IF r < LenOffset THEN LenOffset - 1 - r ELSE BlockLen + LenOffset - 1 - r
Blocks(n, r) == IF r < LenOffset THEN n + 1 ELSE n + 2

\* with these zeroes the blocks are whole, and the standard chooses no others
LEMMA Filled ==
  ASSUME NEW n \in Nat, NEW r \in Nat, r < BlockLen, NEW a, a = BlockLen * n + r
  PROVE  /\ Zeroes(r) \in 0..(BlockLen - 1) /\ Blocks(n, r) \in Nat
         /\ a + 1 + Zeroes(r) + (BlockLen - LenOffset) = BlockLen * Blocks(n, r)
         /\ Zeroes(r) = CHOOSE z \in 0..(BlockLen - 1) : (a + 1 + z + (BlockLen - LenOffset)) % BlockLen = 0
<1>0. BlockLen \in Nat \ {0} /\ BlockLen * n \in Nat /\ BlockLen * (n + 1) = BlockLen * n + BlockLen
      /\ BlockLen * (n + 2) = BlockLen * n + BlockLen + BlockLen
  BY Sizes
<1>1. Zeroes(r) \in 0..(BlockLen - 1) /\ Blocks(n, r) \in Nat
  BY Sizes DEF Zeroes, Blocks
<1>2. a + 1 + Zeroes(r) + (BlockLen - LenOffset) = BlockLen * Blocks(n, r)
  <2>1. CASE r < LenOffset
    BY <1>0, <2>1, Sizes DEF Zeroes, Blocks
  <2>2. CASE ~ (r < LenOffset)
    BY <1>0, <2>2, Sizes DEF Zeroes, Blocks
  <2> QED BY <2>1, <2>2
<1> DEFINE Fits(z) == (a + 1 + z + (BlockLen - LenOffset)) % BlockLen = 0
<1>3. Fits(Zeroes(r))
  <2>1. a + 1 + Zeroes(r) + (BlockLen - LenOffset) = BlockLen * Blocks(n, r) + 0
    BY <1>0, <1>1, <1>2
  <2> QED BY <1>0, <1>1, <2>1, Quotient
<1>4. ASSUME NEW z \in 0..(BlockLen - 1), Fits(z) PROVE z = Zeroes(r)
  <2>1. PICK b : b = a + 1 + z + (BlockLen - LenOffset)
    OBVIOUS
  <2>2. b \in Nat
    BY <1>0, <2>1, Sizes
  <2>3. PICK q \in Nat : b = BlockLen * q
    <3>1. b \div BlockLen \in Nat /\ b = BlockLen * (b \div BlockLen) + (b % BlockLen)
      BY <1>0, <2>2, Divided
    <3>2. b % BlockLen = 0
      BY <1>4, <2>1
    <3>3. BlockLen * (b \div BlockLen) \in Nat
      BY <1>0, <3>1
    <3> QED BY <3>1, <3>2, <3>3
  <2>4. PICK p \in Nat : p = Blocks(n, r)
    BY <1>1
  <2>5. PICK x \in 0..(BlockLen - 1) : x = Zeroes(r)
    BY <1>1
  <2>6. BlockLen * q + x = BlockLen * p + z
    <3>1. a \in Nat /\ BlockLen * q \in Nat /\ BlockLen * p \in Nat
      BY <1>0, <2>3, <2>4
    <3>2. BlockLen * p = a + 1 + x + (BlockLen - LenOffset)
      BY <1>2, <2>4, <2>5
    <3> QED BY <2>1, <2>3, <3>1, <3>2, <1>0, Sizes
  <2>7. ~ (q < p)
    BY <1>0, <2>6, Multiples
  <2>8. ~ (p < q)
    BY <1>0, <2>6, Multiples
  <2>9. p = q
    BY <2>7, <2>8
  <2> QED BY <1>0, <2>5, <2>6, <2>9
<1>5. Zeroes(r) = CHOOSE z \in 0..(BlockLen - 1) : Fits(z)
  <2> HIDE DEF Fits
  <2>1. \A z \in 0..(BlockLen - 1) : Fits(z) <=> z = Zeroes(r)
    BY <1>3, <1>4
  <2> QED BY <1>1, <2>1
<1> QED BY <1>1, <1>2, <1>5

\* what is padded ends like its padded rest
LEMMA Endings ==
  ASSUME NEW v, NEW w, NEW e, NEW b, NEW z \in Nat, NEW n, NEW m \in Nat,
         Padded(v, w, z, n), Padded(e, b, z, n), Row(b), Row(w), Len(w) = m + Len(b),
         \A k \in 1..Len(b) : b[k] = w[m + k]
  PROVE  \A k \in 1..Len(e) : e[k] = v[m + k]
<1>1. Len(b) \in Nat /\ Len(w) \in Nat /\ BlockLen - LenOffset \in Nat
  BY RowIs, Sizes
<1>2. PICK l \in Nat : l = BlockLen - LenOffset
  BY <1>1
<1>3. PICK r \in Nat : r = Len(b)
  BY <1>1
<1>4. Len(w) = m + r /\ Len(e) = r + 1 + z + l
  BY <1>2, <1>3 DEF Padded
<1>5. SUFFICES ASSUME NEW k \in 1..Len(e) PROVE e[k] = v[m + k]
  OBVIOUS
<1>6. CASE k <= r
  <2>1. k \in 1..Len(b) /\ m + k \in 1..Len(w)
    BY <1>3, <1>4, <1>6
  <2>2. e[k] = b[k] /\ v[m + k] = w[m + k]
    BY <2>1 DEF Padded
  <2> QED BY <2>1, <2>2
<1>7. CASE k = r + 1
  <2>1. k = Len(b) + 1 /\ m + k = Len(w) + 1
    BY <1>3, <1>4, <1>7
  <2> QED BY <2>1 DEF Padded
<1>8. CASE r + 1 < k /\ k <= r + 1 + z
  <2>1. PICK j \in 1..z : k = r + 1 + j
    <3>1. k - (r + 1) \in 1..z /\ k = r + 1 + (k - (r + 1))
      BY <1>8
    <3> QED BY <3>1
  <2>2. k = Len(b) + 1 + j /\ m + k = Len(w) + 1 + j
    BY <1>3, <1>4, <2>1
  <2> QED BY <2>2 DEF Padded
<1>9. CASE r + 1 + z < k
  <2>1. PICK j \in 1..l : k = r + 1 + z + j
    <3>1. k - (r + 1 + z) \in 1..l /\ k = r + 1 + z + (k - (r + 1 + z))
      BY <1>4, <1>9
    <3> QED BY <3>1
  <2>2. k = Len(b) + 1 + z + j /\ m + k = Len(w) + 1 + z + j
    BY <1>3, <1>4, <2>1
  <2>3. /\ \A x \in 1..(BlockLen - LenOffset) : e[Len(b) + 1 + z + x] = {<<"length", n, x>>}
        /\ \A x \in 1..(BlockLen - LenOffset) : v[Len(w) + 1 + z + x] = {<<"length", n, x>>}
    BY Zenon DEF Padded
  <2>4. e[Len(b) + 1 + z + j] = {<<"length", n, j>>} /\ v[Len(w) + 1 + z + j] = {<<"length", n, j>>}
    BY <1>2, <2>3, Zenon
  <2> QED BY <2>2, <2>4
<1> QED BY <1>4, <1>6, <1>7, <1>8, <1>9

\* the bytes of a row that follow those of a
LEMMA Marked ==
  ASSUME NEW b, Row(b)
  PROVE  Append(b, Mark) = b \o <<Mark>>
<1>1. PICK c : c = Append(b, Mark)
  OBVIOUS
<1>2. PICK d : d = b \o <<Mark>>
  OBVIOUS
<1>3. Row(c) /\ Len(c) = Len(b) + 1 /\ (\A k \in 1..Len(b) : c[k] = b[k]) /\ c[Len(b) + 1] = Mark
  BY <1>1, Appended
<1>4. /\ Row(d) /\ Len(d) = Len(b) + Len(<<Mark>>) /\ \A k \in 1..Len(b) : d[k] = b[k]
      /\ \A k \in 1..Len(<<Mark>>) : d[Len(b) + k] = <<Mark>>[k]
  BY <1>2, Joined, OneByte
<1>5. Len(<<Mark>>) = 1 /\ <<Mark>>[1] = Mark
  BY OneByte
<1>6. Len(d) = Len(b) + 1 /\ d[Len(b) + 1] = Mark
  BY <1>4, <1>5
<1>7. Len(b) \in Nat
  BY RowIs
<1>8. \A k \in 1..Len(c) : k \in 1..Len(b) \/ k = Len(b) + 1
  BY <1>3, <1>7
<1>9. c = d
  BY <1>3, <1>4, <1>6, <1>8, RowEqual
<1> QED BY <1>1, <1>2, <1>9

\* two sequences of pieces of the same bytes are the same
LEMMA SamePieces ==
  ASSUME NEW d, NEW p, NEW q \in Nat, NEW n \in Nat, NEW s, CutUp(d, q, n, s), CutUp(p, q, n, s)
  PROVE  d = p
<1>1. ASSUME NEW j \in 1..q PROVE d[j] = p[j]
  <2>1. /\ Row(d[j]) /\ Len(d[j]) = n /\ \A k \in 1..n : d[j][k] = s[n * (j - 1) + k]
        /\ Row(p[j]) /\ Len(p[j]) = n /\ \A k \in 1..n : p[j][k] = s[n * (j - 1) + k]
    BY DEF CutUp
  <2>2. PICK x, y : x = d[j] /\ y = p[j]
    OBVIOUS
  <2>3. Row(x) /\ Row(y) /\ Len(x) = Len(y) /\ \A k \in 1..Len(x) : x[k] = y[k]
    BY <2>1, <2>2
  <2>4. x = y
    BY <2>3, RowEqual
  <2> QED BY <2>2, <2>4
<1>2. Row(d) /\ Row(p) /\ Len(d) = q /\ Len(p) = q
  BY DEF CutUp
<1> QED BY <1>1, <1>2, RowEqual

\* a row of two
LEMMA TwoRow ==
  ASSUME NEW e, NEW f
  PROVE  Row(<<e, f>>) /\ Len(<<e, f>>) = 2 /\ <<e, f>>[1] = e /\ <<e, f>>[2] = f
BY DEF Row, Range

\* the blocks that are whole are pieces of what is padded
LEMMA WholeBlocks ==
  ASSUME NEW w, NEW a, NEW b, NEW v, NEW z, NEW c, CutInto(w, a, b), Padded(v, w, z, c)
  PROVE  \A j \in 1..Len(a) : /\ Row(a[j]) /\ Len(a[j]) = BlockLen
                              /\ \A k \in 1..BlockLen : a[j][k] = v[BlockLen * (j - 1) + k]
<1>1. ASSUME NEW j \in 1..Len(a), NEW k \in 1..BlockLen PROVE a[j][k] = v[BlockLen * (j - 1) + k]
  <2>1. Len(a) \in Nat /\ Len(b) \in Nat /\ BlockLen * Len(a) \in Nat /\ Len(w) = BlockLen * Len(a) + Len(b)
    BY RowIs, Sizes DEF CutInto
  <2>2. BlockLen * (j - 1) + k \in 1..(BlockLen * Len(a))
    BY <2>1, Inside
  <2>3. BlockLen * (j - 1) + k \in 1..Len(w)
    BY <2>1, <2>2
  <2>4. a[j][k] = w[BlockLen * (j - 1) + k]
    BY DEF CutInto
  <2>5. \A x \in 1..Len(w) : v[x] = w[x]
    BY DEF Padded
  <2> QED BY <2>3, <2>4, <2>5
<1> QED BY <1>1 DEF CutInto

\* the mark and the length fit into the last block
LEMMA FinalFits ==
  ASSUME NEW w, NEW a, NEW b, NEW c, NEW v, Row(w), CutInto(w, a, b), Len(b) < LenOffset,
         Padded(v, w, Zeroes(Len(b)), c)
  PROVE  CutUp(Append(a, Append(b, Mark) \o Zeros(LenOffset - Len(Append(b, Mark))) \o LengthField(c)),
               Len(a) + 1, BlockLen, v)
<1>1. /\ Row(a) /\ Row(b) /\ Len(a) \in Nat /\ Len(b) \in Nat /\ BlockLen * Len(a) \in Nat
      /\ Len(w) = BlockLen * Len(a) + Len(b) /\ \A k \in 1..Len(b) : b[k] = w[BlockLen * Len(a) + k]
  BY RowIs, Sizes DEF CutInto
<1>2. Append(b, Mark) = b \o <<Mark>> /\ Len(Append(b, Mark)) = Len(b) + 1
  BY <1>1, Marked, Appended
<1>3. PICK z \in Nat : z = Zeroes(Len(b)) /\ z = LenOffset - (Len(b) + 1)
  <2>1. LenOffset - (Len(b) + 1) \in Nat
    BY <1>1, Sizes
  <2>2. Zeroes(Len(b)) = LenOffset - 1 - Len(b)
    BY DEF Zeroes
  <2>3. LenOffset - 1 - Len(b) = LenOffset - (Len(b) + 1)
    BY <1>1, Sizes
  <2> QED BY <2>1, <2>2, <2>3, Zenon
<1>4. PICK e : e = b \o <<Mark>> \o Zeros(z) \o LengthField(c) /\ Padded(e, b, z, c)
  BY <1>1, <1>3, Ending
<1>5. e = Append(b, Mark) \o Zeros(LenOffset - Len(Append(b, Mark))) \o LengthField(c)
  <2>1. LenOffset - Len(Append(b, Mark)) = z
    BY <1>2, <1>3
  <2> QED BY <1>2, <1>4, <2>1, Zenon
<1>6. Row(e) /\ Len(e) = BlockLen
  <2>1. Row(e) /\ Len(e) = Len(b) + 1 + z + (BlockLen - LenOffset)
    BY <1>4, Zenon DEF Padded
  <2> QED BY <1>1, <1>3, <2>1, Sizes
<1>7. \A k \in 1..BlockLen : e[k] = v[BlockLen * Len(a) + k]
  <2>1. Padded(v, w, z, c)
    BY <1>3
  <2>2. PICK m \in Nat : m = BlockLen * Len(a)
    BY <1>1
  <2>3. Len(w) = m + Len(b) /\ (\A k \in 1..Len(b) : b[k] = w[m + k]) /\ Row(b)
    BY <1>1, <2>2
  <2>4. \A k \in 1..Len(e) : e[k] = v[m + k]
    <3>1. Padded(e, b, z, c) /\ z \in Nat /\ m \in Nat
      BY <1>4
    <3>2. Len(w) = m + Len(b) /\ Row(b) /\ Row(w)
      BY <2>3
    <3>3. \A k \in 1..Len(b) : b[k] = w[m + k]
      BY <2>3
    <3> QED BY <2>1, <3>1, <3>2, <3>3, Endings, SMTT(30)
  <2> QED BY <1>6, <2>2, <2>4
<1>8. PICK d : d = Append(a, e)
  OBVIOUS
<1>9. Row(d) /\ Len(d) = Len(a) + 1 /\ (\A j \in 1..Len(a) : d[j] = a[j]) /\ d[Len(a) + 1] = e
  BY <1>1, <1>8, Appended
<1>10. ASSUME NEW j \in 1..(Len(a) + 1)
       PROVE  Row(d[j]) /\ Len(d[j]) = BlockLen /\ \A k \in 1..BlockLen : d[j][k] = v[BlockLen * (j - 1) + k]
  <2>1. CASE j \in 1..Len(a)
    <3>1. d[j] = a[j]
      BY <1>9, <2>1
    <3> QED BY <2>1, <3>1, WholeBlocks
  <2>2. CASE j = Len(a) + 1
    <3>1. j - 1 = Len(a) /\ d[j] = e
      BY <1>1, <1>9, <2>2
    <3> QED BY <1>6, <1>7, <3>1
  <2> QED BY <1>1, <2>1, <2>2
<1>11. CutUp(d, Len(a) + 1, BlockLen, v)
  BY <1>9, <1>10 DEF CutUp
<1> QED BY <1>5, <1>8, <1>11

\* the last two blocks, when the length does not fit behind the mark
LEMMA Spilled ==
  ASSUME NEW b, Row(b), LenOffset <= Len(b), Len(b) < BlockLen, NEW e, NEW c,
         Padded(e, b, BlockLen + LenOffset - 1 - Len(b), c)
  PROVE  \E s, f : /\ s = (b \o <<Mark>>) \o Zeros(BlockLen - (Len(b) + 1)) /\ f = Zeros(LenOffset) \o LengthField(c)
                   /\ Row(s) /\ Len(s) = BlockLen /\ \A k \in 1..BlockLen : s[k] = e[k]
                   /\ Row(f) /\ Len(f) = BlockLen /\ \A k \in 1..BlockLen : f[k] = e[BlockLen + k]
                   /\ Len(e) = BlockLen + BlockLen
<1>1. PICK r \in Nat : r = Len(b)
  BY RowIs
<1>2. PICK z \in Nat : z = BlockLen + LenOffset - 1 - r
  <2>1. BlockLen + LenOffset - 1 - r \in Nat
    BY <1>1, Sizes
  <2> QED BY <2>1
<1>3. PICK x, y, s : x = b \o <<Mark>> /\ y = Zeros(BlockLen - (r + 1)) /\ s = x \o y
  OBVIOUS
<1>4. BlockLen - (r + 1) \in Nat /\ BlockLen \in Nat /\ LenOffset \in Nat
  BY <1>1, Sizes
<1>5. Row(x) /\ Len(x) = r + 1 /\ (\A k \in 1..r : x[k] = b[k]) /\ x[r + 1] = Mark
  <2>1. /\ Row(x) /\ Len(x) = Len(b) + Len(<<Mark>>) /\ \A k \in 1..Len(b) : x[k] = b[k]
        /\ \A k \in 1..Len(<<Mark>>) : x[Len(b) + k] = <<Mark>>[k]
    BY <1>3, Joined, OneByte
  <2> QED BY <1>1, <2>1, OneByte
<1>6. Row(y) /\ Len(y) = BlockLen - (r + 1) /\ \A k \in 1..(BlockLen - (r + 1)) : y[k] = {}
  BY <1>3, <1>4, ZeroRow
<1>7. /\ Row(s) /\ Len(s) = Len(x) + Len(y) /\ \A k \in 1..Len(x) : s[k] = x[k]
      /\ \A k \in 1..Len(y) : s[Len(x) + k] = y[k]
  <2>1. Row(x) /\ Row(y) /\ s = x \o y
    BY <1>3, <1>5, <1>6
  <2> QED BY <2>1, Joined
<1>8. Row(e) /\ Len(e) = r + 1 + z + (BlockLen - LenOffset)
  BY <1>1, <1>2 DEF Padded
<1>9. (\A k \in 1..r : e[k] = b[k]) /\ e[r + 1] = Mark /\ \A k \in 1..z : e[r + 1 + k] = {}
  BY <1>1, <1>2 DEF Padded
<1>10. \A k \in 1..(BlockLen - LenOffset) : e[r + 1 + z + k] = {<<"length", c, k>>}
  BY <1>1, <1>2 DEF Padded
<1>11. Len(s) = BlockLen
  BY <1>4, <1>5, <1>6, <1>7
<1>12. ASSUME NEW k \in 1..BlockLen PROVE s[k] = e[k]
  <2>1. CASE k <= r
    <3>1. k \in 1..Len(x) /\ k \in 1..r
      BY <1>5, <2>1
    <3>2. s[k] = x[k] /\ x[k] = b[k] /\ e[k] = b[k]
      BY <1>5, <1>7, <1>9, <3>1
    <3> QED BY <3>2
  <2>2. CASE k = r + 1
    <3>1. k \in 1..Len(x)
      BY <1>5, <2>2
    <3> QED BY <1>5, <1>7, <1>9, <2>2, <3>1
  <2>3. CASE r + 1 < k
    <3>1. PICK j \in 1..Len(y) : k = r + 1 + j
      <4>1. k - (r + 1) \in 1..Len(y) /\ k = r + 1 + (k - (r + 1))
        BY <1>4, <1>6, <2>3
      <4> QED BY <4>1
    <3>2. s[k] = y[j] /\ y[j] = {}
      <4>1. s[Len(x) + j] = y[j] /\ y[j] = {}
        BY <1>6, <1>7
      <4> QED BY <1>5, <3>1, <4>1
    <3>3. j \in 1..z
      BY <1>2, <1>4, <1>6, <3>1, Sizes
    <3>4. e[k] = {}
      BY <1>9, <3>1, <3>3
    <3> QED BY <3>2, <3>4
  <2> QED BY <2>1, <2>2, <2>3
<1>13. PICK o, l, f : o = Zeros(LenOffset) /\ l = LengthField(c) /\ f = o \o l
  OBVIOUS
<1>14. Row(o) /\ Len(o) = LenOffset /\ \A k \in 1..LenOffset : o[k] = {}
  BY <1>4, <1>13, ZeroRow
<1>15. /\ Row(l) /\ Len(l) = BlockLen - LenOffset
       /\ \A k \in 1..(BlockLen - LenOffset) : l[k] = {<<"length", c, k>>}
  BY <1>13, LengthRow
<1>16. /\ Row(f) /\ Len(f) = Len(o) + Len(l) /\ \A k \in 1..Len(o) : f[k] = o[k]
       /\ \A k \in 1..Len(l) : f[Len(o) + k] = l[k]
  <2>1. Row(o) /\ Row(l) /\ f = o \o l
    BY <1>13, <1>14, <1>15
  <2> QED BY <2>1, Joined
<1>17. Len(f) = BlockLen
  BY <1>4, <1>14, <1>15, <1>16
<1>18. ASSUME NEW k \in 1..BlockLen PROVE f[k] = e[BlockLen + k]
  <2>1. CASE k <= LenOffset
    <3>1. k \in 1..LenOffset
      BY <1>4, <2>1
    <3>2. f[k] = o[k] /\ o[k] = {}
      BY <1>14, <1>16, <3>1
    <3>3. PICK j \in 1..z : BlockLen + k = r + 1 + j
      <4>1. BlockLen + k - (r + 1) \in 1..z /\ BlockLen + k = r + 1 + (BlockLen + k - (r + 1))
        BY <1>1, <1>2, <1>4, <3>1
      <4> QED BY <4>1
    <3>4. e[BlockLen + k] = {}
      BY <1>9, <3>3
    <3> QED BY <3>2, <3>4
  <2>2. CASE LenOffset < k
    <3>1. PICK j \in 1..(BlockLen - LenOffset) : k = LenOffset + j
      <4>1. k - LenOffset \in 1..(BlockLen - LenOffset) /\ k = LenOffset + (k - LenOffset)
        BY <1>4, <2>2
      <4> QED BY <4>1
    <3>2. f[LenOffset + j] = l[j]
      BY <1>14, <1>15, <1>16
    <3>3. l[j] = {<<"length", c, j>>}
      BY <1>15
    <3>4. BlockLen + k = r + 1 + z + j
      BY <1>2, <1>4, <3>1
    <3>5. e[r + 1 + z + j] = {<<"length", c, j>>}
      BY <1>10
    <3> QED BY <3>1, <3>2, <3>3, <3>4, <3>5
  <2> QED BY <1>4, <2>1, <2>2
<1>19. Len(e) = BlockLen + BlockLen
  BY <1>2, <1>4, <1>8
<1>20. s = (b \o <<Mark>>) \o Zeros(BlockLen - (Len(b) + 1)) /\ f = Zeros(LenOffset) \o LengthField(c)
  BY <1>1, <1>3, <1>13, Zenon
<1>21. Row(s) /\ Row(f)
  BY <1>7, <1>16
<1> QED BY <1>11, <1>12, <1>17, <1>18, <1>19, <1>20, <1>21, Zenon

\* the mark and the length take another block
LEMMA FinalSpills ==
  ASSUME NEW w, NEW a, NEW b, NEW c, NEW v, Row(w), CutInto(w, a, b), ~ (Len(b) < LenOffset),
         Padded(v, w, Zeroes(Len(b)), c)
  PROVE  CutUp(a \o <<Append(b, Mark) \o Zeros(BlockLen - Len(Append(b, Mark))), Zeros(LenOffset) \o LengthField(c)>>,
               Len(a) + 2, BlockLen, v)
<1>1. /\ Row(a) /\ Row(b) /\ Len(a) \in Nat /\ Len(b) \in Nat /\ BlockLen * Len(a) \in Nat
      /\ Len(w) = BlockLen * Len(a) + Len(b) /\ \A k \in 1..Len(b) : b[k] = w[BlockLen * Len(a) + k]
  BY RowIs, Sizes DEF CutInto
<1>2. Append(b, Mark) = b \o <<Mark>> /\ Len(Append(b, Mark)) = Len(b) + 1
  BY <1>1, Marked, Appended
<1>3. LenOffset <= Len(b) /\ Len(b) < BlockLen
  BY <1>1, Sizes DEF CutInto
<1>4. PICK z \in Nat : z = Zeroes(Len(b)) /\ z = BlockLen + LenOffset - 1 - Len(b)
  <2>1. BlockLen + LenOffset - 1 - Len(b) \in Nat
    BY <1>1, <1>3, Sizes
  <2>2. Zeroes(Len(b)) = BlockLen + LenOffset - 1 - Len(b)
    BY DEF Zeroes
  <2> QED BY <2>1, <2>2, Zenon
<1>5. PICK e : Padded(e, b, z, c)
  BY <1>1, <1>4, Ending
<1>6. PICK s, f : /\ s = (b \o <<Mark>>) \o Zeros(BlockLen - (Len(b) + 1)) /\ f = Zeros(LenOffset) \o LengthField(c)
                  /\ Row(s) /\ Len(s) = BlockLen /\ \A k \in 1..BlockLen : s[k] = e[k]
                  /\ Row(f) /\ Len(f) = BlockLen /\ \A k \in 1..BlockLen : f[k] = e[BlockLen + k]
                  /\ Len(e) = BlockLen + BlockLen
  <2>1. Padded(e, b, BlockLen + LenOffset - 1 - Len(b), c)
    BY <1>4, <1>5
  <2> QED BY <1>1, <1>3, <2>1, Spilled
<1>7. /\ Len(e) = BlockLen + BlockLen /\ \A k \in 1..BlockLen : s[k] = e[k]
      /\ \A k \in 1..BlockLen : f[k] = e[BlockLen + k]
  BY <1>6, Zenon
<1>8. PICK m \in Nat : m = BlockLen * Len(a)
  BY <1>1
<1>9. \A k \in 1..Len(e) : e[k] = v[m + k]
  <2>1. Padded(v, w, z, c)
    BY <1>4
  <2>2. Len(w) = m + Len(b) /\ Row(b) /\ Row(w)
    BY <1>1, <1>8
  <2>3. \A k \in 1..Len(b) : b[k] = w[m + k]
    BY <1>1, <1>8
  <2> QED BY <1>5, <2>1, <2>2, <2>3, Endings, SMTT(30)
<1>10. \A k \in 1..BlockLen : s[k] = v[BlockLen * Len(a) + k]
  <2>1. \A k \in 1..BlockLen : k \in 1..Len(e)
    BY <1>7, Sizes
  <2> QED BY <1>7, <1>8, <1>9, <2>1
<1>11. \A k \in 1..BlockLen : f[k] = v[BlockLen * (Len(a) + 1) + k]
  <2>1. BlockLen * (Len(a) + 1) = m + BlockLen
    BY <1>1, <1>8, Sizes
  <2>2. \A k \in 1..BlockLen : BlockLen + k \in 1..Len(e) /\ m + (BlockLen + k) = m + BlockLen + k
    BY <1>7, Sizes
  <2> QED BY <1>7, <1>9, <2>1, <2>2
<1>12. PICK d : d = a \o <<s, f>>
  OBVIOUS
<1>13. Row(d) /\ Len(d) = Len(a) + 2 /\ (\A j \in 1..Len(a) : d[j] = a[j]) /\ d[Len(a) + 1] = s /\ d[Len(a) + 2] = f
  <2>1. PICK x : x = <<s, f>>
    OBVIOUS
  <2>2. Row(x) /\ Len(x) = 2 /\ x[1] = s /\ x[2] = f
    BY <2>1, TwoRow
  <2>3. /\ Row(d) /\ Len(d) = Len(a) + Len(x) /\ \A j \in 1..Len(a) : d[j] = a[j]
        /\ \A j \in 1..Len(x) : d[Len(a) + j] = x[j]
    <3>1. Row(a) /\ Row(x) /\ d = a \o x
      BY <1>1, <1>12, <2>1, <2>2
    <3> QED BY <3>1, Joined
  <2> QED BY <2>2, <2>3
<1>14. ASSUME NEW j \in 1..(Len(a) + 2)
       PROVE  Row(d[j]) /\ Len(d[j]) = BlockLen /\ \A k \in 1..BlockLen : d[j][k] = v[BlockLen * (j - 1) + k]
  <2>1. CASE j \in 1..Len(a)
    <3>1. d[j] = a[j]
      BY <1>13, <2>1
    <3> QED BY <2>1, <3>1, WholeBlocks
  <2>2. CASE j = Len(a) + 1
    <3>1. j - 1 = Len(a) /\ d[j] = s
      BY <1>1, <1>13, <2>2
    <3> QED BY <1>6, <1>10, <3>1
  <2>3. CASE j = Len(a) + 2
    <3>1. j - 1 = Len(a) + 1 /\ d[j] = f
      BY <1>1, <1>13, <2>3
    <3> QED BY <1>6, <1>11, <3>1
  <2> QED BY <1>1, <2>1, <2>2, <2>3
<1>15. CutUp(d, Len(a) + 2, BlockLen, v)
  BY <1>13, <1>14 DEF CutUp
<1>16. d = a \o <<Append(b, Mark) \o Zeros(BlockLen - Len(Append(b, Mark))), Zeros(LenOffset) \o LengthField(c)>>
  BY <1>2, <1>6, <1>12, Zenon
<1> QED BY <1>15, <1>16

\* what is hashed when n blocks and r bytes are
LEMMA HashOf ==
  ASSUME NEW w, Row(w), NEW n \in Nat, NEW r \in Nat, r < BlockLen, Len(w) = BlockLen * n + r
  PROVE  \E v, p : /\ Padded(v, w, Zeroes(r), 8 * Len(w)) /\ Len(v) = BlockLen * Blocks(n, r)
                   /\ CutUp(p, Blocks(n, r), BlockLen, v) /\ RefHash(w) = Hash(p)
<1>1. PICK z \in Nat : z = Zeroes(r)
  BY Filled
<1>2. PICK c : c = 8 * Len(w)
  OBVIOUS
<1>3. PICK v : v = w \o <<Mark>> \o Zeros(z) \o LengthField(c) /\ Padded(v, w, z, c)
  BY Ending
<1>4. RefHash(w) = Hash(Pieces(v, BlockLen))
  <2>1. z = CHOOSE x \in 0..(BlockLen - 1) : (Len(w) + 1 + x + (BlockLen - LenOffset)) % BlockLen = 0
    BY <1>1, Filled
  <2> QED BY <1>2, <1>3, <2>1, Zenon DEF RefHash, Mark
<1>5. PICK q \in Nat : q = Blocks(n, r)
  BY Filled
<1>6. Row(v) /\ Len(v) = BlockLen * q
  <2>1. Row(v) /\ Len(v) = Len(w) + 1 + z + (BlockLen - LenOffset)
    BY <1>3, Zenon DEF Padded
  <2> QED BY <1>1, <1>5, <2>1, Filled
<1>7. CutUp(Pieces(v, BlockLen), q, BlockLen, v)
  BY <1>6, Sizes, WholePieces
<1> QED BY <1>1, <1>2, <1>3, <1>4, <1>5, <1>6, <1>7, Zenon

\* the digest of what a context absorbed is the standard's
LEMMA FinalIs ==
  ASSUME NEW ctx, NEW w, Row(w), Absorbed(ctx, w)
  PROVE  SHA256_Final(ctx) = RefHash(w)
<1>1. PICK a, b : CutInto(w, a, b) /\ ctx = Context(a, b)
  BY DEF Absorbed
<1>2. Len(a) \in Nat /\ Len(b) \in Nat /\ Len(b) < BlockLen /\ Len(w) = BlockLen * Len(a) + Len(b)
  BY <1>1, RowIs DEF CutInto
<1>3. PICK c : c = 8 * Len(w)
  OBVIOUS
<1>4. PICK v, p : /\ Padded(v, w, Zeroes(Len(b)), c)
                  /\ CutUp(p, Blocks(Len(a), Len(b)), BlockLen, v) /\ RefHash(w) = Hash(p)
  BY <1>2, <1>3, HashOf
<1>5. ctx.blocks = a /\ ctx.buffer = b /\ ctx.bits + 8 * Len(ctx.buffer) = c
  <2>1. ctx.blocks = a /\ ctx.buffer = b /\ ctx.bits = 8 * (BlockLen * Len(a))
    BY <1>1 DEF Context
  <2>2. PICK m \in Nat : m = BlockLen * Len(a)
    BY <1>2, Sizes
  <2>3. 8 * m + 8 * Len(b) = 8 * (m + Len(b))
    BY <1>2
  <2> QED BY <1>2, <1>3, <2>1, <2>2, <2>3
<1>6. CASE Len(b) < LenOffset
  <2>1. PICK d : d = Append(a, Append(b, Mark) \o Zeros(LenOffset - Len(Append(b, Mark))) \o LengthField(c))
    OBVIOUS
  <2>2. CutUp(d, Len(a) + 1, BlockLen, v) /\ Len(a) + 1 \in Nat
    <3>1. Padded(v, w, Zeroes(Len(b)), c) /\ CutInto(w, a, b)
      BY <1>1, <1>4
    <3>2. CutUp(d, Len(a) + 1, BlockLen, v)
      BY <1>6, <2>1, <3>1, FinalFits
    <3> QED BY <1>2, <3>2
  <2>3. CutUp(p, Len(a) + 1, BlockLen, v)
    BY <1>4, <1>6 DEF Blocks
  <2>4. d = p
    BY <2>2, <2>3, SamePieces, Sizes
  <2>5. SHA256_Final(ctx) = Hash(d)
    BY <1>5, <1>6, <2>1, Zenon DEF SHA256_Final, Mark
  <2> QED BY <1>4, <2>4, <2>5
<1>7. CASE ~ (Len(b) < LenOffset)
  <2>1. PICK d : d = a \o <<Append(b, Mark) \o Zeros(BlockLen - Len(Append(b, Mark))), Zeros(LenOffset) \o LengthField(c)>>
    OBVIOUS
  <2>2. CutUp(d, Len(a) + 2, BlockLen, v) /\ Len(a) + 2 \in Nat
    <3>1. Padded(v, w, Zeroes(Len(b)), c) /\ CutInto(w, a, b)
      BY <1>1, <1>4
    <3>2. CutUp(d, Len(a) + 2, BlockLen, v)
      BY <1>7, <2>1, <3>1, FinalSpills
    <3> QED BY <1>2, <3>2
  <2>3. CutUp(p, Len(a) + 2, BlockLen, v)
    BY <1>4, <1>7 DEF Blocks
  <2>4. d = p
    BY <2>2, <2>3, SamePieces, Sizes
  <2>5. SHA256_Final(ctx) = Hash(d)
    BY <1>5, <1>7, <2>1, Zenon DEF SHA256_Final, Mark
  <2> QED BY <1>4, <2>4, <2>5
<1> QED BY <1>6, <1>7

-----------------------------------------------------------------------------
(* The MAC. *)

\* the parts of a streamed message are hashed in turn
LEMMA PartsTurns ==
  ASSUME NEW ctx, NEW s, Row(s)
  PROVE  \E h : Turns("update", ctx, s, Len(s), h) /\ FoldLeft(SHA256_Update, ctx, s) = h[Len(s)]
<1> DEFINE G(g) == [r \in SUBSET (1..Len(s)) |-> IF r = {} THEN ctx ELSE SHA256_Update(g[r \ {Max(r)}], s[Max(r)])]
           p    == CHOOSE g : g = G(g)
<1>1. FoldLeft(SHA256_Update, ctx, s) = p[1..Len(s)]
  <2>1. DOMAIN s = 1..Len(s)
    BY RowIs
  <2> QED BY <2>1, Zenon DEF FoldLeft, MapThenFoldSet
<1>2. \A x, y : Step("update", x, y) = SHA256_Update(x, y)
  BY DEF Step
<1>3. \E g : g = G(g)
  <2>1. PICK g : Folds("update", ctx, s, Len(s), g)
    BY FoldExists, RowIs
  <2>2. g = G(g)
    BY <1>2, <2>1, Zenon DEF Folds
  <2> QED BY <2>2
<1>4. p = G(p)
  BY <1>3, Zenon
<1> HIDE DEF p
<1>5. Folds("update", ctx, s, Len(s), p)
  BY <1>2, <1>4, Zenon DEF Folds
<1> QED BY <1>1, <1>5, FoldTurns, RowIs

\* of one part
LEMMA OnePart ==
  ASSUME NEW ctx, NEW a
  PROVE  FoldLeft(SHA256_Update, ctx, <<a>>) = SHA256_Update(ctx, a)
<1>1. PICK s : s = <<a>>
  OBVIOUS
<1>2. Row(s) /\ Len(s) = 1 /\ s[1] = a
  BY <1>1, OneByte
<1>3. PICK h : Turns("update", ctx, s, Len(s), h) /\ FoldLeft(SHA256_Update, ctx, s) = h[Len(s)]
  BY <1>2, PartsTurns
<1>4. h[0] = ctx /\ h[1] = Step("update", h[0], s[1])
  <2>1. h[0] = ctx /\ \A k \in 1..1 : h[k] = Step("update", h[k - 1], s[k])
    BY <1>2, <1>3 DEF Turns
  <2> QED BY <2>1
<1>5. h[1] = SHA256_Update(ctx, a)
  BY <1>2, <1>4 DEF Step
<1> QED BY <1>1, <1>2, <1>3, <1>5

\* and of three, as partition_store.c streams them
LEMMA ThreeParts ==
  ASSUME NEW ctx, NEW s, Row(s), Len(s) = 3
  PROVE  FoldLeft(SHA256_Update, ctx, s) = SHA256_Update(SHA256_Update(SHA256_Update(ctx, s[1]), s[2]), s[3])
<1>1. PICK h : Turns("update", ctx, s, Len(s), h) /\ FoldLeft(SHA256_Update, ctx, s) = h[Len(s)]
  BY PartsTurns
<1>2. /\ h[0] = ctx /\ h[1] = Step("update", h[0], s[1])
      /\ h[2] = Step("update", h[1], s[2]) /\ h[3] = Step("update", h[2], s[3])
  <2>1. h[0] = ctx /\ \A k \in 1..3 : h[k] = Step("update", h[k - 1], s[k])
    BY <1>1 DEF Turns
  <2> QED BY <2>1
<1>3. \A x, y : Step("update", x, y) = SHA256_Update(x, y)
  BY DEF Step
<1>4. h[3] = SHA256_Update(SHA256_Update(SHA256_Update(ctx, s[1]), s[2]), s[3])
  BY <1>2, <1>3
<1> QED BY <1>1, <1>4

\* a key filled up to a block, with a constant over it
KeyPad(key, byte) == [j \in 1..BlockLen |-> Xor((key \o Zeros(BlockLen - Len(key)))[j], {<<byte>>})]

IsKey(key) == Row(key) /\ Len(key) <= BlockLen

MacOf(mac, key) == Absorbed(mac.inner, KeyPad(key, "ipad")) /\ Absorbed(mac.outer, KeyPad(key, "opad"))

\* the padded key is a block
LEMMA PadRow ==
  ASSUME NEW key, NEW byte
  PROVE  Row(KeyPad(key, byte)) /\ Len(KeyPad(key, byte)) = BlockLen
<1>1. PICK p : p = KeyPad(key, byte)
  OBVIOUS
<1>2. p = [j \in 1..BlockLen |-> p[j]]
  BY <1>1 DEF KeyPad
<1> QED BY <1>1, <1>2, RowOf, Sizes

\* a digest has DigestLen bytes
LEMMA DigestRow ==
  ASSUME NEW w
  PROVE  Row(RefHash(w)) /\ Len(RefHash(w)) = DigestLen /\ DOMAIN RefHash(w) = 1..DigestLen
<1>1. PICK x : RefHash(w) = Hash(x)
  BY Zenon DEF RefHash
<1>2. PICK d : d = Hash(x)
  OBVIOUS
<1>3. d = [k \in 1..DigestLen |-> d[k]]
  BY <1>2 DEF Hash
<1> QED BY <1>1, <1>2, <1>3, RowOf, Sizes

\* HmacSha256_Init leaves the two contexts after a block of the padded key each
LEMMA InitIs ==
  ASSUME NEW key, IsKey(key)
  PROVE  MacOf(HmacSha256_Init(key), key)
<1>1. Row(key) /\ Len(key) \in Nat /\ ~ (Len(key) > BlockLen) /\ BlockLen - Len(key) \in Nat
  BY RowIs, Sizes DEF IsKey
<1>2. PICK k : k = key \o Zeros(BlockLen - Len(key))
  OBVIOUS
<1>3. Row(k) /\ Len(k) = BlockLen
  <2>1. PICK z : z = Zeros(BlockLen - Len(key))
    OBVIOUS
  <2>2. Row(z) /\ Len(z) = BlockLen - Len(key)
    BY <1>1, <2>1, ZeroRow
  <2>3. Row(k) /\ Len(k) = Len(key) + Len(z)
    BY <1>1, <1>2, <2>1, <2>2, Joined
  <2> QED BY <1>1, <2>2, <2>3, Sizes
<1>4. ASSUME NEW byte
      PROVE  XorBytes(k, [j \in 1..BlockLen |-> {<<byte>>}]) = KeyPad(key, byte)
  <2>1. DOMAIN k = 1..BlockLen
    BY <1>3, RowIs
  <2>2. PICK c : c = [j \in 1..BlockLen |-> {<<byte>>}]
    OBVIOUS
  <2>3. \A j \in 1..BlockLen : c[j] = {<<byte>>}
    BY <2>2
  <2>4. XorBytes(k, c) = [j \in 1..BlockLen |-> Xor(k[j], {<<byte>>})]
    BY <2>1, <2>3, Zenon DEF XorBytes
  <2> QED BY <1>2, <2>2, <2>4, Zenon DEF KeyPad
<1>5. PICK x, y : x = KeyPad(key, "ipad") /\ y = KeyPad(key, "opad")
  OBVIOUS
<1>6. HmacSha256_Init(key) = [inner |-> SHA256_Update(SHA256_Init, x), outer |-> SHA256_Update(SHA256_Init, y)]
  <2>1. (IF Len(key) > BlockLen THEN SHA256_Compute(key) ELSE key) = key
    BY <1>1
  <2> QED BY <1>2, <1>4, <1>5, <2>1, Zenon DEF HmacSha256_Init
<1>7. ASSUME NEW v, Row(v) PROVE Absorbed(SHA256_Update(SHA256_Init, v), v)
  <2>1. Absorbed(SHA256_Update(SHA256_Init, v), <<>> \o v)
    BY <1>7, EmptyRow, Fresh, UpdateAbsorbs
  <2>2. <<>> \o v = v
    <3>1. PICK c, d : c = <<>> /\ d = c \o v
      OBVIOUS
    <3>2. Row(c) /\ Len(c) = 0
      BY <3>1, EmptyRow
    <3>3. Row(d) /\ Len(d) = Len(c) + Len(v) /\ \A j \in 1..Len(v) : d[Len(c) + j] = v[j]
      BY <1>7, <3>1, <3>2, Joined
    <3>4. Len(v) \in Nat
      BY <1>7, RowIs
    <3>5. Len(d) = Len(v) /\ \A j \in 1..Len(v) : d[j] = v[j]
      BY <3>2, <3>3, <3>4
    <3>6. d = v
      BY <1>7, <3>3, <3>5, RowEqual
    <3> QED BY <3>1, <3>6
  <2> QED BY <2>1, <2>2
<1>8. Row(x) /\ Row(y)
  BY <1>5, PadRow
<1>9. Absorbed(SHA256_Update(SHA256_Init, x), x) /\ Absorbed(SHA256_Update(SHA256_Init, y), y)
  BY <1>7, <1>8
<1> QED BY <1>5, <1>6, <1>9 DEF MacOf

\* the MAC of a message is the standard's
LEMMA ComputeIs ==
  ASSUME NEW mac, NEW key, NEW msg, MacOf(mac, key), Row(msg)
  PROVE  HmacSha256_Compute(mac, msg) = RefHmac(key, msg)
<1>1. PICK x, y : x = KeyPad(key, "ipad") /\ y = KeyPad(key, "opad")
  OBVIOUS
<1>2. Row(x) /\ Row(y) /\ Absorbed(mac.inner, x) /\ Absorbed(mac.outer, y)
  BY <1>1, PadRow DEF MacOf
<1>3. PICK c : c = SHA256_Update(mac.inner, msg)
  OBVIOUS
<1>4. Row(x \o msg) /\ Absorbed(c, x \o msg)
  BY <1>2, <1>3, Joined, UpdateAbsorbs
<1>5. PICK d : d = RefHash(x \o msg)
  OBVIOUS
<1>6. SHA256_Final(c) = d /\ Row(d)
  BY <1>4, <1>5, DigestRow, FinalIs
<1>7. PICK o : o = SHA256_Update(mac.outer, d)
  OBVIOUS
<1>8. Row(y \o d) /\ Absorbed(o, y \o d)
  BY <1>2, <1>6, <1>7, Joined, UpdateAbsorbs
<1>9. SHA256_Final(o) = RefHash(y \o d)
  BY <1>8, FinalIs
<1>10. HmacSha256_Compute(mac, msg) = SHA256_Final(o)
  <2>1. FoldLeft(SHA256_Update, mac.inner, <<msg>>) = c
    BY <1>3, OnePart
  <2> QED BY <1>6, <1>7, <2>1, Zenon DEF HmacSha256_Compute, MacParts
<1>11. RefHmac(key, msg) = RefHash(y \o d)
  BY <1>1, <1>5, Zenon DEF RefHmac, KeyPad
<1> QED BY <1>9, <1>10, <1>11

-----------------------------------------------------------------------------
(* The rounds of a derivation. *)

\* what the standard adds up, term by term
LEMMA XorTurns ==
  ASSUME NEW base, NEW s, Row(s)
  PROVE  \E h : Turns("xor", base, s, Len(s), h) /\ FoldLeft(XorBytes, base, s) = h[Len(s)]
<1> DEFINE G(g) == [r \in SUBSET (1..Len(s)) |-> IF r = {} THEN base ELSE XorBytes(g[r \ {Max(r)}], s[Max(r)])]
           p    == CHOOSE g : g = G(g)
<1>1. FoldLeft(XorBytes, base, s) = p[1..Len(s)]
  <2>1. DOMAIN s = 1..Len(s)
    BY RowIs
  <2> QED BY <2>1, Zenon DEF FoldLeft, MapThenFoldSet
<1>2. \A x, y : Step("xor", x, y) = XorBytes(x, y)
  BY DEF Step
<1>3. \E g : g = G(g)
  <2>1. PICK g : Folds("xor", base, s, Len(s), g)
    BY FoldExists, RowIs
  <2>2. g = G(g)
    BY <1>2, <2>1, Zenon DEF Folds
  <2> QED BY <2>2
<1>4. p = G(p)
  BY <1>3, Zenon
<1> HIDE DEF p
<1>5. Folds("xor", base, s, Len(s), p)
  BY <1>2, <1>4, Zenon DEF Folds
<1> QED BY <1>1, <1>5, FoldTurns, RowIs

\* what round n takes the MAC of, x being what the rounds before it gave
Salted(s, x, n) == IF n = 1 THEN s \o BlockIndex ELSE x[n - 1]

\* n rounds give x, and h is what was added up before each and at the end
Rounds(key, s, n, x, h) ==
  /\ \A k \in 1..n : x[k] = RefHmac(key, Salted(s, x, k))
  /\ h[0] = Zeros(DigestLen) /\ \A k \in 1..n : h[k] = XorBytes(h[k - 1], x[k])

\* a MAC has DigestLen bytes
LEMMA MacRow ==
  ASSUME NEW key, NEW msg
  PROVE  Row(RefHmac(key, msg)) /\ Len(RefHmac(key, msg)) = DigestLen /\ DOMAIN RefHmac(key, msg) = 1..DigestLen
<1>1. PICK w : RefHmac(key, msg) = RefHash(w)
  BY Zenon DEF RefHmac
<1> QED BY <1>1, DigestRow

\* the first round is not added to anything
LEMMA FirstRound ==
  ASSUME NEW key, NEW s, NEW v, v = RefHmac(key, s \o BlockIndex)
  PROVE  \E x, h : Rounds(key, s, 1, x, h) /\ x[1] = v /\ h[1] = v
<1>1. Row(v) /\ Len(v) = DigestLen /\ DOMAIN v = 1..DigestLen
  BY MacRow
<1>2. PICK z : z = Zeros(DigestLen)
  OBVIOUS
<1>3. DOMAIN z = 1..DigestLen /\ \A k \in 1..DigestLen : z[k] = {}
  BY <1>2 DEF Zeros
<1>4. XorBytes(z, v) = v
  <2>1. \A k \in 1..DigestLen : Xor(z[k], v[k]) = v[k]
    BY <1>3 DEF Xor
  <2>2. v = [k \in 1..DigestLen |-> v[k]]
    BY <1>1, RowIs
  <2>3. XorBytes(z, v) = [k \in 1..DigestLen |-> v[k]]
    BY <1>3, <2>1, Zenon DEF XorBytes
  <2> QED BY <2>2, <2>3
<1>5. PICK x, h : x = [k \in 1..1 |-> v] /\ h = [k \in 0..1 |-> IF k = 0 THEN z ELSE v]
  OBVIOUS
<1>6. x[1] = v /\ h[0] = z /\ h[1] = v
  BY <1>5
<1>7. \A k \in 1..1 : k = 1
  OBVIOUS
<1>8. \A k \in 1..1 : x[k] = RefHmac(key, Salted(s, x, k))
  <2>1. Salted(s, x, 1) = s \o BlockIndex
    BY DEF Salted
  <2> QED BY <1>6, <1>7, <2>1
<1>9. \A k \in 1..1 : h[k] = XorBytes(h[k - 1], x[k])
  BY <1>4, <1>6, <1>7
<1>10. Rounds(key, s, 1, x, h)
  BY <1>2, <1>6, <1>8, <1>9 DEF Rounds
<1> QED BY <1>6, <1>10

\* a round takes the MAC of the one before, and adds it
LEMMA NextRound ==
  ASSUME NEW key, NEW s, NEW n \in Nat \ {0}, NEW x, NEW h, Rounds(key, s, n, x, h), NEW v, v = RefHmac(key, x[n])
  PROVE  \E y, g : Rounds(key, s, n + 1, y, g) /\ y[n + 1] = v /\ g[n + 1] = XorBytes(h[n], v)
<1>1. PICK y, g : /\ y = [k \in 1..(n + 1) |-> IF k = n + 1 THEN v ELSE x[k]]
                  /\ g = [k \in 0..(n + 1) |-> IF k = n + 1 THEN XorBytes(h[n], v) ELSE h[k]]
  OBVIOUS
<1>2. y[n + 1] = v /\ g[n + 1] = XorBytes(h[n], v) /\ g[0] = h[0]
  BY <1>1
<1>3. \A k \in 1..n : y[k] = x[k] /\ g[k] = h[k] /\ g[k - 1] = h[k - 1]
  BY <1>1
<1>4. ASSUME NEW k \in 1..n
      PROVE  y[k] = RefHmac(key, Salted(s, y, k)) /\ g[k] = XorBytes(g[k - 1], y[k])
  <2>1. Salted(s, y, k) = Salted(s, x, k)
    <3>1. k # 1 => k - 1 \in 1..n
      OBVIOUS
    <3> QED BY <1>3, <3>1 DEF Salted
  <2>2. x[k] = RefHmac(key, Salted(s, x, k)) /\ h[k] = XorBytes(h[k - 1], x[k])
    BY DEF Rounds
  <2> QED BY <1>3, <2>1, <2>2
<1>5. y[n + 1] = RefHmac(key, Salted(s, y, n + 1)) /\ g[n + 1] = XorBytes(g[(n + 1) - 1], y[n + 1])
  <2>1. n + 1 # 1 /\ (n + 1) - 1 = n /\ n \in 1..n
    OBVIOUS
  <2>2. Salted(s, y, n + 1) = x[n]
    BY <1>3, <2>1 DEF Salted
  <2>3. g[(n + 1) - 1] = h[n]
    BY <1>3, <2>1
  <2> QED BY <1>2, <2>2, <2>3
<1>6. \A k \in 1..(n + 1) : k \in 1..n \/ k = n + 1
  OBVIOUS
<1>7. Rounds(key, s, n + 1, y, g)
  <2>1. g[0] = Zeros(DigestLen)
    BY <1>2 DEF Rounds
  <2>2. \A k \in 1..(n + 1) : y[k] = RefHmac(key, Salted(s, y, k)) /\ g[k] = XorBytes(g[k - 1], y[k])
    BY <1>4, <1>5, <1>6
  <2> QED BY <2>1, <2>2 DEF Rounds
<1> QED BY <1>2, <1>7

\* after all rounds, what was added up is the standard's
LEMMA AllRounds ==
  ASSUME NEW key, NEW s, NEW x, NEW h, Rounds(key, s, Iterations, x, h)
  PROVE  h[Iterations] = RefDerived(key, s)
<1>0. Iterations \in Nat \ {0}
  BY SealingAssumption
<1> DEFINE G(f) == [n \in 1..Iterations |-> RefHmac(key, IF n = 1 THEN s \o BlockIndex ELSE f[n - 1])]
           U    == CHOOSE f : f = G(f)
<1>1. \E f : f = G(f)
  <2>1. PICK f : f = [n \in 1..Iterations |-> x[n]]
    OBVIOUS
  <2>2. ASSUME NEW n \in 1..Iterations
        PROVE  f[n] = RefHmac(key, IF n = 1 THEN s \o BlockIndex ELSE f[n - 1])
    <3>1. f[n] = x[n] /\ x[n] = RefHmac(key, Salted(s, x, n))
      BY <2>1 DEF Rounds
    <3>2. n # 1 => f[n - 1] = x[n - 1]
      <4>1. n # 1 => n - 1 \in 1..Iterations
        BY <1>0
      <4> QED BY <2>1, <4>1
    <3>3. Salted(s, x, n) = IF n = 1 THEN s \o BlockIndex ELSE f[n - 1]
      BY <3>2, Zenon DEF Salted
    <3> QED BY <3>1, <3>3
  <2>3. f = [n \in 1..Iterations |-> f[n]]
    BY <2>1
  <2>4. f = G(f)
    BY <2>2, <2>3
  <2> QED BY <2>4
<1>2. U = G(U)
  BY <1>1, Zenon
<1>3. RefDerived(key, s) = FoldLeft(XorBytes, Zeros(DigestLen), [n \in 1..Iterations |-> U[n]])
  BY Zenon DEF RefDerived
<1>4. \A n \in 1..Iterations : U[n] = RefHmac(key, IF n = 1 THEN s \o BlockIndex ELSE U[n - 1])
  <2> HIDE DEF U
  <2> QED BY <1>2, Zenon
<1> HIDE DEF U
<1>5. \A n \in 1..Iterations : U[n] = x[n]
  <2> DEFINE T == {m \in 0..Iterations : \A n \in 1..m : U[n] = x[n]}
  <2>1. 0 \in T
    BY <1>0
  <2>2. ASSUME NEW m \in 0..(Iterations - 1), m \in T PROVE m + 1 \in T
    <3>1. m + 1 \in 1..Iterations /\ m \in Nat /\ (m + 1) - 1 = m
      BY <1>0
    <3>2. U[m + 1] = x[m + 1]
      <4>1. CASE m = 0
        <5>1. U[1] = RefHmac(key, s \o BlockIndex)
          BY <1>4, <3>1, <4>1
        <5>2. x[1] = RefHmac(key, s \o BlockIndex)
          BY <3>1, <4>1 DEF Rounds, Salted
        <5> QED BY <4>1, <5>1, <5>2
      <4>2. CASE m # 0
        <5>1. m + 1 # 1 /\ m \in 1..m
          BY <3>1, <4>2
        <5>2. U[m + 1] = RefHmac(key, U[m])
          BY <1>4, <3>1, <5>1
        <5>3. x[m + 1] = RefHmac(key, x[m])
          BY <3>1, <5>1 DEF Rounds, Salted
        <5>4. U[m] = x[m]
          BY <2>2, <5>1
        <5> QED BY <5>2, <5>3, <5>4
      <4> QED BY <4>1, <4>2
    <3>3. \A n \in 1..(m + 1) : n \in 1..m \/ n = m + 1
      BY <3>1
    <3>4. \A n \in 1..m : U[n] = x[n]
      BY <2>2
    <3>5. \A n \in 1..(m + 1) : U[n] = x[n]
      BY <3>2, <3>3, <3>4
    <3> QED BY <1>0, <3>1, <3>5
  <2> HIDE DEF T
  <2>3. \A m \in 0..Iterations : m \in T
    BY <1>0, <2>1, <2>2, UpTo
  <2>4. Iterations \in T
    BY <1>0, <2>3
  <2> QED BY <2>4 DEF T
<1>6. PICK r : r = [n \in 1..Iterations |-> U[n]]
  OBVIOUS
<1>7. Row(r) /\ Len(r) = Iterations /\ \A n \in 1..Iterations : r[n] = x[n]
  <2>1. r = [n \in 1..Iterations |-> r[n]]
    BY <1>6
  <2> QED BY <1>0, <1>5, <1>6, <2>1, RowOf
<1>8. PICK g : Turns("xor", Zeros(DigestLen), r, Iterations, g) /\ FoldLeft(XorBytes, Zeros(DigestLen), r) = g[Iterations]
  <2>1. PICK z : z = Zeros(DigestLen)
    OBVIOUS
  <2> QED BY <1>7, XorTurns
<1>9. g[0] = Zeros(DigestLen) /\ \A n \in 1..Iterations : g[n] = XorBytes(g[n - 1], x[n])
  BY <1>7, <1>8 DEF Turns, Step
<1>10. g[Iterations] = h[Iterations]
  <2> DEFINE T == {m \in 0..Iterations : g[m] = h[m]}
  <2>1. 0 \in T
    BY <1>0, <1>9 DEF Rounds
  <2>2. ASSUME NEW m \in 0..(Iterations - 1), m \in T PROVE m + 1 \in T
    <3>1. m + 1 \in 1..Iterations /\ m + 1 \in 0..Iterations /\ (m + 1) - 1 = m
      BY <1>0
    <3>2. g[m + 1] = XorBytes(g[m], x[m + 1])
      BY <1>9, <3>1
    <3>3. h[m + 1] = XorBytes(h[m], x[m + 1])
      BY <3>1 DEF Rounds
    <3> QED BY <2>2, <3>1, <3>2, <3>3
  <2> HIDE DEF T
  <2>3. \A m \in 0..Iterations : m \in T
    BY <1>0, <2>1, <2>2, UpTo
  <2>4. Iterations \in T
    BY <1>0, <2>3
  <2> QED BY <2>4 DEF T
<1> QED BY <1>3, <1>6, <1>8, <1>10

-----------------------------------------------------------------------------
(* Equal digests are of equal messages, and equal MACs of equal keys and    *)
(* messages: the compression function is symbolic, so what can go wrong is  *)
(* how the bytes are laid out before it.                                    *)

\* the piece a byte lies in
LEMMA Place ==
  ASSUME NEW n \in Nat \ {0}, NEW q \in Nat, NEW k \in 1..(n * q)
  PROVE  \E j \in 1..q, m \in 1..n : k = n * (j - 1) + m
<1>1. n * q \in Nat /\ k - 1 \in Nat /\ k <= n * q
  OBVIOUS
<1>2. PICK a \in Nat, b \in 0..(n - 1) : k - 1 = n * a + b
  BY <1>1, Divided
<1>3. a < q
  <2>1. SUFFICES ASSUME q <= a PROVE FALSE
    BY <1>2
  <2>2. q = a \/ q < a
    BY <1>2, <2>1
  <2>3. n * q <= n * a /\ n * a \in Nat
    <3>1. CASE q = a
      BY <1>1, <3>1
    <3>2. CASE q < a
      BY <1>1, <3>2, Multiples
    <3> QED BY <2>2, <3>1, <3>2
  <2> QED BY <1>1, <1>2, <2>3
<1>4. a + 1 \in 1..q /\ b + 1 \in 1..n /\ (a + 1) - 1 = a
  BY <1>3
<1>5. n * a \in Nat
  BY <1>2
<1>6. k = n * a + (b + 1)
  BY <1>2, <1>5
<1> QED BY <1>4, <1>6

\* what is cut into the same pieces has the same bytes
LEMMA SameBytes ==
  ASSUME NEW d, NEW q \in Nat, NEW n \in Nat \ {0}, NEW s, NEW r, CutUp(d, q, n, s), CutUp(d, q, n, r),
         NEW k \in 1..(n * q)
  PROVE  s[k] = r[k]
<1>1. PICK j \in 1..q, m \in 1..n : k = n * (j - 1) + m
  BY Place
<1>2. d[j][m] = s[n * (j - 1) + m] /\ d[j][m] = r[n * (j - 1) + m]
  BY DEF CutUp
<1> QED BY <1>1, <1>2

\* one digest is of one message: neither padding nor cutting loses a byte
LEMMA SameHash ==
  ASSUME NEW w, NEW y, Row(w), Row(y), RefHash(w) = RefHash(y)
  PROVE  w = y
<1>0. BlockLen \in Nat \ {0} /\ Len(w) \in Nat /\ Len(y) \in Nat /\ BlockLen - LenOffset \in Nat \ {0}
  BY RowIs, Sizes
<1>1. ASSUME NEW x, Row(x)
      PROVE  \E v, p : \E z \in Nat, q \in Nat :
               /\ Padded(v, x, z, 8 * Len(x)) /\ Len(v) = BlockLen * q
               /\ CutUp(p, q, BlockLen, v) /\ RefHash(x) = Hash(p)
  <2>1. Len(x) \in Nat
    BY <1>1, RowIs
  <2>2. PICK n \in Nat, r \in 0..(BlockLen - 1) : Len(x) = BlockLen * n + r
    <3>1. PICK l \in Nat : l = Len(x)
      BY <2>1
    <3>2. l \div BlockLen \in Nat /\ l % BlockLen \in 0..(BlockLen - 1) /\ l = BlockLen * (l \div BlockLen) + (l % BlockLen)
      BY <1>0, Divided
    <3> QED BY <3>1, <3>2
  <2>3. r \in Nat /\ r < BlockLen
    BY <1>0
  <2>4. Zeroes(r) \in Nat /\ Blocks(n, r) \in Nat
    BY <2>2, <2>3, Filled
  <2>5. PICK v, p : /\ Padded(v, x, Zeroes(r), 8 * Len(x)) /\ Len(v) = BlockLen * Blocks(n, r)
                    /\ CutUp(p, Blocks(n, r), BlockLen, v) /\ RefHash(x) = Hash(p)
    BY <1>1, <2>2, <2>3, HashOf
  <2> QED BY <2>4, <2>5
<1>2. PICK v, p : \E z \in Nat, q \in Nat :
         /\ Padded(v, w, z, 8 * Len(w)) /\ Len(v) = BlockLen * q
         /\ CutUp(p, q, BlockLen, v) /\ RefHash(w) = Hash(p)
  BY <1>1
<1>3. PICK z \in Nat, q \in Nat :
         /\ Padded(v, w, z, 8 * Len(w)) /\ Len(v) = BlockLen * q
         /\ CutUp(p, q, BlockLen, v) /\ RefHash(w) = Hash(p)
  BY <1>2
<1>4. PICK x, d : \E o \in Nat, e \in Nat :
         /\ Padded(x, y, o, 8 * Len(y)) /\ Len(x) = BlockLen * e
         /\ CutUp(d, e, BlockLen, x) /\ RefHash(y) = Hash(d)
  BY <1>1
<1>5. PICK o \in Nat, e \in Nat :
         /\ Padded(x, y, o, 8 * Len(y)) /\ Len(x) = BlockLen * e
         /\ CutUp(d, e, BlockLen, x) /\ RefHash(y) = Hash(d)
  BY <1>4
<1>6. p = d
  <2>1. ASSUME NEW b PROVE Hash(b)[1] = {<<"sha", b, 1>>}
    BY Sizes DEF Hash
  <2>2. {<<"sha", p, 1>>} = {<<"sha", d, 1>>}
    BY <1>3, <1>5, <2>1
  <2>3. <<"sha", p, 1>> = <<"sha", d, 1>>
    BY <2>2, Zenon
  <2> QED BY <2>3
<1>7. q = e
  BY <1>3, <1>5, <1>6 DEF CutUp
<1>8. Len(v) = Len(x) /\ Len(v) \in Nat /\ \A k \in 1..Len(v) : v[k] = x[k]
  <2>1. Len(v) = BlockLen * q /\ Len(x) = BlockLen * q /\ BlockLen * q \in Nat
    BY <1>0, <1>3, <1>5, <1>7
  <2>2. CutUp(p, q, BlockLen, v) /\ CutUp(p, q, BlockLen, x)
    BY <1>3, <1>5, <1>6, <1>7
  <2>3. \A k \in 1..(BlockLen * q) : v[k] = x[k]
    BY <1>0, <2>2, SameBytes
  <2> QED BY <2>1, <2>3
<1>9. Len(w) = Len(y)
  <2>1. PICK l \in Nat \ {0} : l = BlockLen - LenOffset
    BY <1>0
  <2>2. Len(v) = Len(w) + 1 + z + l /\ \A k \in 1..l : v[Len(w) + 1 + z + k] = {<<"length", 8 * Len(w), k>>}
    BY <1>3, <2>1 DEF Padded
  <2>3. Len(x) = Len(y) + 1 + o + l /\ \A k \in 1..l : x[Len(y) + 1 + o + k] = {<<"length", 8 * Len(y), k>>}
    BY <1>5, <2>1 DEF Padded
  <2>4. v[Len(v)] = {<<"length", 8 * Len(w), l>>} /\ x[Len(x)] = {<<"length", 8 * Len(y), l>>}
    <3>1. l \in 1..l
      OBVIOUS
    <3> QED BY <2>2, <2>3, <3>1
  <2>5. Len(v) \in 1..Len(v)
    BY <1>0, <1>8, <2>2
  <2>6. {<<"length", 8 * Len(w), l>>} = {<<"length", 8 * Len(y), l>>}
    BY <1>8, <2>4, <2>5
  <2>7. <<"length", 8 * Len(w), l>> = <<"length", 8 * Len(y), l>>
    BY <2>6, Zenon
  <2>8. 8 * Len(w) = 8 * Len(y)
    BY <2>7
  <2> QED BY <1>0, <2>8
<1>10. \A k \in 1..Len(w) : w[k] = y[k]
  <2>1. /\ Len(v) = Len(w) + 1 + z + (BlockLen - LenOffset)
        /\ \A k \in 1..Len(w) : v[k] = w[k]
    BY <1>3 DEF Padded
  <2>2. \A k \in 1..Len(y) : x[k] = y[k]
    BY <1>5 DEF Padded
  <2>3. \A k \in 1..Len(w) : k \in 1..Len(v) /\ k \in 1..Len(y)
    BY <1>0, <1>9, <2>1
  <2> QED BY <1>8, <2>1, <2>2, <2>3
<1> QED BY <1>9, <1>10, RowEqual

\* rows of equal lengths are split where they were joined
LEMMA SameHalves ==
  ASSUME NEW a, NEW b, NEW c, NEW d, Row(a), Row(b), Row(c), Row(d), Len(a) = Len(c),
         NEW x, Glued(x, a, b), Glued(x, c, d)
  PROVE  a = c /\ b = d
<1>2. /\ Len(x) = Len(a) + Len(b) /\ \A k \in 1..Len(a) : x[k] = a[k]
      /\ \A k \in 1..Len(b) : x[Len(a) + k] = b[k]
  BY Zenon DEF Glued
<1>3. /\ Len(x) = Len(c) + Len(d) /\ \A k \in 1..Len(c) : x[k] = c[k]
      /\ \A k \in 1..Len(d) : x[Len(c) + k] = d[k]
  BY Zenon DEF Glued
<1>5. Len(a) \in Nat /\ Len(b) \in Nat /\ Len(c) \in Nat /\ Len(d) \in Nat
  BY RowIs
<1>6. Len(b) = Len(d)
  BY <1>2, <1>3, <1>5
<1>7. \A k \in 1..Len(a) : a[k] = c[k]
  BY <1>2, <1>3
<1>8. \A k \in 1..Len(b) : b[k] = d[k]
  BY <1>2, <1>3, <1>6
<1> QED BY <1>6, <1>7, <1>8, RowEqual

\* what differs still differs when the same is added to it
LEMMA XorSame ==
  ASSUME NEW a, NEW b, NEW c, Xor(a, c) = Xor(b, c)
  PROVE  a = b
BY DEF Xor

\* one MAC is of one key and one message
LEMMA SameMac ==
  ASSUME NEW a, NEW b, NEW x, NEW y, IsKey(a), IsKey(b), Len(a) = Len(b), Row(x), Row(y),
         RefHmac(a, x) = RefHmac(b, y)
  PROVE  a = b /\ x = y
<1>1. PICK p, q : p = KeyPad(a, "ipad") /\ q = KeyPad(b, "ipad")
  OBVIOUS
<1>2. PICK o, r : o = KeyPad(a, "opad") /\ r = KeyPad(b, "opad")
  OBVIOUS
<1>3. Row(p) /\ Row(q) /\ Row(o) /\ Row(r) /\ Len(p) = Len(q) /\ Len(o) = Len(r)
  BY <1>1, <1>2, PadRow
<1>4. PICK d, e : d = RefHash(p \o x) /\ e = RefHash(q \o y)
  OBVIOUS
<1>5. Row(d) /\ Row(e) /\ Row(p \o x) /\ Row(q \o y)
  BY <1>3, <1>4, DigestRow, Joined
<1>6. Row(o \o d) /\ Row(r \o e)
  BY <1>3, <1>5, Joined
<1>7. RefHmac(a, x) = RefHash(o \o d) /\ RefHmac(b, y) = RefHash(r \o e)
  BY <1>1, <1>2, <1>4, Zenon DEF RefHmac, KeyPad
<1>8. o \o d = r \o e
  BY <1>6, <1>7, SameHash
<1>9. o = r /\ d = e
  <2>1. Glued(o \o d, o, d) /\ Glued(r \o e, r, e)
    BY <1>3, <1>5, Glue
  <2>2. PICK g : Glued(g, o, d) /\ Glued(g, r, e)
    BY <1>8, <2>1
  <2> QED BY <1>3, <1>5, <2>2, SameHalves
<1>10. p \o x = q \o y
  BY <1>4, <1>5, <1>9, SameHash
<1>11. p = q /\ x = y
  <2>1. Glued(p \o x, p, x) /\ Glued(q \o y, q, y)
    BY <1>3, Glue
  <2>2. PICK g : Glued(g, p, x) /\ Glued(g, q, y)
    BY <1>10, <2>1
  <2> QED BY <1>3, <2>2, SameHalves
<1>12. a = b
  <2>1. PICK k, l : k = a \o Zeros(BlockLen - Len(a)) /\ l = b \o Zeros(BlockLen - Len(b))
    OBVIOUS
  <2>2. Row(a) /\ Row(b) /\ Len(a) \in Nat /\ BlockLen - Len(a) \in Nat /\ BlockLen \in Nat
    BY RowIs, Sizes DEF IsKey
  <2>3. \A j \in 1..Len(a) : k[j] = a[j] /\ l[j] = b[j]
    <3>1. Row(Zeros(BlockLen - Len(a))) /\ Row(Zeros(BlockLen - Len(b)))
      BY <2>2, ZeroRow
    <3> QED BY <2>1, <2>2, <3>1, Joined
  <2>4. ASSUME NEW j \in 1..Len(a) PROVE a[j] = b[j]
    <3>1. j \in 1..BlockLen
      BY <2>2
    <3>2. PICK c : c = {<<"ipad">>}
      OBVIOUS
    <3>3. p[j] = Xor(k[j], c) /\ q[j] = Xor(l[j], c)
      BY <1>1, <2>1, <3>1, <3>2 DEF KeyPad
    <3>4. k[j] = l[j]
      BY <1>11, <3>3, XorSame
    <3> QED BY <2>3, <3>4
  <2> QED BY <2>2, <2>4, RowEqual
<1> QED BY <1>11, <1>12

-----------------------------------------------------------------------------
(* The checksum. *)

\* the pieces of a sequence, the last one perhaps shorter
LEMMA AnyPieces ==
  ASSUME NEW n \in Nat \ {0}, NEW s, Row(s), NEW q \in Nat, Len(s) <= n * q, n * q < Len(s) + n
  PROVE  /\ DOMAIN Pieces(s, n) = 1..q /\ Row(Pieces(s, n)) /\ Len(Pieces(s, n)) = q
         /\ \A j \in 1..q : Pieces(s, n)[j] = SubSeq(s, n * (j - 1) + 1, IF n * j < Len(s) THEN n * j ELSE Len(s))
<1>1. Len(s) \in Nat /\ n * q \in Nat
  BY RowIs
<1>2. (Len(s) + n - 1) \div n = q
  BY <1>1, Ceiling
<1>3. PICK p : p = Pieces(s, n)
  OBVIOUS
<1>4. p = [j \in 1..q |-> SubSeq(s, n * (j - 1) + 1, IF n * j < Len(s) THEN n * j ELSE Len(s))]
  BY <1>2, <1>3 DEF Pieces
<1>5. p = [j \in 1..q |-> p[j]]
  BY <1>4
<1>6. Row(p) /\ Len(p) = q /\ DOMAIN p = 1..q
  BY <1>5, RowOf
<1> QED BY <1>3, <1>4, <1>6

\* the bytes before and in piece j
LEMMA PieceEnds ==
  ASSUME NEW n \in Nat \ {0}, NEW l \in Nat, NEW q \in Nat, l <= n * q, n * q < l + n, NEW j \in 1..q
  PROVE  /\ n * (j - 1) \in Nat /\ n * j = n * (j - 1) + n /\ n * (j - 1) < l
<1>1. n * (j - 1) \in Nat /\ n * j = n * (j - 1) + n /\ n * q \in Nat
  OBVIOUS
<1>2. n * (j - 1) + n <= n * q
  <2>1. j - 1 \in Nat /\ j - 1 < q
    OBVIOUS
  <2> QED BY <2>1, Multiples
<1> QED BY <1>1, <1>2

WordsIn(l) == (l + WordBytes - 1) \div WordBytes

\* x is the words c, and then the words of the first l bytes of s
Fed(x, c, s, l) ==
  /\ Row(x) /\ Len(x) = Len(c) + WordsIn(l)
  /\ \A j \in 1..Len(c) : x[j] = c[j]
  /\ \A j \in 1..WordsIn(l) :
       /\ Row(x[Len(c) + j]) /\ Len(x[Len(c) + j]) = WordBytes
       /\ \A k \in 1..WordBytes :
            x[Len(c) + j][k] = IF WordBytes * (j - 1) + k <= l THEN s[WordBytes * (j - 1) + k] ELSE {}

\* the words are as many as the bytes need, and no more
LEMMA WordsFit ==
  ASSUME NEW l \in Nat
  PROVE  /\ WordsIn(l) \in Nat /\ l <= WordBytes * WordsIn(l) /\ WordBytes * WordsIn(l) < l + WordBytes
         /\ WordBytes \in Nat \ {0}
<1>1. WordBytes \in Nat \ {0}
  BY DigestAssumption
<1>2. PICK a \in Nat : a = l + WordBytes - 1
  <2>1. l + WordBytes - 1 \in Nat
    BY <1>1
  <2> QED BY <2>1
<1>3. PICK q \in Nat, r \in 0..(WordBytes - 1) : q = a \div WordBytes /\ a = WordBytes * q + r
  BY <1>1, Divided
<1>4. WordBytes * q \in Nat
  BY <1>1
<1>5. WordsIn(l) = q
  BY <1>2, <1>3 DEF WordsIn
<1>6. l <= WordBytes * q /\ WordBytes * q < l + WordBytes
  <2>1. PICK m \in Nat : m = WordBytes * q
    BY <1>4
  <2> QED BY <1>1, <1>2, <1>3, <2>1
<1> QED BY <1>1, <1>5, <1>6

\* and only this number is that
LEMMA WordCount ==
  ASSUME NEW l \in Nat, NEW q \in Nat, l <= WordBytes * q, WordBytes * q < l + WordBytes
  PROVE  WordsIn(l) = q
BY Ceiling, DigestAssumption DEF WordsIn

\* CRC_Drv_Feed gives the words of the bytes
LEMMA FeedIs ==
  ASSUME NEW c, NEW s, Row(c), Row(s)
  PROVE  Fed(CRC_Drv_Feed(c, s), c, s, Len(s))
<1>1. PICK l \in Nat : l = Len(s)
  BY RowIs
<1>2. PICK q \in Nat : q = WordsIn(l) /\ l <= WordBytes * q /\ WordBytes * q < l + WordBytes
  BY WordsFit
<1>3. PICK n \in Nat \ {0} : n = WordBytes
  BY DigestAssumption
<1>4. PICK p : p = Pieces(s, n)
  OBVIOUS
<1>5. /\ DOMAIN p = 1..q
      /\ \A j \in 1..q : p[j] = SubSeq(s, n * (j - 1) + 1, IF n * j < l THEN n * j ELSE l)
  <2>1. Len(s) <= n * q /\ n * q < Len(s) + n
    BY <1>1, <1>2, <1>3
  <2>2. /\ DOMAIN Pieces(s, n) = 1..q
        /\ \A j \in 1..q : Pieces(s, n)[j] = SubSeq(s, n * (j - 1) + 1, IF n * j < Len(s) THEN n * j ELSE Len(s))
    BY <2>1, AnyPieces
  <2> QED BY <1>1, <1>4, <2>2, Zenon
<1>6. PICK w : w = [j \in 1..q |-> p[j] \o Zeros(n - Len(p[j]))]
  OBVIOUS
<1>7. CRC_Drv_Feed(c, s) = c \o w
  BY <1>3, <1>4, <1>5, <1>6, Zenon DEF CRC_Drv_Feed
<1>8. ASSUME NEW j \in 1..q
      PROVE  /\ Row(w[j]) /\ Len(w[j]) = n
             /\ \A k \in 1..n : w[j][k] = IF n * (j - 1) + k <= l THEN s[n * (j - 1) + k] ELSE {}
  <2>1. PICK a \in Nat : a = n * (j - 1) /\ n * j = a + n /\ a < l
    <3>1. n * (j - 1) \in Nat /\ n * j = n * (j - 1) + n /\ n * (j - 1) < l
      BY <1>2, <1>3, PieceEnds
    <3> QED BY <3>1
  <2>2. PICK e \in Nat : e = (IF a + n < l THEN a + n ELSE l) /\ e <= l /\ a < e /\ e <= a + n
    BY <2>1
  <2>3. PICK x : x = p[j] /\ x = SubSeq(s, a + 1, e)
    BY <1>5, <2>1, <2>2
  <2>4. Row(x) /\ Len(x) = e - (a + 1) + 1 /\ \A k \in 1..(e - (a + 1) + 1) : x[k] = s[a + 1 + k - 1]
    <3>1. a + 1 \in Nat \ {0} /\ e <= Len(s) /\ a + 1 <= e + 1
      BY <1>1, <2>2
    <3> QED BY <2>3, <3>1, Cut
  <2>5. Row(x) /\ Len(x) = e - a /\ \A k \in 1..(e - a) : x[k] = s[a + k]
    <3>1. e - (a + 1) + 1 = e - a /\ \A k \in 1..(e - a) : a + 1 + k - 1 = a + k
      OBVIOUS
    <3> QED BY <2>4, <3>1
  <2>6. PICK z : z = Zeros(n - Len(x))
    OBVIOUS
  <2>7. n - Len(x) \in Nat
    BY <2>2, <2>5
  <2>8. Row(z) /\ Len(z) = n - Len(x) /\ \A k \in 1..(n - Len(x)) : z[k] = {}
    BY <2>6, <2>7, ZeroRow
  <2>9. PICK y : y = w[j] /\ Glued(y, x, z)
    <3>1. w[j] = x \o z
      BY <1>6, <2>3, <2>6
    <3> QED BY <2>5, <2>8, <3>1, Glue
  <2>10. /\ Row(y) /\ Len(y) = Len(x) + Len(z) /\ \A k \in 1..Len(x) : y[k] = x[k]
         /\ \A k \in 1..Len(z) : y[Len(x) + k] = z[k]
    BY <2>9, Zenon DEF Glued
  <2>11. Len(y) = n
    BY <2>5, <2>7, <2>8, <2>10, <2>2
  <2>12. ASSUME NEW k \in 1..n PROVE y[k] = IF a + k <= l THEN s[a + k] ELSE {}
    <3>1. CASE k <= e - a
      <4>1. k \in 1..Len(x) /\ a + k <= l
        BY <2>2, <2>5, <3>1
      <4> QED BY <2>5, <2>10, <4>1
    <3>2. CASE e - a < k
      <4>1. ~ (a + k <= l)
        BY <2>2, <3>2
      <4>2. PICK m \in 1..(n - Len(x)) : k = Len(x) + m
        <5>1. k - Len(x) \in 1..(n - Len(x)) /\ k = Len(x) + (k - Len(x))
          BY <2>2, <2>5, <3>2
        <5> QED BY <5>1
      <4>3. y[k] = {}
        BY <2>8, <2>10, <4>2
      <4> QED BY <4>1, <4>3
    <3> QED BY <2>2, <3>1, <3>2
  <2> QED BY <2>1, <2>9, <2>10, <2>11, <2>12
<1>9. Row(w) /\ Len(w) = q
  <2>1. w = [j \in 1..q |-> w[j]]
    BY <1>6
  <2> QED BY <2>1, RowOf
<1>10. PICK x : x = CRC_Drv_Feed(c, s) /\ Glued(x, c, w)
  BY <1>7, <1>9, Glue
<1>11. /\ Row(x) /\ Len(x) = Len(c) + q /\ \A j \in 1..Len(c) : x[j] = c[j]
       /\ \A j \in 1..q : x[Len(c) + j] = w[j]
  <2>1. /\ Row(x) /\ Len(x) = Len(c) + Len(w) /\ \A j \in 1..Len(c) : x[j] = c[j]
        /\ \A j \in 1..Len(w) : x[Len(c) + j] = w[j]
    BY <1>10, Zenon DEF Glued
  <2> QED BY <1>9, <2>1
<1>12. Fed(x, c, s, l)
  <2>1. ASSUME NEW j \in 1..q
        PROVE  /\ Row(x[Len(c) + j]) /\ Len(x[Len(c) + j]) = n
               /\ \A k \in 1..n : x[Len(c) + j][k] = IF n * (j - 1) + k <= l THEN s[n * (j - 1) + k] ELSE {}
    <3>1. x[Len(c) + j] = w[j]
      BY <1>11, Zenon
    <3> QED BY <1>8, <3>1, Zenon
  <2>2. q = WordsIn(l)
    BY <1>2
  <2> QED BY <1>3, <1>11, <2>1, <2>2, ZenonT(40) DEF Fed
<1> QED BY <1>1, <1>10, <1>12

\* bytes that are fed after whole words come behind them
LEMMA FeedOn ==
  ASSUME NEW c, NEW s, NEW x, NEW r, NEW a \in Nat, NEW e \in Nat, NEW b \in Nat, Row(c), Row(r),
         b = WordBytes * a, b <= e, Fed(x, c, s, b), Len(r) = e - b, \A k \in 1..Len(r) : r[k] = s[b + k]
  PROVE  Fed(CRC_Drv_Feed(x, r), c, s, e)
<1>1. PICK n \in Nat \ {0} : n = WordBytes
  BY DigestAssumption
<1>2. PICK d \in Nat : d = e - b
  <2>1. e - b \in Nat
    OBVIOUS
  <2> QED BY <2>1
<1>3. PICK q \in Nat : q = WordsIn(d) /\ d <= n * q /\ n * q < d + n
  BY <1>1, WordsFit
<1>4. WordsIn(b) = a
  <2>1. b <= WordBytes * a /\ WordBytes * a < b + WordBytes
    BY <1>1
  <2> QED BY <2>1, WordCount
<1>5. WordsIn(e) = a + q
  <2>1. n * (a + q) = b + n * q /\ n * q \in Nat
    BY <1>1
  <2>2. e <= WordBytes * (a + q) /\ WordBytes * (a + q) < e + WordBytes
    BY <1>1, <1>2, <1>3, <2>1
  <2> QED BY <2>2, WordCount
<1>6. PICK l \in Nat : l = Len(c)
  BY RowIs
<1>7. /\ Row(x) /\ Len(x) = l + a /\ \A j \in 1..l : x[j] = c[j]
      /\ \A j \in 1..a :
           /\ Row(x[l + j]) /\ Len(x[l + j]) = n
           /\ \A k \in 1..n : x[l + j][k] = IF n * (j - 1) + k <= b THEN s[n * (j - 1) + k] ELSE {}
  BY <1>1, <1>4, <1>6 DEF Fed
<1>8. PICK y : y = CRC_Drv_Feed(x, r) /\ Fed(y, x, r, d)
  BY <1>2, <1>7, FeedIs
<1>9. /\ Row(y) /\ Len(y) = l + a + q /\ \A j \in 1..(l + a) : y[j] = x[j]
      /\ \A j \in 1..q :
           /\ Row(y[l + a + j]) /\ Len(y[l + a + j]) = n
           /\ \A k \in 1..n : y[l + a + j][k] = IF n * (j - 1) + k <= d THEN r[n * (j - 1) + k] ELSE {}
  <2>1. Len(x) = l + a /\ WordsIn(d) = q /\ WordBytes = n
    BY <1>1, <1>3, <1>7
  <2>2. /\ Row(y) /\ Len(y) = Len(x) + WordsIn(d) /\ \A j \in 1..Len(x) : y[j] = x[j]
        /\ \A j \in 1..WordsIn(d) :
             /\ Row(y[Len(x) + j]) /\ Len(y[Len(x) + j]) = WordBytes
             /\ \A k \in 1..WordBytes :
                  y[Len(x) + j][k] = IF WordBytes * (j - 1) + k <= d THEN r[WordBytes * (j - 1) + k] ELSE {}
    BY <1>8, Zenon DEF Fed
  <2> QED BY <2>1, <2>2, Zenon
<1>10. \A j \in 1..l : y[j] = c[j]
  <2>1. \A j \in 1..l : j \in 1..(l + a)
    OBVIOUS
  <2> QED BY <1>7, <1>9, <2>1
<1>11. ASSUME NEW j \in 1..(a + q)
       PROVE  /\ Row(y[l + j]) /\ Len(y[l + j]) = n
              /\ \A k \in 1..n : y[l + j][k] = IF n * (j - 1) + k <= e THEN s[n * (j - 1) + k] ELSE {}
  <2>1. CASE j <= a
    <3>1. j \in 1..a /\ y[l + j] = x[l + j]
      <4>1. l + j \in 1..(l + a)
        BY <2>1
      <4> QED BY <1>9, <2>1, <4>1
    <3>2. ASSUME NEW k \in 1..n PROVE n * (j - 1) + k <= b /\ n * (j - 1) + k <= e
      <4>1. n * (j - 1) \in Nat /\ n * (j - 1) + n <= n * a
        <5>1. j - 1 \in Nat /\ j - 1 < a
          BY <2>1
        <5> QED BY <5>1, Multiples
      <4> QED BY <1>1, <4>1
    <3>3. \A k \in 1..n : x[l + j][k] = s[n * (j - 1) + k]
      BY <1>7, <3>1, <3>2
    <3> QED BY <1>7, <3>1, <3>2, <3>3
  <2>2. CASE a < j
    <3>1. PICK m \in 1..q : j = a + m
      <4>1. j - a \in 1..q /\ j = a + (j - a)
        BY <2>2
      <4> QED BY <4>1
    <3>2. y[l + j] = y[l + a + m]
      BY <3>1
    <3>3. PICK f \in Nat : f = n * (m - 1) /\ n * (j - 1) = b + f
      <4>1. n * (m - 1) \in Nat /\ n * (j - 1) = n * a + n * (m - 1)
        BY <3>1
      <4> QED BY <1>1, <4>1
    <3>4. ASSUME NEW k \in 1..n PROVE y[l + j][k] = IF n * (j - 1) + k <= e THEN s[n * (j - 1) + k] ELSE {}
      <4>1. y[l + j][k] = IF f + k <= d THEN r[f + k] ELSE {}
        BY <1>9, <3>2, <3>3
      <4>2. CASE f + k <= d
        <5>1. f + k \in 1..Len(r) /\ b + f + k <= e
          BY <1>2, <4>2
        <5>2. r[f + k] = s[b + (f + k)]
          BY <5>1
        <5>3. b + (f + k) = b + f + k
          OBVIOUS
        <5> QED BY <3>3, <4>1, <4>2, <5>1, <5>2, <5>3
      <4>3. CASE ~ (f + k <= d)
        <5>1. ~ (b + f + k <= e)
          BY <1>2, <4>3
        <5> QED BY <3>3, <4>1, <4>3, <5>1
      <4> QED BY <4>2, <4>3
    <3> QED BY <1>9, <3>1, <3>2, <3>4
  <2> QED BY <2>1, <2>2
<1>12. Len(y) = l + (a + q)
  BY <1>9
<1>13. Fed(y, c, s, e)
  BY <1>1, <1>5, <1>6, <1>9, <1>10, <1>11, <1>12 DEF Fed
<1> QED BY <1>8, <1>13

\* only one sequence is the words of the bytes
LEMMA FedSame ==
  ASSUME NEW x, NEW y, NEW c, NEW s, NEW l \in Nat, Row(c), Fed(x, c, s, l), Fed(y, c, s, l)
  PROVE  x = y
<1>1. PICK q \in Nat, m \in Nat, n \in Nat : q = WordsIn(l) /\ m = Len(c) /\ n = WordBytes
  BY WordsFit, RowIs
<1>2. /\ Row(x) /\ Len(x) = m + q /\ \A j \in 1..m : x[j] = c[j]
      /\ \A j \in 1..q : /\ Row(x[m + j]) /\ Len(x[m + j]) = n
                         /\ \A k \in 1..n : x[m + j][k] = IF n * (j - 1) + k <= l THEN s[n * (j - 1) + k] ELSE {}
  BY <1>1 DEF Fed
<1>3. /\ Row(y) /\ Len(y) = m + q /\ \A j \in 1..m : y[j] = c[j]
      /\ \A j \in 1..q : /\ Row(y[m + j]) /\ Len(y[m + j]) = n
                         /\ \A k \in 1..n : y[m + j][k] = IF n * (j - 1) + k <= l THEN s[n * (j - 1) + k] ELSE {}
  BY <1>1 DEF Fed
<1>4. ASSUME NEW j \in 1..q PROVE x[m + j] = y[m + j]
  <2>1. PICK a, b : a = x[m + j] /\ b = y[m + j]
    OBVIOUS
  <2>2. Row(a) /\ Row(b) /\ Len(a) = n /\ Len(b) = n /\ \A k \in 1..n : a[k] = b[k]
    BY <1>2, <1>3, <2>1
  <2>3. a = b
    BY <2>2, RowEqual
  <2> QED BY <2>1, <2>3
<1>5. ASSUME NEW j \in 1..(m + q) PROVE x[j] = y[j]
  <2>1. CASE j <= m
    BY <1>2, <1>3, <2>1
  <2>2. CASE m < j
    <3>1. PICK k \in 1..q : j = m + k
      <4>1. j - m \in 1..q /\ j = m + (j - m)
        BY <2>2
      <4> QED BY <4>1
    <3> QED BY <1>4, <3>1
  <2> QED BY <2>1, <2>2
<1>6. Row(x) /\ Row(y) /\ Len(x) = m + q /\ Len(y) = m + q
  BY <1>2, <1>3
<1> QED BY <1>5, <1>6, RowEqual

\* the chunks of a boot are fed in turn
LEMMA FeedTurns ==
  ASSUME NEW base, NEW s, Row(s)
  PROVE  \E h : Turns("feed", base, s, Len(s), h) /\ FoldLeft(CRC_Drv_Feed, base, s) = h[Len(s)]
<1> DEFINE G(g) == [r \in SUBSET (1..Len(s)) |-> IF r = {} THEN base ELSE CRC_Drv_Feed(g[r \ {Max(r)}], s[Max(r)])]
           p    == CHOOSE g : g = G(g)
<1>1. FoldLeft(CRC_Drv_Feed, base, s) = p[1..Len(s)]
  <2>1. DOMAIN s = 1..Len(s)
    BY RowIs
  <2> QED BY <2>1, Zenon DEF FoldLeft, MapThenFoldSet
<1>2. \A x, y : Step("feed", x, y) = CRC_Drv_Feed(x, y)
  BY DEF Step
<1>3. \E g : g = G(g)
  <2>1. PICK g : Folds("feed", base, s, Len(s), g)
    BY FoldExists, RowIs
  <2>2. g = G(g)
    BY <1>2, <2>1, Zenon DEF Folds
  <2> QED BY <2>2
<1>4. p = G(p)
  BY <1>3, Zenon
<1> HIDE DEF p
<1>5. Folds("feed", base, s, Len(s), p)
  BY <1>2, <1>4, Zenon DEF Folds
<1> QED BY <1>1, <1>5, FoldTurns, RowIs

\* a table that is fed in chunks gives what the whole table gives
LEMMA ChunksAreWhole ==
  ASSUME NEW c, NEW s, Row(c), Row(s)
  PROVE  FoldLeft(CRC_Drv_Feed, c, Chunks(s)) = CRC_Drv_Feed(c, s)
<1>1. PICK n \in Nat \ {0} : n = CrcChunk
  BY SealingAssumption
<1>2. PICK d \in Nat : n = WordBytes * d
  <2>1. WordBytes \in Nat \ {0} /\ n % WordBytes = 0
    BY <1>1, DigestAssumption, SealingAssumption
  <2>2. n \div WordBytes \in Nat /\ n = WordBytes * (n \div WordBytes) + (n % WordBytes)
    BY <2>1, Divided
  <2>3. WordBytes * (n \div WordBytes) \in Nat
    BY <2>1, <2>2
  <2> QED BY <2>1, <2>2, <2>3
<1>3. PICK l \in Nat : l = Len(s)
  BY RowIs
<1>4. PICK q \in Nat : l <= n * q /\ n * q < l + n
  <2>1. PICK a \in Nat : a = l + n - 1
    <3>1. l + n - 1 \in Nat
      OBVIOUS
    <3> QED BY <3>1
  <2>2. PICK m \in Nat, r \in 0..(n - 1) : a = n * m + r
    BY Divided
  <2>3. PICK f \in Nat : f = n * m
    OBVIOUS
  <2>4. l <= f /\ f < l + n
    BY <2>1, <2>2, <2>3
  <2> QED BY <2>3, <2>4
<1>5. PICK p : p = Chunks(s)
  OBVIOUS
<1>6. /\ Row(p) /\ Len(p) = q
      /\ \A j \in 1..q : p[j] = SubSeq(s, n * (j - 1) + 1, IF n * j < l THEN n * j ELSE l)
  <2>1. Len(s) <= n * q /\ n * q < Len(s) + n
    BY <1>3, <1>4
  <2>2. /\ Row(Pieces(s, n)) /\ Len(Pieces(s, n)) = q
        /\ \A j \in 1..q : Pieces(s, n)[j] = SubSeq(s, n * (j - 1) + 1, IF n * j < Len(s) THEN n * j ELSE Len(s))
    BY <2>1, AnyPieces
  <2>3. p = Pieces(s, n)
    BY <1>1, <1>5 DEF Chunks
  <2> QED BY <1>3, <2>2, <2>3, Zenon
<1>7. PICK h : Turns("feed", c, p, q, h) /\ FoldLeft(CRC_Drv_Feed, c, p) = h[q]
  BY <1>6, FeedTurns
<1>8. h[0] = c /\ \A j \in 1..q : h[j] = CRC_Drv_Feed(h[j - 1], p[j])
  BY <1>7 DEF Turns, Step
<1> DEFINE End(m) == IF n * m < l THEN n * m ELSE l
           T == {m \in 0..q : Fed(h[m], c, s, End(m))}
<1>9. 0 \in T
  <2>1. n * 0 = 0 /\ End(0) = 0
    BY <1>3
  <2>2. WordsIn(0) = 0
    <3>1. WordBytes * 0 = 0 /\ WordBytes \in Nat \ {0}
      BY DigestAssumption
    <3> QED BY <3>1, WordCount
  <2>3. Len(c) \in Nat
    BY RowIs
  <2>4. Fed(c, c, s, 0)
    BY <2>2, <2>3 DEF Fed
  <2> QED BY <1>8, <2>1, <2>4
<1>10. ASSUME NEW m \in 0..(q - 1), m \in T PROVE m + 1 \in T
  <2>1. m + 1 \in 1..q /\ (m + 1) - 1 = m /\ m \in Nat
    OBVIOUS
  <2>2. PICK b \in Nat : b = n * m /\ n * (m + 1) = b + n /\ b < l
    <3>1. n * ((m + 1) - 1) \in Nat /\ n * (m + 1) = n * ((m + 1) - 1) + n /\ n * ((m + 1) - 1) < l
      BY <1>4, <2>1, PieceEnds
    <3> QED BY <2>1, <3>1
  <2>3. End(m) = b
    BY <2>2
  <2>4. PICK e \in Nat : e = End(m + 1) /\ e = (IF n * (m + 1) < l THEN n * (m + 1) ELSE l) /\ b <= e /\ e <= l
    BY <2>2
  <2>5. PICK r : r = p[m + 1] /\ r = SubSeq(s, b + 1, e)
    BY <1>6, <2>1, <2>2, <2>4
  <2>6. Row(r) /\ Len(r) = e - b /\ \A k \in 1..Len(r) : r[k] = s[b + k]
    <3>1. b + 1 \in Nat \ {0} /\ e <= Len(s) /\ b + 1 <= e + 1
      BY <1>3, <2>4
    <3>2. Row(r) /\ Len(r) = e - (b + 1) + 1 /\ \A k \in 1..(e - (b + 1) + 1) : r[k] = s[b + 1 + k - 1]
      BY <2>5, <3>1, Cut
    <3>3. e - (b + 1) + 1 = e - b /\ \A k \in 1..(e - b) : b + 1 + k - 1 = b + k
      OBVIOUS
    <3> QED BY <3>2, <3>3
  <2>7. PICK a \in Nat : b = WordBytes * a
    <3>1. b = (WordBytes * d) * m
      BY <1>2, <2>2
    <3>2. (WordBytes * d) * m = WordBytes * (d * m) /\ d * m \in Nat
      BY DigestAssumption
    <3> QED BY <3>1, <3>2
  <2>8. Fed(h[m], c, s, b)
    BY <1>10, <2>3
  <2>9. Fed(CRC_Drv_Feed(h[m], r), c, s, e)
    BY <2>4, <2>6, <2>7, <2>8, FeedOn
  <2>10. h[m + 1] = CRC_Drv_Feed(h[m], r)
    BY <1>8, <2>1, <2>5
  <2> QED BY <2>1, <2>4, <2>9, <2>10
<1>11. End(q) = l
  BY <1>4
<1> HIDE DEF T, End
<1>12. \A m \in 0..q : m \in T
  BY <1>9, <1>10, UpTo
<1>13. Fed(h[q], c, s, l)
  <2>1. q \in T
    BY <1>12
  <2> QED BY <1>11, <2>1 DEF T
<1>14. Fed(CRC_Drv_Feed(c, s), c, s, l)
  BY <1>3, FeedIs
<1>15. h[q] = CRC_Drv_Feed(c, s)
  BY <1>13, <1>14, FedSame
<1> QED BY <1>5, <1>7, <1>15

\* where byte k is after the words c
LEMMA FedByte ==
  ASSUME NEW x, NEW c, NEW s, NEW l \in Nat, Row(c), Fed(x, c, s, l), NEW k \in 1..l
  PROVE  \E j \in 1..WordsIn(l), m \in 1..WordBytes : k = WordBytes * (j - 1) + m /\ x[Len(c) + j][m] = s[k]
<1>1. WordsIn(l) \in Nat /\ l <= WordBytes * WordsIn(l) /\ WordBytes \in Nat \ {0}
  BY WordsFit
<1>2. k \in 1..(WordBytes * WordsIn(l))
  BY <1>1
<1>3. PICK j \in 1..WordsIn(l), m \in 1..WordBytes : k = WordBytes * (j - 1) + m
  BY <1>1, <1>2, Place
<1>4. x[Len(c) + j][m] = IF WordBytes * (j - 1) + m <= l THEN s[WordBytes * (j - 1) + m] ELSE {}
  BY DEF Fed
<1>5. x[Len(c) + j][m] = s[k]
  BY <1>3, <1>4
<1> QED BY <1>3, <1>5

\* the place is the same for all
LEMMA FedByteAt ==
  ASSUME NEW x, NEW c, NEW s, NEW l \in Nat, Row(c), Fed(x, c, s, l), NEW k \in 1..l,
         NEW j \in Nat \ {0}, NEW m \in 1..WordBytes, k = WordBytes * (j - 1) + m
  PROVE  j \in 1..WordsIn(l) /\ x[Len(c) + j][m] = s[k]
<1>1. WordsIn(l) \in Nat /\ l <= WordBytes * WordsIn(l) /\ WordBytes \in Nat \ {0}
  BY WordsFit
<1>2. j <= WordsIn(l)
  <2>1. SUFFICES ASSUME WordsIn(l) < j PROVE FALSE
    BY <1>1
  <2>2. WordsIn(l) = j - 1 \/ WordsIn(l) < j - 1
    BY <1>1, <2>1
  <2>3. WordBytes * WordsIn(l) <= WordBytes * (j - 1) /\ WordBytes * (j - 1) \in Nat /\ WordBytes * WordsIn(l) \in Nat
    <3>1. CASE WordsIn(l) = j - 1
      BY <1>1, <3>1
    <3>2. CASE WordsIn(l) < j - 1
      <4>1. j - 1 \in Nat
        OBVIOUS
      <4> QED BY <1>1, <3>2, <4>1, Multiples
    <3> QED BY <2>2, <3>1, <3>2
  <2> QED BY <1>1, <2>3
<1>3. j \in 1..WordsIn(l)
  BY <1>1, <1>2
<1>4. x[Len(c) + j][m] = IF WordBytes * (j - 1) + m <= l THEN s[WordBytes * (j - 1) + m] ELSE {}
  BY <1>3 DEF Fed
<1>5. x[Len(c) + j][m] = s[k]
  BY <1>4
<1> QED BY <1>3, <1>5

\* equal checksums are of bytes that are equal, as far as both headers go
LEMMA HeaderByte ==
  ASSUME NEW a, NEW b, NEW c, NEW d, Row(a), Row(b), Row(c), Row(d),
         CRC_Drv_Feed(CRC_Drv_Feed(<<>>, a), b) = CRC_Drv_Feed(CRC_Drv_Feed(<<>>, c), d),
         NEW k \in 1..Len(a), k \in 1..Len(c)
  PROVE  a[k] = c[k]
<1>1. PICK o : o = <<>> /\ Row(o) /\ Len(o) = 0
  BY EmptyRow
<1>2. PICK x, y : x = CRC_Drv_Feed(o, a) /\ y = CRC_Drv_Feed(o, c)
  OBVIOUS
<1>3. Fed(x, o, a, Len(a)) /\ Fed(y, o, c, Len(c))
  BY <1>1, <1>2, FeedIs
<1>4. PICK z : z = CRC_Drv_Feed(x, b) /\ z = CRC_Drv_Feed(y, d)
  BY <1>1, <1>2
<1>5. Row(x) /\ Row(y) /\ Len(x) = WordsIn(Len(a)) /\ Len(y) = WordsIn(Len(c))
  <2>1. Row(x) /\ Row(y) /\ Len(x) = 0 + WordsIn(Len(a)) /\ Len(y) = 0 + WordsIn(Len(c))
    BY <1>1, <1>3 DEF Fed
  <2>2. WordsIn(Len(a)) \in Nat /\ WordsIn(Len(c)) \in Nat
    BY RowIs, WordsFit
  <2> QED BY <2>1, <2>2
<1>6. Fed(z, x, b, Len(b)) /\ Fed(z, y, d, Len(d))
  BY <1>4, <1>5, FeedIs
<1>7. (\A j \in 1..Len(x) : z[j] = x[j]) /\ (\A j \in 1..Len(y) : z[j] = y[j])
  BY <1>6 DEF Fed
<1>8. Len(a) \in Nat /\ Len(c) \in Nat
  BY RowIs
<1>9. PICK j \in 1..WordsIn(Len(a)), m \in 1..WordBytes : k = WordBytes * (j - 1) + m /\ x[Len(o) + j][m] = a[k]
  BY <1>1, <1>3, <1>8, FedByte
<1>10. j \in Nat \ {0}
  OBVIOUS
<1>11. j \in 1..WordsIn(Len(c)) /\ y[Len(o) + j][m] = c[k]
  BY <1>1, <1>3, <1>8, <1>9, <1>10, FedByteAt
<1>12. Len(o) + j = j
  BY <1>1
<1>13. x[j] = z[j] /\ y[j] = z[j]
  BY <1>5, <1>7, <1>9, <1>11
<1> QED BY <1>9, <1>11, <1>12, <1>13

\* and of bodies that are equal, behind the same header
LEMMA BodyByte ==
  ASSUME NEW x, NEW b, NEW d, Row(x), Row(b), Row(d), CRC_Drv_Feed(x, b) = CRC_Drv_Feed(x, d),
         NEW k \in 1..Len(b), k \in 1..Len(d)
  PROVE  b[k] = d[k]
<1>1. PICK z : z = CRC_Drv_Feed(x, b) /\ z = CRC_Drv_Feed(x, d)
  OBVIOUS
<1>2. Fed(z, x, b, Len(b)) /\ Fed(z, x, d, Len(d)) /\ Len(b) \in Nat /\ Len(d) \in Nat
  BY <1>1, FeedIs, RowIs
<1>3. PICK j \in 1..WordsIn(Len(b)), m \in 1..WordBytes : k = WordBytes * (j - 1) + m /\ z[Len(x) + j][m] = b[k]
  BY <1>2, FedByte, SMTT(40)
<1>4. j \in Nat \ {0}
  OBVIOUS
<1>5. z[Len(x) + j][m] = d[k]
  BY <1>2, <1>3, <1>4, FedByteAt
<1> QED BY <1>3, <1>5

-----------------------------------------------------------------------------
(* The counter mode. *)

Following(f, x) == IF f = "increment" THEN Increment(x) ELSE CounterBase * x

Repeats(f, base, c) == c = [j \in Nat |-> IF j = 0 THEN base ELSE Following(f, c[j - 1])]

\* the recursion of the counters has a solution, which AesCtr_Apply chooses
LEMMA RepeatExists ==
  ASSUME NEW f, NEW base
  PROVE  \E c : Repeats(f, base, c)
<1> DEFINE Starts(g, n) == g[0] = base /\ \A j \in 1..n : g[j] = Following(f, g[j - 1])
<1>1. ASSUME NEW n \in Nat PROVE \E g : Starts(g, n)
  <2> DEFINE T == {m \in 0..n : \E g : Starts(g, m)}
  <2>1. 0 \in T
    <3>1. PICK g : g = [j \in 0..0 |-> base]
      OBVIOUS
    <3>2. Starts(g, 0)
      BY <3>1
    <3> QED BY <3>2
  <2>2. ASSUME NEW m \in 0..(n - 1), m \in T PROVE m + 1 \in T
    <3>1. PICK g : Starts(g, m)
      BY <2>2
    <3>2. PICK e : e = [j \in 0..(m + 1) |-> IF j = m + 1 THEN Following(f, g[m]) ELSE g[j]]
      OBVIOUS
    <3>3. ASSUME NEW j \in 1..(m + 1) PROVE e[j] = Following(f, e[j - 1])
      <4>1. CASE j = m + 1
        <5>1. e[j] = Following(f, g[m]) /\ j - 1 = m /\ m \in 0..(m + 1) /\ m # m + 1
          BY <3>2, <4>1
        <5>2. e[m] = g[m]
          BY <3>2, <5>1
        <5> QED BY <5>1, <5>2
      <4>2. CASE j # m + 1
        <5>1. j \in 1..m /\ j - 1 \in 0..(m + 1) /\ j - 1 # m + 1
          BY <4>2
        <5>2. e[j] = g[j] /\ e[j - 1] = g[j - 1]
          BY <3>2, <5>1
        <5> QED BY <3>1, <5>1, <5>2
      <4> QED BY <4>1, <4>2
    <3>4. e[0] = base
      BY <3>1, <3>2
    <3>5. Starts(e, m + 1)
      BY <3>3, <3>4
    <3> QED BY <3>5
  <2> HIDE DEF T, Starts
  <2>3. \A m \in 0..n : m \in T
    BY <2>1, <2>2, UpTo
  <2>4. n \in T
    BY <2>3
  <2> QED BY <2>4 DEF T
<1>2. ASSUME NEW n \in Nat, NEW m \in Nat, n <= m, NEW g, NEW e, Starts(g, n), Starts(e, m)
      PROVE  g[n] = e[n]
  <2> DEFINE T == {k \in 0..n : g[k] = e[k]}
  <2>1. 0 \in T
    BY <1>2
  <2>2. ASSUME NEW k \in 0..(n - 1), k \in T PROVE k + 1 \in T
    <3>1. k + 1 \in 1..n /\ k + 1 \in 1..m /\ (k + 1) - 1 = k
      BY <1>2
    <3>2. g[k + 1] = Following(f, g[k]) /\ e[k + 1] = Following(f, e[k])
      BY <1>2, <3>1
    <3> QED BY <2>2, <3>2
  <2> HIDE DEF T, Starts
  <2>3. \A k \in 0..n : k \in T
    BY <2>1, <2>2, UpTo
  <2>4. n \in T
    BY <2>3
  <2> QED BY <2>4 DEF T
<1> DEFINE G(n) == CHOOSE g : Starts(g, n)
<1>3. \A n \in Nat : Starts(G(n), n)
  <2> HIDE DEF Starts
  <2> QED BY <1>1
<1> HIDE DEF G
<1>4. PICK c : c = [n \in Nat |-> G(n)[n]]
  OBVIOUS
<1>5. ASSUME NEW n \in Nat PROVE c[n] = IF n = 0 THEN base ELSE Following(f, c[n - 1])
  <2>1. CASE n = 0
    BY <1>3, <1>4, <2>1
  <2>2. CASE n # 0
    <3>1. n - 1 \in Nat /\ n \in 1..n /\ n - 1 <= n
      BY <2>2
    <3>2. G(n)[n] = Following(f, G(n)[n - 1])
      BY <1>3, <3>1
    <3>3. G(n - 1)[n - 1] = G(n)[n - 1]
      <4> HIDE DEF Starts
      <4> QED BY <1>2, <1>3, <3>1
    <3> QED BY <1>4, <2>2, <3>1, <3>2, <3>3
  <2> QED BY <2>1, <2>2
<1>6. c = [n \in Nat |-> c[n]]
  BY <1>4
<1>7. Repeats(f, base, c)
  BY <1>5, <1>6 DEF Repeats
<1> QED BY <1>7

\* the number of counters, as a recursion
LEMMA CountersAre == Counters[0] = 1 /\ \A n \in Nat : Counters[n + 1] = CounterBase * Counters[n]
<1>1. \A x : Following("multiply", x) = CounterBase * x
  BY DEF Following
<1>2. \E c : c = [n \in Nat |-> IF n = 0 THEN 1 ELSE CounterBase * c[n - 1]]
  <2>1. PICK c : Repeats("multiply", 1, c)
    BY RepeatExists
  <2>2. c = [n \in Nat |-> IF n = 0 THEN 1 ELSE CounterBase * c[n - 1]]
    BY <1>1, <2>1, Zenon DEF Repeats
  <2> QED BY <2>2
<1>3. Counters = [n \in Nat |-> IF n = 0 THEN 1 ELSE CounterBase * Counters[n - 1]]
  BY <1>2, Zenon DEF Counters
<1>4. \A n \in Nat : n + 1 \in Nat /\ n + 1 # 0 /\ (n + 1) - 1 = n
  OBVIOUS
<1>5. \A n \in Nat : Counters[n] = IF n = 0 THEN 1 ELSE CounterBase * Counters[n - 1]
  BY <1>3, Zenon
<1>6. 0 \in Nat
  OBVIOUS
<1> QED BY <1>4, <1>5, <1>6, Zenon

\* c is iv and the counters after it
Runs(c, iv) == c[0] = iv /\ \A j \in Nat : c[j + 1] = Increment(c[j])

Streamed(key, c, s) == [k \in DOMAIN s |-> Xor(s[k], {<<"aes", key, c[(k - 1) \div CipherLen], k % CipherLen>>})]

\* AesCtr_Apply adds the encrypted counters, one after the other
LEMMA ApplyIs ==
  ASSUME NEW key, NEW iv
  PROVE  \E c : Runs(c, iv) /\ \A s : AesCtr_Apply(s, key, iv) = Streamed(key, c, s)
<1> DEFINE G(c) == [j \in Nat |-> IF j = 0 THEN iv ELSE Increment(c[j - 1])]
           c    == CHOOSE e : e = G(e)
<1>1. \A x : Following("increment", x) = Increment(x)
  BY DEF Following
<1>2. \E e : e = G(e)
  <2>1. PICK e : Repeats("increment", iv, e)
    BY RepeatExists
  <2>2. e = G(e)
    BY <1>1, <2>1, Zenon DEF Repeats
  <2> QED BY <2>2
<1>3. c = G(c)
  BY <1>2, Zenon
<1>4. \A s : AesCtr_Apply(s, key, iv) = Streamed(key, c, s)
  BY Zenon DEF AesCtr_Apply, Aes128_EncryptBlock, Streamed
<1> HIDE DEF c
<1>5. \A n \in Nat : n + 1 \in Nat /\ n + 1 # 0 /\ (n + 1) - 1 = n
  OBVIOUS
<1>6. \A n \in Nat : c[n] = IF n = 0 THEN iv ELSE Increment(c[n - 1])
  BY <1>3, Zenon
<1>7. Runs(c, iv)
  <2>1. 0 \in Nat
    OBVIOUS
  <2> QED BY <1>5, <1>6, <2>1, Zenon DEF Runs
<1> QED BY <1>4, <1>7, Zenon

\* what is added twice is gone
LEMMA XorTwice ==
  ASSUME NEW a, NEW b
  PROVE  Xor(Xor(a, b), b) = a /\ Xor(Xor(a, b), a) = b
BY DEF Xor

\* what was encrypted comes back, as long as it was
LEMMA ThereAndBack ==
  ASSUME NEW key, NEW iv, NEW s, Row(s)
  PROVE  /\ AesCtr_Apply(AesCtr_Apply(s, key, iv), key, iv) = s
         /\ Row(AesCtr_Apply(s, key, iv)) /\ Len(AesCtr_Apply(s, key, iv)) = Len(s)
<1>1. PICK c : \A r : AesCtr_Apply(r, key, iv) = Streamed(key, c, r)
  BY ApplyIs
<1>2. PICK e : e = [k \in DOMAIN s |-> {<<"aes", key, c[(k - 1) \div CipherLen], k % CipherLen>>}]
  OBVIOUS
<1>3. PICK r : r = AesCtr_Apply(s, key, iv)
  OBVIOUS
<1>4. r = [k \in DOMAIN s |-> Xor(s[k], e[k])]
  BY <1>1, <1>2, <1>3 DEF Streamed
<1>5. DOMAIN r = DOMAIN s
  BY <1>4
<1>6. AesCtr_Apply(r, key, iv) = [k \in DOMAIN s |-> Xor(r[k], e[k])]
  BY <1>1, <1>2, <1>5 DEF Streamed
<1>7. \A k \in DOMAIN s : Xor(r[k], e[k]) = s[k]
  BY <1>4, XorTwice
<1>8. AesCtr_Apply(r, key, iv) = [k \in DOMAIN s |-> s[k]]
  BY <1>6, <1>7
<1>9. Len(s) \in Nat /\ DOMAIN s = 1..Len(s) /\ s = [k \in 1..Len(s) |-> s[k]]
  BY RowIs
<1>10. r = [k \in 1..Len(s) |-> r[k]]
  BY <1>4, <1>9
<1>11. Row(r) /\ Len(r) = Len(s)
  BY <1>9, <1>10, RowOf
<1>12. AesCtr_Apply(r, key, iv) = s
  BY <1>8, <1>9
<1> QED BY <1>3, <1>11, <1>12

Digits == 0..(CounterBase - 1)

Highest(c, p, d) == \A q \in (p + 1)..d : c[q] = CounterBase - 1

\* an increment changes a digit when all after it are highest
LEMMA IncrementIs ==
  ASSUME NEW d \in Nat, NEW c \in [1..d -> Digits]
  PROVE  /\ Increment(c) \in [1..d -> Digits]
         /\ \A p \in 1..d : Increment(c)[p] = IF Highest(c, p, d) THEN (c[p] + 1) % CounterBase ELSE c[p]
<1>1. CounterBase \in Nat \ {0}
  BY DigestAssumption
<1>2. \A p \in 1..d : (\A q \in DOMAIN c : q > p => c[q] = CounterBase - 1) <=> Highest(c, p, d)
  BY DEF Highest
<1>3. Increment(c) = [p \in 1..d |-> IF Highest(c, p, d) THEN (c[p] + 1) % CounterBase ELSE c[p]]
  <2>1. DOMAIN c = 1..d
    OBVIOUS
  <2> QED BY <1>2, <2>1 DEF Increment
<1>4. \A p \in 1..d : c[p] \in Digits /\ (c[p] + 1) % CounterBase \in Digits
  <2>1. ASSUME NEW p \in 1..d PROVE c[p] \in Digits /\ (c[p] + 1) % CounterBase \in Digits
    <3>1. c[p] \in Digits
      OBVIOUS
    <3>2. PICK a \in Nat : a = c[p] + 1
      BY <1>1, <3>1 DEF Digits
    <3>3. a % CounterBase \in 0..(CounterBase - 1)
      BY <1>1, Divided
    <3> QED BY <3>1, <3>2, <3>3 DEF Digits
  <2> QED BY <2>1
<1> QED BY <1>3, <1>4

\* the last n digits of a counter as a number, which Increment counts up
Counts(val, n, d) ==
  /\ val \in [[1..d -> Digits] -> 0..(Counters[n] - 1)]
  /\ \A c \in [1..d -> Digits] : val[c] = Counters[n] - 1 <=> Highest(c, d - n, d)
  /\ \A c \in [1..d -> Digits] : val[Increment(c)] = IF val[c] = Counters[n] - 1 THEN 0 ELSE val[c] + 1

\* there is a counter
LEMMA CountersNat == ASSUME NEW n \in Nat PROVE Counters[n] \in Nat \ {0}
<1> DEFINE T == {m \in 0..n : Counters[m] \in Nat \ {0}}
<1>1. CounterBase \in Nat \ {0}
  BY DigestAssumption
<1>2. 0 \in T
  BY CountersAre
<1>3. ASSUME NEW m \in 0..(n - 1), m \in T PROVE m + 1 \in T
  <2>1. Counters[m + 1] = CounterBase * Counters[m]
    BY CountersAre
  <2>2. \A a \in Nat \ {0}, b \in Nat \ {0} : a * b \in Nat \ {0}
    OBVIOUS
  <2>3. Counters[m + 1] \in Nat \ {0}
    BY <1>1, <1>3, <2>1, <2>2
  <2> QED BY <2>3
<1> HIDE DEF T
<1>4. \A m \in 0..n : m \in T
  BY <1>2, <1>3, UpTo
<1>5. n \in T
  BY <1>4
<1> QED BY <1>5 DEF T

\* the last digits count up when the ones after them do
LEMMA CountUp ==
  ASSUME NEW d \in Nat, NEW n \in 0..(d - 1), NEW val, Counts(val, n, d)
  PROVE  \E new : Counts(new, n + 1, d)
<1> DEFINE S == [1..d -> Digits]
<1>0. PICK b \in Nat \ {0}, p \in Nat \ {0}, e \in 1..d : b = CounterBase /\ p = Counters[n] /\ e = d - n
  <2>1. d - n \in 1..d /\ n \in Nat
    OBVIOUS
  <2> QED BY <2>1, CountersNat, DigestAssumption
<1>1. Counters[n + 1] = b * p /\ b * p \in Nat \ {0}
  <2>1. n \in Nat /\ n + 1 \in Nat
    OBVIOUS
  <2> QED BY <1>0, <2>1, CountersAre, CountersNat
<1>2. /\ \A c \in S : val[c] \in 0..(p - 1)
      /\ \A c \in S : val[c] = p - 1 <=> Highest(c, e, d)
      /\ \A c \in S : val[Increment(c)] = IF val[c] = p - 1 THEN 0 ELSE val[c] + 1
  <2>1. /\ val \in [S -> 0..(p - 1)]
        /\ \A c \in S : val[c] = p - 1 <=> Highest(c, e, d)
        /\ \A c \in S : val[Increment(c)] = IF val[c] = p - 1 THEN 0 ELSE val[c] + 1
    BY <1>0, Zenon DEF Counts
  <2> HIDE DEF S
  <2> QED BY <2>1
<1>3. \A c \in S : c[e] \in 0..(b - 1)
  BY <1>0 DEF Digits
<1>4. \A c \in S : Increment(c) \in S /\ Increment(c)[e] = IF val[c] = p - 1 THEN (c[e] + 1) % b ELSE c[e]
  <2>1. \A c \in S : /\ Increment(c) \in S
                     /\ Increment(c)[e] = IF Highest(c, e, d) THEN (c[e] + 1) % CounterBase ELSE c[e]
    BY IncrementIs
  <2> QED BY <1>0, <1>2, <2>1
<1>5. PICK new : new = [c \in S |-> val[c] + p * c[e]]
  OBVIOUS
<1>6. \A c \in S : Highest(c, e - 1, d) <=> Highest(c, e, d) /\ c[e] = b - 1
  <2>1. \A q : q \in ((e - 1) + 1)..d <=> q = e \/ q \in (e + 1)..d
    BY <1>0
  <2> QED BY <1>0, <2>1 DEF Highest
<1> HIDE DEF S
<1>7. ASSUME NEW c \in S
      PROVE  /\ new[c] \in 0..(b * p - 1)
             /\ new[c] = b * p - 1 <=> (val[c] = p - 1 /\ c[e] = b - 1)
             /\ new[Increment(c)] = IF new[c] = b * p - 1 THEN 0 ELSE new[c] + 1
  <2>1. PICK v \in 0..(p - 1), x \in 0..(b - 1) : v = val[c] /\ x = c[e] /\ new[c] = v + p * x
    BY <1>2, <1>3, <1>5
  <2>2. PICK m \in Nat : m = p * x
    OBVIOUS
  <2>3. b * p = p * b
    OBVIOUS
  <2>4. PICK g \in Nat : g = b * p
    BY <1>1
  <2>5. x = b - 1 => m + p = g
    <3>1. p * (b - 1) + p = p * b
      OBVIOUS
    <3> QED BY <2>2, <2>3, <2>4, <3>1
  <2>6. x # b - 1 => m + p + p <= g
    <3>1. SUFFICES ASSUME x # b - 1 PROVE m + p + p <= g
      OBVIOUS
    <3>2. x + 1 < b /\ x + 1 \in Nat
      BY <3>1
    <3>3. p * (x + 1) + p <= p * b
      BY <3>2, Multiples
    <3>4. p * (x + 1) = p * x + p
      OBVIOUS
    <3> QED BY <2>2, <2>3, <2>4, <3>3, <3>4
  <2>7. new[c] = v + m /\ v < p
    BY <2>1, <2>2
  <2>8. new[c] \in 0..(g - 1) /\ (new[c] = g - 1 <=> v = p - 1 /\ x = b - 1)
    BY <2>5, <2>6, <2>7
  <2>9. PICK y : y = Increment(c) /\ y \in S
    BY <1>4
  <2>10. new[y] = val[y] + p * y[e]
    BY <1>5, <2>9
  <2>11. CASE v # p - 1
    <3>1. val[y] = v + 1 /\ y[e] = x
      BY <1>2, <1>4, <2>1, <2>9, <2>11
    <3>2. new[y] = v + 1 + m
      BY <2>2, <2>10, <3>1
    <3> QED BY <2>1, <2>4, <2>7, <2>8, <2>9, <2>11, <3>2
  <2>12. CASE v = p - 1 /\ x # b - 1
    <3>1. val[y] = 0 /\ y[e] = (x + 1) % b
      BY <1>2, <1>4, <2>1, <2>9, <2>12
    <3>2. (x + 1) % b = x + 1
      <4>1. x + 1 \in Nat /\ x + 1 < b /\ x + 1 = b * 0 + (x + 1)
        BY <2>12
      <4> QED BY <4>1, Quotient, ZenonT(40)
    <3>3. p * (x + 1) = m + p
      BY <2>2
    <3>4. new[y] = m + p
      BY <2>10, <3>1, <3>2, <3>3
    <3> QED BY <2>1, <2>4, <2>7, <2>8, <2>9, <2>12, <3>4
  <2>13. CASE v = p - 1 /\ x = b - 1
    <3>1. val[y] = 0 /\ y[e] = (x + 1) % b
      BY <1>2, <1>4, <2>1, <2>9, <2>13
    <3>2. (x + 1) % b = 0
      <4>1. PICK f \in Nat, h \in Nat : f = 1 /\ h = 0
        OBVIOUS
      <4>2. x + 1 = b * f + h /\ h < b
        BY <2>13, <4>1
      <4>3. (x + 1) % b = h
        BY <4>2, Quotient
      <4> QED BY <4>1, <4>3
    <3>3. new[y] = 0
      <4>1. p * 0 = 0
        OBVIOUS
      <4> QED BY <2>10, <3>1, <3>2, <4>1
    <3> QED BY <2>1, <2>4, <2>7, <2>8, <2>9, <2>13, <3>3
  <2> QED BY <2>11, <2>12, <2>13
<1>8. new \in [S -> 0..(b * p - 1)]
  BY <1>5, <1>7
<1>9. \A c \in S : new[c] = b * p - 1 <=> Highest(c, d - (n + 1), d)
  <2>1. d - (n + 1) = e - 1
    BY <1>0
  <2> QED BY <1>2, <1>6, <1>7, <2>1
<1>10. \A c \in S : new[Increment(c)] = IF new[c] = b * p - 1 THEN 0 ELSE new[c] + 1
  BY <1>7
<1> QED BY <1>1, <1>8, <1>9, <1>10, SMTT(40) DEF Counts, S

\* the digits of a counter count up
LEMMA CountsExists ==
  ASSUME NEW d \in Nat
  PROVE  \E val : Counts(val, d, d)
<1> DEFINE T == {m \in 0..d : \E val : Counts(val, m, d)}
<1>1. 0 \in T
  <2> DEFINE S == [1..d -> Digits]
  <2>1. PICK val : val = [c \in S |-> 0]
    OBVIOUS
  <2>2. Counters[0] = 1
    BY CountersAre
  <2>3. \A c \in S : val[c] = 0 /\ Highest(c, d - 0, d) /\ Increment(c) \in S
    BY <2>1, IncrementIs DEF Highest
  <2> HIDE DEF S
  <2>4. /\ val \in [S -> 0..(Counters[0] - 1)]
        /\ \A c \in S : val[c] = Counters[0] - 1 <=> Highest(c, d - 0, d)
        /\ \A c \in S : val[Increment(c)] = IF val[c] = Counters[0] - 1 THEN 0 ELSE val[c] + 1
    BY <2>1, <2>2, <2>3
  <2>5. Counts(val, 0, d)
    BY <2>4, Zenon DEF Counts, S
  <2> QED BY <2>5
<1>2. ASSUME NEW m \in 0..(d - 1), m \in T PROVE m + 1 \in T
  <2>1. PICK val : Counts(val, m, d)
    BY <1>2
  <2>2. \E new : Counts(new, m + 1, d)
    BY <2>1, CountUp
  <2>3. m + 1 \in 0..d
    OBVIOUS
  <2> QED BY <2>2, <2>3
<1> HIDE DEF T
<1>3. \A m \in 0..d : m \in T
  BY <1>1, <1>2, UpTo
<1>4. d \in T
  BY <1>3
<1> QED BY <1>4 DEF T

\* counters do not come round before there have been as many as there are
LEMMA CountersDiffer ==
  ASSUME NEW d \in Nat, NEW iv \in [1..d -> Digits], NEW c, Runs(c, iv), NEW y \in Nat, NEW m \in 1..(Counters[d] - 1)
  PROVE  c[y + m] # c[y]
<1>1. PICK p \in Nat \ {0} : p = Counters[d]
  BY CountersNat
<1>2. PICK val : Counts(val, d, d)
  BY CountsExists
<1> DEFINE S == [1..d -> Digits]
<1>3. /\ \A x \in S : val[x] \in 0..(p - 1)
      /\ \A x \in S : val[Increment(x)] = IF val[x] = p - 1 THEN 0 ELSE val[x] + 1
  <2>1. val \in [S -> 0..(p - 1)] /\ \A x \in S : val[Increment(x)] = IF val[x] = p - 1 THEN 0 ELSE val[x] + 1
    BY <1>1, <1>2, Zenon DEF Counts
  <2> HIDE DEF S
  <2> QED BY <2>1
<1>4. \A x \in S : Increment(x) \in S
  BY IncrementIs
<1>5. c[0] \in S
  BY DEF Runs
<1> HIDE DEF S
<1>6. \A j \in 0..y : c[j] \in S
  <2> DEFINE T == {j \in 0..y : c[j] \in S}
  <2>1. 0 \in T
    BY <1>5
  <2>2. ASSUME NEW j \in 0..(y - 1), j \in T PROVE j + 1 \in T
    <3>1. j \in Nat /\ j + 1 \in 0..y
      OBVIOUS
    <3>2. c[j + 1] = Increment(c[j])
      BY <3>1 DEF Runs
    <3> QED BY <1>4, <2>2, <3>1, <3>2
  <2> HIDE DEF T
  <2>3. \A j \in 0..y : j \in T
    BY <2>1, <2>2, UpTo
  <2> QED BY <2>3 DEF T
<1>7. PICK v \in 0..(p - 1) : v = val[c[y]]
  <2>1. c[y] \in S
    BY <1>6
  <2> QED BY <1>3, <2>1
<1> DEFINE T == {k \in 0..m : c[y + k] \in S /\ val[c[y + k]] = IF v + k < p THEN v + k ELSE v + k - p}
<1>8. 0 \in T
  <2>1. y + 0 = y /\ c[y] \in S
    BY <1>6
  <2> QED BY <1>7, <2>1
<1>9. ASSUME NEW k \in 0..(m - 1), k \in T PROVE k + 1 \in T
  <2>1. y + k \in Nat /\ y + (k + 1) = (y + k) + 1 /\ k + 1 \in 0..m /\ m < p
    BY <1>1
  <2>2. PICK x : x = c[y + k] /\ x \in S /\ val[x] = IF v + k < p THEN v + k ELSE v + k - p
    BY <1>9
  <2>3. c[y + (k + 1)] = Increment(x)
    BY <2>1, <2>2 DEF Runs
  <2>4. Increment(x) \in S /\ val[Increment(x)] = IF val[x] = p - 1 THEN 0 ELSE val[x] + 1
    BY <1>3, <1>4, <2>2
  <2>5. val[Increment(x)] = IF v + (k + 1) < p THEN v + (k + 1) ELSE v + (k + 1) - p
    BY <2>1, <2>2, <2>4
  <2> QED BY <2>1, <2>3, <2>4, <2>5
<1> HIDE DEF T
<1>10. \A k \in 0..m : k \in T
  BY <1>8, <1>9, UpTo
<1>11. val[c[y + m]] = IF v + m < p THEN v + m ELSE v + m - p
  <2>1. m \in T
    BY <1>10
  <2> QED BY <2>1 DEF T
<1>12. val[c[y + m]] # v
  BY <1>1, <1>11
<1> QED BY <1>7, <1>12

\* three rows that are joined, in either order
LEMMA RowAssoc ==
  ASSUME NEW a, NEW b, NEW c, Row(a), Row(b), Row(c)
  PROVE  (a \o b) \o c = a \o (b \o c)
<1> DEFINE S == Range(a) \cup Range(b) \cup Range(c)
<1>1. a \in Seq(S) /\ b \in Seq(S) /\ c \in Seq(S)
  <2>1. a \in [1..Len(a) -> S] /\ b \in [1..Len(b) -> S] /\ c \in [1..Len(c) -> S]
    BY RowIs DEF Range
  <2> QED BY <2>1, RowIs
<1> HIDE DEF S
<1> QED BY <1>1, ConcatAssociative

\* no byte of the key stream serves twice
LEMMA StreamDiffers ==
  ASSUME NEW d \in Nat, NEW iv \in [1..d -> Digits], NEW key, NEW s, Row(s), Len(s) <= CipherLen * Counters[d],
         NEW j \in 1..Len(s), NEW k \in 1..Len(s), j < k
  PROVE  Xor(AesCtr_Apply(s, key, iv)[j], s[j]) # Xor(AesCtr_Apply(s, key, iv)[k], s[k])
<1>1. PICK c : Runs(c, iv) /\ AesCtr_Apply(s, key, iv) = Streamed(key, c, s)
  BY ApplyIs
<1>2. PICK n \in Nat \ {0}, l \in Nat : n = CipherLen /\ l = Len(s)
  BY DigestAssumption, RowIs
<1>3. ASSUME NEW x \in 1..l
      PROVE  Xor(AesCtr_Apply(s, key, iv)[x], s[x]) = {<<"aes", key, c[(x - 1) \div n], x % n>>}
  <2>1. DOMAIN s = 1..l
    BY <1>2, RowIs
  <2>2. PICK e : e = {<<"aes", key, c[(x - 1) \div n], x % n>>}
    OBVIOUS
  <2>3. Streamed(key, c, s)[x] = Xor(s[x], e)
    BY <1>2, <2>1, <2>2 DEF Streamed
  <2> QED BY <1>1, <2>2, <2>3, XorTwice
<1>4. PICK a \in Nat, f \in 0..(n - 1) : a = (j - 1) \div n /\ j - 1 = n * a + f
  <2>1. j - 1 \in Nat
    OBVIOUS
  <2> QED BY <2>1, Divided, ZenonT(40)
<1>5. PICK b \in Nat, g \in 0..(n - 1) : b = (k - 1) \div n /\ k - 1 = n * b + g
  <2>1. k - 1 \in Nat
    OBVIOUS
  <2> QED BY <2>1, Divided, ZenonT(40)
<1>6. j \in 1..l /\ k \in 1..l
  BY <1>2
<1>7. SUFFICES ASSUME <<"aes", key, c[a], j % n>> = <<"aes", key, c[b], k % n>>
               PROVE  FALSE
  <2>1. PICK x, y : x = <<"aes", key, c[a], j % n>> /\ y = <<"aes", key, c[b], k % n>>
    OBVIOUS
  <2>2. /\ Xor(AesCtr_Apply(s, key, iv)[j], s[j]) = {x}
        /\ Xor(AesCtr_Apply(s, key, iv)[k], s[k]) = {y}
    BY <1>3, <1>4, <1>5, <1>6, <2>1
  <2>3. x # y
    BY <1>7, <2>1, Zenon
  <2>4. {x} # {y}
    BY <2>3
  <2> QED BY <2>2, <2>4
<1>8. c[a] = c[b] /\ j % n = k % n
  BY <1>7
<1>9. a <= b
  <2>1. SUFFICES ASSUME b < a PROVE FALSE
    OBVIOUS
  <2>2. n * b + n <= n * a /\ n * a \in Nat /\ n * b \in Nat
    BY <2>1, Multiples
  <2> QED BY <1>4, <1>5, <2>2
<1>10. CASE a = b
  <2>1. PICK m \in Nat : m = n * a
    OBVIOUS
  <2>2. f < g /\ j = m + (f + 1) /\ k = m + (g + 1)
    BY <1>4, <1>5, <1>10, <2>1
  <2>3. j % n = f + 1
    <3>1. PICK o \in Nat : o = f + 1
      OBVIOUS
    <3>2. j = n * a + o /\ o < n
      BY <2>1, <2>2, <3>1
    <3>3. j % n = o
      BY <3>2, Quotient
    <3> QED BY <3>1, <3>3
  <2>4. CASE g + 1 < n
    <3>1. PICK o \in Nat : o = g + 1
      OBVIOUS
    <3>2. k = n * a + o /\ o < n
      BY <2>1, <2>2, <2>4, <3>1
    <3>3. k % n = o
      BY <3>2, Quotient
    <3> QED BY <1>8, <2>2, <2>3, <3>1, <3>3
  <2>5. CASE g + 1 = n
    <3>1. PICK z \in Nat, o \in Nat : z = 0 /\ o = a + 1
      OBVIOUS
    <3>2. k = n * o + z /\ z < n
      BY <2>1, <2>2, <2>5, <3>1
    <3>3. k % n = 0
      BY <3>1, <3>2, Quotient, ZenonT(40)
    <3> QED BY <1>8, <2>2, <2>3, <3>3
  <2> QED BY <2>4, <2>5
<1>11. CASE a # b
  <2>1. PICK p \in Nat \ {0} : p = Counters[d]
    BY CountersNat
  <2>2. b < p
    <3>1. SUFFICES ASSUME p <= b PROVE FALSE
      OBVIOUS
    <3>2. n * p <= n * b /\ n * b \in Nat
      <4>1. CASE p = b
        BY <4>1
      <4>2. CASE p < b
        BY <4>2, Multiples
      <4> QED BY <3>1, <4>1, <4>2
    <3>3. k <= n * p /\ n * p \in Nat
      BY <1>2, <2>1
    <3> QED BY <1>5, <3>2, <3>3
  <2>3. PICK m \in 1..(p - 1) : b = a + m
    <3>1. b - a \in 1..(p - 1) /\ b = a + (b - a)
      BY <1>9, <1>11, <2>2
    <3> QED BY <3>1
  <2>4. c[a + m] # c[a]
    BY <1>1, <2>1, CountersDiffer
  <2> QED BY <1>8, <2>3, <2>4
<1> QED BY <1>10, <1>11

-----------------------------------------------------------------------------
(* What a commit writes. *)

\* HmacSha256 is the MAC of the standard
LEMMA HmacIs ==
  ASSUME NEW key, NEW msg, IsKey(key), Row(msg)
  PROVE  HmacSha256(key, msg) = RefHmac(key, msg)
<1>1. PICK mac : mac = HmacSha256_Init(key)
  OBVIOUS
<1>2. MacOf(mac, key)
  BY <1>1, InitIs
<1> QED BY <1>1, <1>2, ComputeIs, Zenon DEF HmacSha256

IsDigest(d) == Row(d) /\ Len(d) = DigestLen /\ DOMAIN d = 1..DigestLen

\* a digest is short enough to be a key
LEMMA DigestKey ==
  ASSUME NEW d, IsDigest(d)
  PROVE  IsKey(d)
BY Sizes DEF IsDigest, IsKey

\* a label is a byte
LEMMA LabelRow == ASSUME NEW l PROVE Row(Text(l)) /\ Len(Text(l)) = 1 /\ Text(l)[1] = {<<"text", l>>}
<1>1. PICK e : e = {<<"text", l>>}
  OBVIOUS
<1>2. Text(l) = <<e>>
  BY <1>1 DEF Text
<1> QED BY <1>1, <1>2, OneByte

\* a key that is derived from a digest
LEMMA SubKey ==
  ASSUME NEW d, NEW l, IsDigest(d)
  PROVE  HmacSha256(d, Text(l)) = RefHmac(d, Text(l)) /\ IsDigest(HmacSha256(d, Text(l)))
<1>1. Row(Text(l)) /\ IsKey(d)
  BY LabelRow, DigestKey
<1>2. HmacSha256(d, Text(l)) = RefHmac(d, Text(l))
  BY <1>1, HmacIs
<1>3. IsDigest(RefHmac(d, Text(l)))
  BY MacRow DEF IsDigest
<1> QED BY <1>2, <1>3

\* and what it is derived from
LEMMA SameSubKey ==
  ASSUME NEW d, NEW e, NEW l, IsDigest(d), IsDigest(e), HmacSha256(d, Text(l)) = HmacSha256(e, Text(l))
  PROVE  d = e
<1>1. PICK x : x = Text(l) /\ Row(x)
  BY LabelRow
<1>2. RefHmac(d, x) = RefHmac(e, x)
  BY <1>1, SubKey
<1>3. IsKey(d) /\ IsKey(e) /\ Len(d) = Len(e)
  BY DigestKey DEF IsDigest
<1> QED BY <1>1, <1>2, <1>3, SameMac

\* the MAC over the parts is the MAC over the whole
LEMMA PartsAre ==
  ASSUME NEW mac, NEW key, NEW a, NEW b, MacOf(mac, key), Row(a), Row(b)
  PROVE  MacParts(mac, <<<<>>, a, b>>) = RefHmac(key, a \o b)
<1>1. PICK x, y : x = KeyPad(key, "ipad") /\ y = KeyPad(key, "opad")
  OBVIOUS
<1>2. Row(x) /\ Row(y) /\ Absorbed(mac.inner, x) /\ Absorbed(mac.outer, y)
  BY <1>1, PadRow DEF MacOf
<1>3. PICK n : n = <<>>
  OBVIOUS
<1>4. PICK c0 : c0 = SHA256_Update(mac.inner, n)
  OBVIOUS
<1>5. Absorbed(c0, x \o n) /\ Row(x \o n) /\ x \o n = x
  <2>1. Row(n) /\ Len(n) = 0
    BY <1>3, EmptyRow
  <2>2. Row(x \o n) /\ Len(x \o n) = Len(x) /\ \A k \in 1..Len(x) : (x \o n)[k] = x[k]
    <3>1. Len(x) \in Nat
      BY <1>2, RowIs
    <3> QED BY <1>2, <2>1, <3>1, Joined
  <2>3. x \o n = x
    BY <1>2, <2>2, RowEqual
  <2> QED BY <1>2, <1>4, <2>1, <2>2, <2>3, UpdateAbsorbs
<1>6. PICK c1 : c1 = SHA256_Update(c0, a)
  OBVIOUS
<1>7. Absorbed(c1, x \o a) /\ Row(x \o a)
  BY <1>2, <1>5, <1>6, Joined, UpdateAbsorbs
<1>8. PICK c2 : c2 = SHA256_Update(c1, b)
  OBVIOUS
<1>9. Absorbed(c2, (x \o a) \o b) /\ Row((x \o a) \o b)
  BY <1>7, <1>8, Joined, UpdateAbsorbs
<1>10. (x \o a) \o b = x \o (a \o b)
  BY <1>2, RowAssoc
<1>11. PICK d : d = RefHash(x \o (a \o b))
  OBVIOUS
<1>12. SHA256_Final(c2) = d /\ Row(d)
  BY <1>9, <1>10, <1>11, DigestRow, FinalIs
<1>13. PICK o : o = SHA256_Update(mac.outer, d)
  OBVIOUS
<1>14. Row(y \o d) /\ Absorbed(o, y \o d)
  BY <1>2, <1>12, <1>13, Joined, UpdateAbsorbs
<1>15. SHA256_Final(o) = RefHash(y \o d)
  BY <1>14, FinalIs
<1>16. MacParts(mac, <<n, a, b>>) = SHA256_Final(o)
  <2>1. PICK s, z : s = <<n, a, b>> /\ z = mac.inner
    OBVIOUS
  <2>2. FoldLeft(SHA256_Update, z, s) = SHA256_Update(SHA256_Update(SHA256_Update(z, n), a), b)
    <3>1. Row(s) /\ Len(s) = 3 /\ s[1] = n /\ s[2] = a /\ s[3] = b
      <4>1. Row(<<n, a, b>>)
        BY DEF Row, Range
      <4> QED BY <2>1, <4>1
    <3>2. FoldLeft(SHA256_Update, z, s) = SHA256_Update(SHA256_Update(SHA256_Update(z, s[1]), s[2]), s[3])
      BY <3>1, ThreeParts
    <3> QED BY <3>1, <3>2
  <2>3. FoldLeft(SHA256_Update, z, s) = c2
    BY <1>4, <1>6, <1>8, <2>1, <2>2, Zenon
  <2> QED BY <1>12, <1>13, <2>1, <2>3, Zenon DEF MacParts
<1>17. RefHmac(key, a \o b) = RefHash(y \o d)
  BY <1>1, <1>11, Zenon DEF RefHmac, KeyPad
<1> QED BY <1>3, <1>15, <1>16, <1>17

\* x is one byte, and s, a, i and t
Laid(x, e, s, a, i0, t0) ==
  /\ Row(x) /\ Len(x) = 1 + Len(s) + Len(a) + Len(i0) + Len(t0)
  /\ x[1] = e
  /\ \A k \in 1..Len(s) : x[1 + k] = s[k]
  /\ \A k \in 1..Len(a) : x[1 + Len(s) + k] = a[k]
  /\ \A k \in 1..Len(i0) : x[1 + Len(s) + Len(a) + k] = i0[k]
  /\ \A k \in 1..Len(t0) : x[1 + Len(s) + Len(a) + Len(i0) + k] = t0[k]

\* where the bytes are when five rows are joined
LEMMA Laying ==
  ASSUME NEW e, NEW s, NEW a, NEW d, NEW r, Row(s), Row(a), Row(d), Row(r)
  PROVE  /\ Laid((((<<e>> \o s) \o a) \o d) \o r, e, s, a, d, r)
         /\ Row(((<<e>> \o s) \o a) \o d)
<1>1. PICK l0, l1, l2, l3 : l0 = Len(s) /\ l1 = Len(a) /\ l2 = Len(d) /\ l3 = Len(r)
  OBVIOUS
<1>2. l0 \in Nat /\ l1 \in Nat /\ l2 \in Nat /\ l3 \in Nat
  BY <1>1, RowIs
<1>3. PICK x0 : x0 = <<e>>
  OBVIOUS
<1>4. Row(x0) /\ Len(x0) = 1 /\ x0[1] = e
  BY <1>3, OneByte
<1>5. PICK x1 : x1 = x0 \o s
  OBVIOUS
<1>6. Glued(x1, x0, s)
  BY <1>4, <1>5, Glue
<1>7. Row(x1) /\ Len(x1) = 1 + l0 /\ x1[1] = e /\ \A k \in 1..l0 : x1[1 + k] = s[k]
  BY <1>1, <1>4, <1>6 DEF Glued
<1>8. PICK x2 : x2 = x1 \o a
  OBVIOUS
<1>9. Glued(x2, x1, a)
  BY <1>7, <1>8, Glue
<1>10. /\ Row(x2) /\ Len(x2) = 1 + l0 + l1 /\ \A k \in 1..(1 + l0) : x2[k] = x1[k]
       /\ \A k \in 1..l1 : x2[1 + l0 + k] = a[k]
  BY <1>1, <1>7, <1>9 DEF Glued
<1>11. PICK x3 : x3 = x2 \o d
  OBVIOUS
<1>12. Glued(x3, x2, d)
  BY <1>10, <1>11, Glue
<1>13. /\ Row(x3) /\ Len(x3) = 1 + l0 + l1 + l2 /\ \A k \in 1..(1 + l0 + l1) : x3[k] = x2[k]
       /\ \A k \in 1..l2 : x3[1 + l0 + l1 + k] = d[k]
  BY <1>1, <1>10, <1>12 DEF Glued
<1>14. PICK x4 : x4 = x3 \o r
  OBVIOUS
<1>15. Glued(x4, x3, r)
  BY <1>13, <1>14, Glue
<1>16. /\ Row(x4) /\ Len(x4) = 1 + l0 + l1 + l2 + l3 /\ \A k \in 1..(1 + l0 + l1 + l2) : x4[k] = x3[k]
       /\ \A k \in 1..l3 : x4[1 + l0 + l1 + l2 + k] = r[k]
  BY <1>1, <1>13, <1>15 DEF Glued
<1>17. x4[1] = e
  <2>1. x4[1] = x3[1] /\ x3[1] = x2[1] /\ x2[1] = x1[1]
    BY <1>2, <1>10, <1>13, <1>16
  <2> QED BY <1>7, <2>1
<1>18. ASSUME NEW k \in 1..l0 PROVE x4[1 + k] = s[k]
  <2>1. x4[1 + k] = x3[1 + k] /\ x3[1 + k] = x2[1 + k] /\ x2[1 + k] = x1[1 + k]
    BY <1>2, <1>10, <1>13, <1>16
  <2> QED BY <1>7, <2>1
<1>19. ASSUME NEW k \in 1..l1 PROVE x4[1 + l0 + k] = a[k]
  <2>1. x4[1 + l0 + k] = x3[1 + l0 + k] /\ x3[1 + l0 + k] = x2[1 + l0 + k]
    BY <1>2, <1>13, <1>16
  <2> QED BY <1>10, <2>1
<1>20. ASSUME NEW k \in 1..l2 PROVE x4[1 + l0 + l1 + k] = d[k]
  <2>1. x4[1 + l0 + l1 + k] = x3[1 + l0 + l1 + k]
    BY <1>2, <1>16
  <2> QED BY <1>13, <2>1
<1>21. Laid(x4, e, s, a, d, r)
  BY <1>1, <1>16, <1>17, <1>18, <1>19, <1>20 DEF Laid
<1>22. x4 = (((<<e>> \o s) \o a) \o d) \o r /\ x3 = ((<<e>> \o s) \o a) \o d
  BY <1>3, <1>5, <1>8, <1>11, <1>14, Zenon
<1> QED BY <1>13, <1>21, <1>22, Zenon

IsHeader(h) == Row(h.salt) /\ Row(h.auth) /\ Row(h.iv) /\ Row(h.tag)

Version(h) == {<<"version", h.version>>}
Counter(h) == [k \in DOMAIN h.iv |-> {<<"digit", h.iv[k]>>}]

\* where the bytes of a header are, in what is checksummed
LEMMA HeaderIs ==
  ASSUME NEW h, IsHeader(h)
  PROVE  /\ Laid(UpToCrc(h), Version(h), h.salt, h.auth, Counter(h), h.tag)
         /\ Row(UpToTag(h)) /\ Len(Counter(h)) = Len(h.iv)
         /\ \A k \in 1..Len(h.iv) : Counter(h)[k] = {<<"digit", h.iv[k]>>}
<1>1. PICK e, d : e = Version(h) /\ d = Counter(h)
  OBVIOUS
<1>2. DOMAIN h.iv = 1..Len(h.iv) /\ Len(h.iv) \in Nat
  BY RowIs DEF IsHeader
<1>3. Row(d) /\ Len(d) = Len(h.iv)
  <2>1. d = [k \in 1..Len(h.iv) |-> d[k]]
    BY <1>1, <1>2 DEF Counter
  <2> QED BY <1>2, <2>1, RowOf
<1>4. \A k \in 1..Len(h.iv) : d[k] = {<<"digit", h.iv[k]>>}
  BY <1>1, <1>2 DEF Counter
<1>5. UpToTag(h) = ((<<e>> \o h.salt) \o h.auth) \o d
  BY <1>1, Zenon DEF UpToTag, UpToIv, Version, Counter
<1>6. UpToCrc(h) = (((<<e>> \o h.salt) \o h.auth) \o d) \o h.tag
  BY <1>5, Zenon DEF UpToCrc
<1>7. PICK s, a, r : s = h.salt /\ a = h.auth /\ r = h.tag
  OBVIOUS
<1>8. Row(s) /\ Row(a) /\ Row(r)
  BY <1>7 DEF IsHeader
<1>9. Laid((((<<e>> \o s) \o a) \o d) \o r, e, s, a, d, r) /\ Row(((<<e>> \o s) \o a) \o d)
  BY <1>3, <1>8, Laying
<1> QED BY <1>1, <1>3, <1>4, <1>5, <1>6, <1>7, <1>9, Zenon

\* the tag is a MAC over the header, as far as iv, and the body
LEMMA TagIs ==
  ASSUME NEW enc, IsDigest(enc), NEW h, IsHeader(h), NEW b, Row(b)
  PROVE  ComputeTag(DeriveKeys(enc), h, b) = RefHmac(HmacSha256(enc, Text("mac")), UpToTag(h) \o b)
<1>1. PICK key : key = HmacSha256(enc, Text("mac"))
  OBVIOUS
<1>2. IsKey(key)
  BY <1>1, SubKey, DigestKey
<1>3. PICK mac : mac = HmacSha256_Init(key)
  OBVIOUS
<1>4. MacOf(mac, key)
  BY <1>2, <1>3, InitIs
<1>5. DeriveKeys(enc).mac = mac
  BY <1>1, <1>3 DEF DeriveKeys
<1>6. PICK p : p = UpToTag(h) /\ Row(p)
  BY HeaderIs
<1>7. MacParts(mac, <<<<>>, p, b>>) = RefHmac(key, p \o b)
  BY <1>4, <1>6, PartsAre
<1> QED BY <1>1, <1>5, <1>6, <1>7, Zenon DEF ComputeTag

Checksum(h, b) == CRC_Drv_Feed(CRC_Drv_Feed(<<>>, UpToCrc(h)), b)

\* p is a partition of the table and of what goes into its header
Made(p, enc, s, a, v, i0, table) ==
  /\ p.header.version = v /\ p.header.salt = s /\ p.header.auth = a /\ p.header.iv = i0
  /\ p.body = AesCtr_Apply(table, DeriveKeys(enc).aes, i0)
  /\ p.header.tag = ComputeTag(DeriveKeys(enc), p.header, p.body)
  /\ p.header.crc = Checksum(p.header, p.body)

\* neither does the tag depend on tag and checksum, nor the checksum on itself
LEMMA SameUpTo ==
  ASSUME NEW g, NEW h, g.version = h.version, g.salt = h.salt, g.auth = h.auth, g.iv = h.iv
  PROVE  UpToTag(g) = UpToTag(h) /\ (g.tag = h.tag => UpToCrc(g) = UpToCrc(h))
<1>1. UpToTag(g) = UpToTag(h)
  BY Zenon DEF UpToTag, UpToIv
<1> QED BY <1>1, Zenon DEF UpToCrc

\* Sealed makes such a partition
LEMMA SealedIs ==
  ASSUME NEW enc, NEW s, NEW a, NEW v, NEW i0, NEW table
  PROVE  Made(Sealed(enc, s, a, v, i0, table), enc, s, a, v, i0, table)
<1>1. PICK keys : keys = DeriveKeys(enc)
  OBVIOUS
<1>2. PICK c : c = AesCtr_Apply(table, keys.aes, i0)
  OBVIOUS
<1>3. PICK h : h = [version |-> v, salt |-> s, auth |-> a, iv |-> i0, tag |-> <<>>, crc |-> <<>>]
  OBVIOUS
<1>4. PICK r : r = ComputeTag(keys, h, c)
  OBVIOUS
<1>5. PICK g : g = [h EXCEPT !.tag = r]
  OBVIOUS
<1>6. PICK e : e = CRC_Drv_Feed(CRC_Drv_Feed(<<>>, UpToCrc(g)), c)
  OBVIOUS
<1>7. PICK f : f = [g EXCEPT !.crc = e]
  OBVIOUS
<1>8. Sealed(enc, s, a, v, i0, table) = [header |-> f, body |-> c]
  BY <1>1, <1>2, <1>3, <1>4, <1>5, <1>6, <1>7, Zenon DEF Sealed
<1>9. /\ h.version = v /\ h.salt = s /\ h.auth = a /\ h.iv = i0
      /\ g.version = v /\ g.salt = s /\ g.auth = a /\ g.iv = i0 /\ g.tag = r
      /\ f.version = v /\ f.salt = s /\ f.auth = a /\ f.iv = i0 /\ f.tag = r /\ f.crc = e
  BY <1>3, <1>5, <1>7
<1>10. UpToTag(f) = UpToTag(h) /\ UpToCrc(f) = UpToCrc(g)
  BY <1>9, SameUpTo
<1>11. ComputeTag(keys, f, c) = r
  BY <1>4, <1>10, Zenon DEF ComputeTag
<1>12. Checksum(f, c) = e
  BY <1>6, <1>10, Zenon DEF Checksum
<1>13. PICK p : p = Sealed(enc, s, a, v, i0, table) /\ p.header = f /\ p.body = c
  BY <1>8
<1> QED BY <1>1, <1>2, <1>9, <1>11, <1>12, <1>13, Zenon DEF Made

\* the rows that a partition is made of
LEMMA MadeRows ==
  ASSUME NEW p, NEW enc, NEW s, NEW a, NEW v, NEW i0, NEW table, Made(p, enc, s, a, v, i0, table),
         IsDigest(enc), Row(s), Row(a), Row(i0), Row(table)
  PROVE  /\ IsHeader(p.header) /\ IsDigest(p.header.tag)
         /\ Row(p.body) /\ Len(p.body) = Len(table)
         /\ AesCtr_Apply(p.body, DeriveKeys(enc).aes, i0) = table
<1>1. PICK b, key : b = p.body /\ key = DeriveKeys(enc).aes
  OBVIOUS
<1>2. b = AesCtr_Apply(table, key, i0)
  BY <1>1 DEF Made
<1>3. Row(b) /\ Len(b) = Len(table) /\ AesCtr_Apply(b, key, i0) = table
  BY <1>2, ThereAndBack
<1>4. PICK h : /\ h.version = v /\ h.salt = s /\ h.auth = a /\ h.iv = i0 /\ h.tag = <<>>
  <2>1. PICK h : h = [version |-> v, salt |-> s, auth |-> a, iv |-> i0, tag |-> <<>>]
    OBVIOUS
  <2> QED BY <2>1
<1>5. IsHeader(h)
  BY <1>4, EmptyRow DEF IsHeader
<1>6. ComputeTag(DeriveKeys(enc), h, b) = RefHmac(HmacSha256(enc, Text("mac")), UpToTag(h) \o b)
  BY <1>3, <1>5, TagIs
<1>7. IsDigest(ComputeTag(DeriveKeys(enc), h, b))
  BY <1>6, MacRow DEF IsDigest
<1>8. UpToTag(p.header) = UpToTag(h)
  <2>1. PICK g : g = p.header /\ g.version = v /\ g.salt = s /\ g.auth = a /\ g.iv = i0
    BY DEF Made
  <2> QED BY <1>4, <2>1, SameUpTo
<1>9. p.header.tag = ComputeTag(DeriveKeys(enc), h, b)
  BY <1>1, <1>8, Zenon DEF ComputeTag, Made
<1>10. IsDigest(p.header.tag)
  BY <1>7, <1>9, Zenon
<1>11. IsHeader(p.header)
  <2>1. PICK g : g = p.header /\ g.salt = s /\ g.auth = a /\ g.iv = i0
    BY DEF Made
  <2> QED BY <1>10, <2>1 DEF IsDigest, IsHeader
<1> QED BY <1>1, <1>3, <1>10, <1>11

\* a boot compares the checksum of header and body as a commit made it, although it feeds the body in chunks
LEMMA ChecksumIs ==
  ASSUME NEW p, IsHeader(p.header), Row(p.body)
  PROVE  ValidateCrc(p) <=> Checksum(p.header, p.body) = p.header.crc
<1>1. PICK x : x = UpToCrc(p.header)
  OBVIOUS
<1>2. Row(x)
  BY <1>1, HeaderIs DEF Laid
<1>3. PICK c : c = CRC_Drv_Feed(<<>>, x)
  OBVIOUS
<1>4. Row(c)
  BY <1>2, <1>3, EmptyRow, FeedIs DEF Fed
<1>5. PICK b : b = p.body
  OBVIOUS
<1>6. FoldLeft(CRC_Drv_Feed, c, Chunks(b)) = CRC_Drv_Feed(c, b)
  BY <1>4, <1>5, ChunksAreWhole
<1> QED BY <1>1, <1>3, <1>5, <1>6, Zenon DEF ValidateCrc, Checksum

\* what was written validates
LEMMA MadeValidates ==
  ASSUME NEW p, NEW enc, NEW s, NEW a, NEW v, NEW i0, NEW table, Made(p, enc, s, a, v, i0, table),
         IsDigest(enc), Row(s), Row(a), Row(i0), Row(table)
  PROVE  ValidateCrc(p)
<1>1. IsHeader(p.header) /\ Row(p.body)
  BY MadeRows
<1>2. p.header.crc = Checksum(p.header, p.body)
  BY DEF Made
<1> QED BY <1>1, <1>2, ChecksumIs

\* a body that differs in a byte does not
LEMMA BodyFound ==
  ASSUME NEW p, NEW g, IsHeader(g.header), Row(g.body), g.header.crc = Checksum(g.header, g.body),
         p.header = g.header, Row(p.body), NEW k \in 1..Len(g.body), k \in 1..Len(p.body), p.body[k] # g.body[k]
  PROVE  ~ ValidateCrc(p)
<1>1. SUFFICES ASSUME Checksum(p.header, p.body) = p.header.crc PROVE FALSE
  BY ChecksumIs
<1>2. PICK x : x = CRC_Drv_Feed(<<>>, UpToCrc(g.header))
  OBVIOUS
<1>3. Row(x)
  <2>1. Row(UpToCrc(g.header))
    BY HeaderIs DEF Laid
  <2> QED BY <1>2, <2>1, EmptyRow, FeedIs DEF Fed
<1>4. CRC_Drv_Feed(x, p.body) = CRC_Drv_Feed(x, g.body)
  BY <1>1, <1>2, Zenon DEF Checksum
<1>5. PICK b, d : b = p.body /\ d = g.body
  OBVIOUS
<1> QED BY <1>3, <1>4, <1>5, BodyByte

\* nor a header
LEMMA HeaderFound ==
  ASSUME NEW p, NEW g, IsHeader(g.header), Row(g.body), g.header.crc = Checksum(g.header, g.body),
         p.body = g.body, IsHeader(p.header), p.header.crc = g.header.crc,
         NEW k \in 1..Len(UpToCrc(g.header)), k \in 1..Len(UpToCrc(p.header)),
         UpToCrc(p.header)[k] # UpToCrc(g.header)[k]
  PROVE  ~ ValidateCrc(p)
<1>1. SUFFICES ASSUME Checksum(p.header, p.body) = p.header.crc PROVE FALSE
  BY ChecksumIs
<1>2. PICK x, y : x = UpToCrc(g.header) /\ y = UpToCrc(p.header)
  OBVIOUS
<1>3. Row(x) /\ Row(y)
  BY <1>2, HeaderIs DEF Laid
<1>4. PICK b : b = g.body /\ Row(b)
  OBVIOUS
<1>5. CRC_Drv_Feed(CRC_Drv_Feed(<<>>, x), b) = CRC_Drv_Feed(CRC_Drv_Feed(<<>>, y), b)
  BY <1>1, <1>2, <1>4, Zenon DEF Checksum
<1>6. k \in 1..Len(x) /\ k \in 1..Len(y)
  BY <1>2
<1>7. x[k] = y[k]
  BY <1>3, <1>4, <1>5, <1>6, HeaderByte
<1> QED BY <1>2, <1>7

\* nor anything without a checksum
LEMMA NoneFound ==
  ASSUME NEW p, IsHeader(p.header), Row(p.body), p.header.crc = <<>>
  PROVE  ~ ValidateCrc(p)
<1>1. SUFFICES ASSUME Checksum(p.header, p.body) = <<>> PROVE FALSE
  BY ChecksumIs
<1>2. PICK x : x = UpToCrc(p.header)
  OBVIOUS
<1>3. Row(x) /\ Len(x) \in Nat /\ Len(x) >= 1
  <2>1. Laid(x, Version(p.header), p.header.salt, p.header.auth, Counter(p.header), p.header.tag)
        /\ Len(Counter(p.header)) = Len(p.header.iv)
    BY <1>2, HeaderIs
  <2>2. /\ Len(p.header.salt) \in Nat /\ Len(p.header.auth) \in Nat /\ Len(p.header.iv) \in Nat
        /\ Len(p.header.tag) \in Nat
    BY RowIs DEF IsHeader
  <2>3. Row(x) /\ Len(x) = 1 + Len(p.header.salt) + Len(p.header.auth) + Len(Counter(p.header)) + Len(p.header.tag)
    BY <2>1, Zenon DEF Laid
  <2>4. PICK l0 \in Nat, l1 \in Nat, l2 \in Nat, l3 \in Nat :
             l0 = Len(p.header.salt) /\ l1 = Len(p.header.auth) /\ l2 = Len(p.header.iv) /\ l3 = Len(p.header.tag)
    BY <2>2
  <2>5. Len(x) = 1 + l0 + l1 + l2 + l3
    BY <2>1, <2>3, <2>4
  <2>6. PICK n \in Nat : n = 1 + l0 + l1 + l2 + l3 /\ n >= 1
    OBVIOUS
  <2>7. Len(x) = n
    BY <2>5, <2>6
  <2>8. Len(x) \in Nat /\ Len(x) >= 1
    BY <2>6, <2>7
  <2> QED BY <2>3, <2>8
<1>4. PICK c : c = CRC_Drv_Feed(<<>>, x)
  OBVIOUS
<1>5. Row(c) /\ Len(c) = 0 + WordsIn(Len(x))
  BY <1>3, <1>4, EmptyRow, FeedIs DEF Fed
<1>6. WordsIn(Len(x)) \in Nat \ {0}
  <2>1. PICK w, l : w = WordsIn(l) /\ l = Len(x)
    OBVIOUS
  <2>2. w \in Nat /\ l <= WordBytes * w /\ WordBytes \in Nat
    BY <1>3, <2>1, WordsFit
  <2>3. w # 0
    BY <1>3, <2>1, <2>2
  <2> QED BY <2>1, <2>2, <2>3
<1>7. PICK b, d : b = p.body /\ d = CRC_Drv_Feed(c, b)
  OBVIOUS
<1>8. Len(d) = Len(c) + WordsIn(Len(b)) /\ WordsIn(Len(b)) \in Nat
  <2>1. Len(b) \in Nat
    BY <1>7, RowIs
  <2> QED BY <1>5, <1>7, <2>1, FeedIs, WordsFit DEF Fed
<1>9. d = <<>>
  BY <1>1, <1>2, <1>4, <1>7, Zenon DEF Checksum
<1> QED BY <1>5, <1>6, <1>8, <1>9, EmptyRow

Hurt == {<<"damage">>}

\* no byte of a digest is damage
LEMMA NotDigest ==
  ASSUME NEW w
  PROVE  RefHash(w)[1] # Hurt
<1>1. PICK x : RefHash(w) = Hash(x)
  BY Zenon DEF RefHash
<1>2. Hash(x)[1] = {<<"sha", x, 1>>}
  BY Sizes DEF Hash
<1>3. <<"sha", x, 1>> # <<"damage">>
  <2>1. PICK y, z : y = <<"sha", x, 1>> /\ z = <<"damage">>
    OBVIOUS
  <2>2. Len(y) = 3 /\ Len(z) = 1
    BY <2>1
  <2> QED BY <2>1, <2>2
<1>4. {<<"sha", x, 1>>} # Hurt
  <2>1. PICK y, z : y = <<"sha", x, 1>> /\ z = <<"damage">> /\ y # z
    BY <1>3
  <2>2. {y} # {z}
    BY <2>1
  <2> QED BY <2>1, <2>2, Zenon DEF Hurt
<1> QED BY <1>1, <1>2, <1>4

\* nor one of a MAC
LEMMA NotMac ==
  ASSUME NEW key, NEW msg
  PROVE  RefHmac(key, msg)[1] # Hurt
<1>1. PICK w : RefHmac(key, msg) = RefHash(w)
  BY Zenon DEF RefHmac
<1> QED BY <1>1, NotDigest

\* nor one of a table that is encrypted
LEMMA NotCipher ==
  ASSUME NEW table, Row(table), NEW key, NEW i0, NEW k \in 1..Len(table), <<"damage">> \notin table[k]
  PROVE  AesCtr_Apply(table, key, i0)[k] # Hurt
<1>1. PICK c : Runs(c, i0) /\ AesCtr_Apply(table, key, i0) = Streamed(key, c, table)
  BY ApplyIs
<1>2. PICK y, z : y = <<"aes", key, c[(k - 1) \div CipherLen], k % CipherLen>> /\ z = <<"damage">>
  OBVIOUS
<1>3. y # z
  <2>1. Len(y) = 4 /\ Len(z) = 1
    BY <1>2
  <2> QED BY <2>1
<1>4. DOMAIN table = 1..Len(table)
  BY RowIs
<1>5. Streamed(key, c, table)[k] = Xor(table[k], {y})
  BY <1>2, <1>4 DEF Streamed
<1>6. z \notin Xor(table[k], {y})
  BY <1>2, <1>3 DEF Xor
<1>7. Hurt = {z}
  BY <1>2, Zenon DEF Hurt
<1> QED BY <1>1, <1>5, <1>6, <1>7

\* the last digit of a counter changes
LEMMA LastDigit ==
  ASSUME NEW d \in Nat \ {0}, NEW c \in [1..d -> Digits]
  PROVE  Increment(c)[d] # c[d] /\ Increment(c) \in [1..d -> Digits]
<1>1. Increment(c) \in [1..d -> Digits] /\ Increment(c)[d] = IF Highest(c, d, d) THEN (c[d] + 1) % CounterBase ELSE c[d]
  BY IncrementIs
<1>2. Highest(c, d, d)
  BY DEF Highest
<1>3. PICK n \in Nat : n = CounterBase /\ n > 1
  BY DigestAssumption, CounterAssumption
<1>4. PICK x \in Nat : x = c[d] /\ x < n
  BY <1>3 DEF Digits
<1>5. Increment(c)[d] = (x + 1) % n
  BY <1>1, <1>2, <1>3, <1>4
<1>6. (x + 1) % n # x
  <2>1. CASE x + 1 < n
    <3>1. PICK y \in Nat, o \in Nat : y = x + 1 /\ o = 0
      OBVIOUS
    <3>2. y = n * o + y /\ y < n
      BY <2>1, <3>1
    <3>3. y % n = y
      BY <1>3, <3>2, Quotient
    <3> QED BY <3>1, <3>3
  <2>2. CASE x + 1 = n
    <3>1. PICK y \in Nat, o \in Nat : y = 0 /\ o = 1
      OBVIOUS
    <3>2. n = n * o + y /\ y < n
      BY <1>3, <3>1
    <3>3. n % n = 0
      BY <1>3, <3>1, <3>2, Quotient
    <3> QED BY <1>3, <2>2, <3>3
  <2> QED BY <1>4, <2>1, <2>2
<1> QED BY <1>1, <1>4, <1>5, <1>6

\* the form of a partition, where fields can be changed
Shaped(p) == /\ p = [header |-> p.header, body |-> p.body]
             /\ p.header = [version |-> p.header.version, salt |-> p.header.salt, auth |-> p.header.auth,
                            iv |-> p.header.iv, tag |-> p.header.tag, crc |-> p.header.crc]

\* Sealed makes a partition of that form
LEMMA SealedShape ==
  ASSUME NEW enc, NEW s, NEW a, NEW v, NEW i0, NEW table
  PROVE  Shaped(Sealed(enc, s, a, v, i0, table))
<1>1. PICK c : c = AesCtr_Apply(table, DeriveKeys(enc).aes, i0)
  OBVIOUS
<1>2. PICK h : h = [version |-> v, salt |-> s, auth |-> a, iv |-> i0, tag |-> <<>>, crc |-> <<>>]
  OBVIOUS
<1>3. PICK r : r = ComputeTag(DeriveKeys(enc), h, c)
  OBVIOUS
<1>4. PICK g : g = [h EXCEPT !.tag = r]
  OBVIOUS
<1>5. PICK e : e = CRC_Drv_Feed(CRC_Drv_Feed(<<>>, UpToCrc(g)), c)
  OBVIOUS
<1>6. PICK f : f = [g EXCEPT !.crc = e]
  OBVIOUS
<1>7. Sealed(enc, s, a, v, i0, table) = [header |-> f, body |-> c]
  BY <1>1, <1>2, <1>3, <1>4, <1>5, <1>6, Zenon DEF Sealed
<1>8. f = [version |-> v, salt |-> s, auth |-> a, iv |-> i0, tag |-> r, crc |-> e]
  BY <1>2, <1>4, <1>6
<1> QED BY <1>7, <1>8 DEF Shaped

\* a partition that was written, as far as damage to it is concerned
Sound(g) ==
  /\ Shaped(g) /\ IsHeader(g.header) /\ Row(g.body)
  /\ g.header.crc = Checksum(g.header, g.body)
  /\ g.header.version # 0
  /\ \A field \in {"salt", "auth", "tag"} : Len(g.header[field]) > 0 /\ g.header[field][1] # Hurt
  /\ Len(g.header.iv) > 0 /\ g.header.iv \in [1..Len(g.header.iv) -> Digits]
  /\ \A k \in 1..Len(g.body) : g.body[k] # Hurt

\* one damage to it
Harmed(p, g) ==
  \/ \E k \in DOMAIN g.body : p = [g EXCEPT !.body[k] = Hurt]
  \/ \E field \in {"salt", "auth", "tag"} : p = [g EXCEPT !.header[field] = <<Hurt>>]
  \/ p = [g EXCEPT !.header.version = 0]
  \/ p = [g EXCEPT !.header.iv = Increment(@)]
  \/ p = [g EXCEPT !.header.crc = <<>>]

\* damage to a byte of the body is found
LEMMA HarmedBody ==
  ASSUME NEW g, Sound(g), NEW k \in DOMAIN g.body, NEW p, p = [g EXCEPT !.body[k] = Hurt]
  PROVE  Row(p.body) /\ ~ ValidateCrc(p)
<1>1. PICK h, b : h = g.header /\ b = g.body
  OBVIOUS
<1>2. g = [header |-> h, body |-> b]
  BY <1>1 DEF Sound, Shaped
<1>3. DOMAIN b = 1..Len(b) /\ Row(b) /\ Len(b) \in Nat
  BY <1>1, RowIs DEF Sound
<1>4. p.header = h /\ p.body = [b EXCEPT ![k] = Hurt]
  BY <1>2
<1>5. PICK c : c = p.body
  OBVIOUS
<1>6. c = [j \in 1..Len(b) |-> c[j]] /\ c[k] = Hurt
  BY <1>1, <1>3, <1>4, <1>5
<1>7. Row(c) /\ Len(c) = Len(b)
  BY <1>3, <1>6, RowOf
<1>8. k \in 1..Len(b) /\ b[k] # Hurt
  BY <1>1, <1>3 DEF Sound
<1>9. IsHeader(g.header) /\ Row(g.body) /\ g.header.crc = Checksum(g.header, g.body)
  BY DEF Sound
<1>10. p.header = g.header /\ Row(p.body) /\ k \in 1..Len(g.body) /\ k \in 1..Len(p.body) /\ p.body[k] # g.body[k]
  BY <1>1, <1>4, <1>5, <1>6, <1>7, <1>8
<1>11. ~ ValidateCrc(p)
  BY <1>9, <1>10, BodyFound
<1> QED BY <1>10, <1>11

\* the bytes of both headers, where one field differs
LEMMA HarmedHeader ==
  ASSUME NEW g, Sound(g), NEW p, p.body = g.body, IsHeader(p.header), p.header.crc = g.header.crc,
         NEW k \in Nat \ {0}, k <= Len(UpToCrc(p.header)), k <= Len(UpToCrc(g.header)),
         UpToCrc(p.header)[k] # UpToCrc(g.header)[k]
  PROVE  Row(p.body) /\ ~ ValidateCrc(p)
<1>1. /\ IsHeader(g.header) /\ Row(g.body) /\ g.header.crc = Checksum(g.header, g.body)
      /\ k \in 1..Len(UpToCrc(g.header)) /\ k \in 1..Len(UpToCrc(p.header))
  <2>1. Row(UpToCrc(g.header)) /\ Row(UpToCrc(p.header))
    BY HeaderIs DEF Sound, Laid
  <2>2. Len(UpToCrc(g.header)) \in Nat /\ Len(UpToCrc(p.header)) \in Nat
    BY <2>1, RowIs
  <2>3. k \in 1..Len(UpToCrc(g.header)) /\ k \in 1..Len(UpToCrc(p.header))
    BY <2>2
  <2> QED BY <2>3 DEF Sound
<1> QED BY <1>1, HeaderFound

\* where the fields are
Offsets(h, x, l, a, d, r) ==
  /\ x = UpToCrc(h) /\ l = Len(h.salt) /\ a = Len(h.auth) /\ d = Len(h.iv) /\ r = Len(h.tag)
  /\ l \in Nat /\ a \in Nat /\ d \in Nat /\ r \in Nat
  /\ Len(x) = 1 + l + a + d + r
  /\ x[1] = {<<"version", h.version>>}
  /\ (l > 0 => x[2] = h.salt[1])
  /\ (a > 0 => x[1 + l + 1] = h.auth[1])
  /\ (d > 0 => x[1 + l + a + d] = {<<"digit", h.iv[d]>>})
  /\ (r > 0 => x[1 + l + a + d + 1] = h.tag[1])

\* where the fields of a header are
LEMMA Fields ==
  ASSUME NEW h, IsHeader(h)
  PROVE  \E x, l, a, d, r : Offsets(h, x, l, a, d, r)
<1>1. PICK x, l, a, d, r : x = UpToCrc(h) /\ l = Len(h.salt) /\ a = Len(h.auth) /\ d = Len(h.iv) /\ r = Len(h.tag)
  OBVIOUS
<1>2. l \in Nat /\ a \in Nat /\ d \in Nat /\ r \in Nat
  BY <1>1, RowIs DEF IsHeader
<1>3. PICK c : c = Counter(h) /\ Len(c) = d /\ (d > 0 => c[d] = {<<"digit", h.iv[d]>>})
  BY <1>1, <1>2, HeaderIs
<1>4. Laid(x, Version(h), h.salt, h.auth, c, h.tag)
  BY <1>1, <1>3, HeaderIs
<1>5. /\ Len(x) = 1 + l + a + d + r
      /\ x[1] = Version(h)
      /\ \A k \in 1..l : x[1 + k] = h.salt[k]
      /\ \A k \in 1..a : x[1 + l + k] = h.auth[k]
      /\ \A k \in 1..d : x[1 + l + a + k] = c[k]
      /\ \A k \in 1..r : x[1 + l + a + d + k] = h.tag[k]
  BY <1>1, <1>3, <1>4, Zenon DEF Laid
<1>6. /\ l > 0 => 1 \in 1..l
      /\ a > 0 => 1 \in 1..a
      /\ d > 0 => d \in 1..d
      /\ r > 0 => 1 \in 1..r
  BY <1>2
<1>7. l > 0 => x[2] = h.salt[1]
  BY <1>5, <1>6
<1>8. a > 0 => x[1 + l + 1] = h.auth[1]
  BY <1>5, <1>6, Zenon
<1>9. d > 0 => x[1 + l + a + d] = {<<"digit", h.iv[d]>>}
  BY <1>3, <1>5, <1>6, Zenon
<1>10. r > 0 => x[1 + l + a + d + 1] = h.tag[1]
  BY <1>5, <1>6, Zenon
<1>11. Offsets(h, x, l, a, d, r)
  BY <1>1, <1>2, <1>5, <1>7, <1>8, <1>9, <1>10, Zenon DEF Version, Offsets
<1> QED BY <1>11

\* no damage leaves a partition that validates
LEMMA DamageFound ==
  ASSUME NEW g, Sound(g), NEW p, Harmed(p, g)
  PROVE  Row(p.body) /\ ~ ValidateCrc(p)
<1>1. PICK h, b : h = g.header /\ b = g.body
  OBVIOUS
<1>2. /\ g = [header |-> h, body |-> b]
      /\ h = [version |-> h.version, salt |-> h.salt, auth |-> h.auth, iv |-> h.iv, tag |-> h.tag, crc |-> h.crc]
  BY <1>1 DEF Sound, Shaped
<1>3. PICK x, l, a, d, r : Offsets(h, x, l, a, d, r)
  BY <1>1, Fields DEF Sound
<1>4. /\ IsHeader(h) /\ h.version # 0
      /\ l > 0 /\ h.salt[1] # Hurt /\ a > 0 /\ h.auth[1] # Hurt /\ r > 0 /\ h.tag[1] # Hurt
      /\ d > 0 /\ h.iv \in [1..d -> Digits]
  <2>1. \A field \in {"salt", "auth", "tag"} : Len(h[field]) > 0 /\ h[field][1] # Hurt
    BY <1>1, Zenon DEF Sound
  <2>2. l > 0 /\ h.salt[1] # Hurt /\ a > 0 /\ h.auth[1] # Hurt /\ r > 0 /\ h.tag[1] # Hurt
    BY <1>3, <2>1 DEF Offsets
  <2>3. IsHeader(h) /\ h.version # 0 /\ Len(h.iv) > 0 /\ h.iv \in [1..Len(h.iv) -> Digits] /\ Len(h.iv) = d
    BY <1>1, <1>3 DEF Sound, Offsets
  <2> QED BY <2>2, <2>3
<1>5. PICK q : q = <<Hurt>>
  OBVIOUS
<1>5a. Row(q) /\ Len(q) = 1 /\ q[1] = Hurt
  BY <1>5, OneByte
<1>6. ASSUME NEW f, p = [header |-> f, body |-> b], IsHeader(f), f.crc = h.crc,
             NEW y, NEW m, NEW c, NEW e, NEW o, Offsets(f, y, m, c, e, o),
             NEW k \in Nat \ {0}, k <= 1 + l + a + d + r, k <= 1 + m + c + e + o, y[k] # x[k]
      PROVE  Row(p.body) /\ ~ ValidateCrc(p)
  <2>1. p.header = f /\ p.body = g.body
    BY <1>1, <1>6
  <2>2. x = UpToCrc(g.header) /\ Len(x) = 1 + l + a + d + r
    BY <1>1, <1>3 DEF Offsets
  <2>3. y = UpToCrc(p.header) /\ Len(y) = 1 + m + c + e + o
    BY <1>6, <2>1 DEF Offsets
  <2>4. /\ k <= Len(UpToCrc(p.header)) /\ k <= Len(UpToCrc(g.header))
        /\ UpToCrc(p.header)[k] # UpToCrc(g.header)[k]
    BY <1>6, <2>2, <2>3
  <2>5. IsHeader(p.header) /\ p.header.crc = g.header.crc
    BY <1>1, <1>6, <2>1
  <2> QED BY <2>1, <2>4, <2>5, HarmedHeader
<1>7. CASE \E k \in DOMAIN g.body : p = [g EXCEPT !.body[k] = Hurt]
  BY <1>7, HarmedBody
<1>8. CASE p = [g EXCEPT !.header.salt = <<Hurt>>]
  <2>1. PICK f : f = [h EXCEPT !.salt = q]
    OBVIOUS
  <2>2. /\ p = [header |-> f, body |-> b] /\ f.crc = h.crc
        /\ f.salt = q /\ f.auth = h.auth /\ f.iv = h.iv /\ f.tag = h.tag
    BY <1>2, <1>5, <1>8, <2>1
  <2>3. IsHeader(f)
    BY <1>4, <1>5a, <2>2 DEF IsHeader
  <2>4. PICK y, m, c, e, o : Offsets(f, y, m, c, e, o)
    BY <2>3, Fields
  <2>5. m = 1 /\ y[2] = Hurt /\ c \in Nat /\ e \in Nat /\ o \in Nat
    <3>1. m = Len(f.salt) /\ (m > 0 => y[2] = f.salt[1]) /\ c \in Nat /\ e \in Nat /\ o \in Nat
      BY <2>4, Zenon DEF Offsets
    <3> QED BY <1>5a, <2>2, <3>1
  <2>6. x[2] # Hurt /\ l \in Nat /\ a \in Nat /\ d \in Nat /\ r \in Nat
    BY <1>3, <1>4 DEF Offsets
  <2>7. 2 <= 1 + l + a + d + r /\ 2 <= 1 + m + c + e + o /\ y[2] # x[2]
    BY <1>4, <2>5, <2>6, SMTT(40)
  <2> QED BY <1>6, <2>2, <2>3, <2>4, <2>7
<1>9. CASE p = [g EXCEPT !.header.auth = <<Hurt>>]
  <2>1. PICK f : f = [h EXCEPT !.auth = q]
    OBVIOUS
  <2>2. /\ p = [header |-> f, body |-> b] /\ f.crc = h.crc
        /\ f.salt = h.salt /\ f.auth = q /\ f.iv = h.iv /\ f.tag = h.tag
    BY <1>2, <1>5, <1>9, <2>1
  <2>3. IsHeader(f)
    BY <1>4, <1>5a, <2>2 DEF IsHeader
  <2>4. PICK y, m, c, e, o : Offsets(f, y, m, c, e, o)
    BY <2>3, Fields
  <2>5. m = l /\ c = 1 /\ y[1 + l + 1] = Hurt /\ e \in Nat /\ o \in Nat
    <3>1. /\ m = Len(f.salt) /\ c = Len(f.auth) /\ (c > 0 => y[1 + m + 1] = f.auth[1])
          /\ e \in Nat /\ o \in Nat
      BY <2>4, Zenon DEF Offsets
    <3>2. l = Len(h.salt)
      BY <1>3, Zenon DEF Offsets
    <3> QED BY <1>5a, <2>2, <3>1, <3>2
  <2>6. x[1 + l + 1] # Hurt /\ l \in Nat /\ a \in Nat /\ d \in Nat /\ r \in Nat
    BY <1>3, <1>4 DEF Offsets
  <2>7. PICK k \in Nat \ {0} : k = 1 + l + 1
    BY <2>6
  <2>8. k <= 1 + l + a + d + r /\ k <= 1 + m + c + e + o /\ y[k] # x[k]
    BY <1>4, <2>5, <2>6, <2>7, SMTT(40)
  <2> QED BY <1>6, <2>2, <2>3, <2>4, <2>8
<1>10. CASE p = [g EXCEPT !.header.tag = <<Hurt>>]
  <2>1. PICK f : f = [h EXCEPT !.tag = q]
    OBVIOUS
  <2>2. /\ p = [header |-> f, body |-> b] /\ f.crc = h.crc
        /\ f.salt = h.salt /\ f.auth = h.auth /\ f.iv = h.iv /\ f.tag = q
    BY <1>2, <1>5, <1>10, <2>1
  <2>3. IsHeader(f)
    BY <1>4, <1>5a, <2>2 DEF IsHeader
  <2>4. PICK y, m, c, e, o : Offsets(f, y, m, c, e, o)
    BY <2>3, Fields
  <2>5. m = l /\ c = a /\ e = d /\ o = 1 /\ y[1 + l + a + d + 1] = Hurt
    <3>1. /\ m = Len(f.salt) /\ c = Len(f.auth) /\ e = Len(f.iv) /\ o = Len(f.tag)
          /\ (o > 0 => y[1 + m + c + e + 1] = f.tag[1])
      BY <2>4, Zenon DEF Offsets
    <3>2. l = Len(h.salt) /\ a = Len(h.auth) /\ d = Len(h.iv)
      BY <1>3, Zenon DEF Offsets
    <3>3. o = 1 /\ f.tag[1] = Hurt
      BY <1>5a, <2>2, <3>1
    <3>4. m = l /\ c = a /\ e = d
      BY <2>2, <3>1, <3>2, Zenon
    <3>5. o > 0
      BY <3>3
    <3>6. y[1 + m + c + e + 1] = f.tag[1]
      BY <3>1, <3>5, Zenon
    <3> QED BY <3>3, <3>4, <3>6, Zenon
  <2>6. x[1 + l + a + d + 1] # Hurt /\ l \in Nat /\ a \in Nat /\ d \in Nat /\ r \in Nat
    BY <1>3, <1>4 DEF Offsets
  <2>7. PICK k \in Nat \ {0} : k = 1 + l + a + d + 1
    BY <2>6
  <2>8. k <= 1 + l + a + d + r /\ k <= 1 + m + c + e + o /\ y[k] # x[k]
    BY <1>4, <2>5, <2>6, <2>7
  <2> QED BY <1>6, <2>2, <2>3, <2>4, <2>8
<1>11. CASE p = [g EXCEPT !.header.version = 0]
  <2>1. PICK f : f = [h EXCEPT !.version = 0]
    OBVIOUS
  <2>2. /\ p = [header |-> f, body |-> b] /\ f.crc = h.crc /\ f.version = 0
        /\ f.salt = h.salt /\ f.auth = h.auth /\ f.iv = h.iv /\ f.tag = h.tag
    BY <1>2, <1>11, <2>1
  <2>3. IsHeader(f)
    BY <1>4, <2>2 DEF IsHeader
  <2>4. PICK y, m, c, e, o : Offsets(f, y, m, c, e, o)
    BY <2>3, Fields
  <2>5. PICK u0, w : u0 = <<"version", h.version>> /\ w = <<"version", 0>>
    OBVIOUS
  <2>6. y[1] = {w} /\ x[1] = {u0} /\ u0 # w
    BY <1>3, <1>4, <2>2, <2>4, <2>5 DEF Offsets
  <2>7. l \in Nat /\ a \in Nat /\ d \in Nat /\ r \in Nat /\ m \in Nat /\ c \in Nat /\ e \in Nat /\ o \in Nat
    BY <1>3, <2>4 DEF Offsets
  <2>8. 1 <= 1 + l + a + d + r /\ 1 <= 1 + m + c + e + o
    BY <2>7
  <2>9. y[1] # x[1]
    BY <2>6
  <2> QED BY <1>6, <2>2, <2>3, <2>4, <2>8, <2>9
<1>12. CASE p = [g EXCEPT !.header.iv = Increment(@)]
  <2>1. PICK f, n : n = Increment(h.iv) /\ f = [h EXCEPT !.iv = n]
    OBVIOUS
  <2>2. /\ p = [header |-> f, body |-> b] /\ f.crc = h.crc
        /\ f.salt = h.salt /\ f.auth = h.auth /\ f.iv = n /\ f.tag = h.tag
    BY <1>2, <1>12, <2>1
  <2>3. d \in Nat \ {0}
    BY <1>3, <1>4 DEF Offsets
  <2>4. n \in [1..d -> Digits] /\ n[d] # h.iv[d]
    BY <1>4, <2>1, <2>3, LastDigit
  <2>5. Row(n) /\ Len(n) = d
    <3>1. n = [k \in 1..d |-> n[k]]
      BY <2>4
    <3> QED BY <2>3, <3>1, RowOf
  <2>6. IsHeader(f)
    BY <1>4, <2>2, <2>5 DEF IsHeader
  <2>7. PICK y, m, c, e, o : Offsets(f, y, m, c, e, o)
    BY <2>6, Fields
  <2>8. m = l /\ c = a /\ e = d /\ o = r
    BY <1>3, <2>2, <2>5, <2>7 DEF Offsets
  <2>9. PICK u0, w : u0 = <<"digit", h.iv[d]>> /\ w = <<"digit", n[d]>>
    OBVIOUS
  <2>10. y[1 + l + a + d] = {w} /\ x[1 + l + a + d] = {u0} /\ u0 # w
    BY <1>3, <1>4, <2>2, <2>4, <2>7, <2>8, <2>9 DEF Offsets
  <2>11. l \in Nat /\ a \in Nat /\ d \in Nat /\ r \in Nat
    BY <1>3 DEF Offsets
  <2>12. PICK k \in Nat \ {0} : k = 1 + l + a + d
    BY <2>11
  <2>13. k <= 1 + l + a + d + r /\ k <= 1 + m + c + e + o /\ y[k] # x[k]
    BY <2>8, <2>10, <2>11, <2>12
  <2> QED BY <1>6, <2>2, <2>6, <2>7, <2>13
<1>13. CASE p = [g EXCEPT !.header.crc = <<>>]
  <2>1. PICK f : f = [h EXCEPT !.crc = <<>>]
    OBVIOUS
  <2>2. /\ p = [header |-> f, body |-> b] /\ f.crc = <<>>
        /\ f.salt = h.salt /\ f.auth = h.auth /\ f.iv = h.iv /\ f.tag = h.tag
    BY <1>2, <1>13, <2>1
  <2>3. IsHeader(f)
    BY <1>4, <2>2 DEF IsHeader
  <2>4. p.header = f /\ p.body = b /\ Row(b)
    BY <1>1, <2>2 DEF Sound
  <2> QED BY <2>2, <2>3, <2>4, NoneFound
<1>14. CASE \E field \in {"salt", "auth", "tag"} : p = [g EXCEPT !.header[field] = <<Hurt>>]
  <2>1. PICK field \in {"salt", "auth", "tag"} : p = [g EXCEPT !.header[field] = <<Hurt>>]
    BY <1>14
  <2>2. CASE field = "salt"
    <3>1. p = [g EXCEPT !.header.salt = <<Hurt>>]
      BY <2>1, <2>2
    <3> QED BY <1>8, <3>1
  <2>3. CASE field = "auth"
    <3>1. p = [g EXCEPT !.header.auth = <<Hurt>>]
      BY <2>1, <2>3
    <3> QED BY <1>9, <3>1
  <2>4. CASE field = "tag"
    <3>1. p = [g EXCEPT !.header.tag = <<Hurt>>]
      BY <2>1, <2>4
    <3> QED BY <1>10, <3>1
  <2> QED BY <2>1, <2>2, <2>3, <2>4
<1> QED BY <1>7, <1>11, <1>12, <1>13, <1>14 DEF Harmed

-----------------------------------------------------------------------------
(* Partitions that the firmware writes. *)

\* s is the master key, the salt and the table of a partition
DerivedOf(s) == RefDerived(s.mk, s.salt)
EncOf(s)     == HmacSha256(DerivedOf(s), Text("enc"))
AuthOf(s)    == HmacSha256(DerivedOf(s), Text("auth"))
IsSource(s)  == s \in [mk : Keys, salt : Salts, table : Tables] /\ IsDigest(DerivedOf(s))

Original(g, s) ==
  \E v \in 1..MaxVersion, iv \in Ivs : g = Sealed(EncOf(s), s.salt, AuthOf(s), v, iv, s.table)

\* keys, salts, tables and counters are rows of bytes that are not damage
LEMMA ByteRows ==
  /\ \A key \in Keys : IsKey(key)
  /\ \A s \in Salts : Row(s) /\ Len(s) > 0 /\ s[1] # Hurt
  /\ \A s \in Tables : Row(s) /\ \A k \in 1..Len(s) : <<"damage">> \notin s[k]
  /\ \A iv \in Ivs : Row(iv) /\ Len(iv) > 0 /\ Len(iv) \in Nat /\ iv \in [1..Len(iv) -> Digits]
<1>1. \A key \in Keys : IsKey(key)
  BY BytesAssumption DEF IsKey, Row
<1>2. ASSUME NEW s \in Salts PROVE Row(s) /\ Len(s) > 0 /\ s[1] # Hurt
  <2>1. Row(s)
    BY BytesAssumption DEF Row
  <2>2. Len(s) \in Nat /\ DOMAIN s = 1..Len(s) /\ s \in Seq(Range(s))
    BY <2>1, RowIs DEF Row
  <2>3. Len(s) # 0
    <3>1. s # <<>>
      BY BytesAssumption
    <3> QED BY <2>2, <3>1, EmptySeq
  <2>4. 1 \in DOMAIN s
    BY <2>2, <2>3
  <2>5. <<"damage">> \notin s[1]
    BY <2>4, BytesAssumption
  <2>6. s[1] # Hurt
    <3>1. PICK z : z = <<"damage">>
      OBVIOUS
    <3>2. z \notin s[1] /\ z \in {z} /\ Hurt = {z}
      BY <2>5, <3>1, Zenon DEF Hurt
    <3> QED BY <3>2
  <2> QED BY <2>1, <2>2, <2>3, <2>6
<1>3. ASSUME NEW s \in Tables PROVE Row(s) /\ \A k \in 1..Len(s) : <<"damage">> \notin s[k]
  <2>1. Row(s)
    BY BytesAssumption DEF Row
  <2>2. DOMAIN s = 1..Len(s)
    BY <2>1, RowIs
  <2> QED BY <2>1, <2>2, BytesAssumption
<1>4. ASSUME NEW iv \in Ivs PROVE Row(iv) /\ Len(iv) > 0 /\ Len(iv) \in Nat /\ iv \in [1..Len(iv) -> Digits]
  <2>1. iv \in Seq(Digits)
    BY SealingAssumption DEF Digits
  <2>2. Len(iv) \in Nat /\ iv \in [1..Len(iv) -> Digits]
    BY <2>1
  <2>3. Len(iv) # 0
    <3>1. iv # <<>>
      BY CounterAssumption
    <3> QED BY <2>1, <3>1, EmptySeq
  <2>4. iv = [k \in 1..Len(iv) |-> iv[k]]
    BY <2>2
  <2>5. Row(iv)
    BY <2>2, <2>4, RowOf
  <2> QED BY <2>2, <2>3, <2>5
<1> QED BY <1>1, <1>2, <1>3, <1>4

\* what is known of a partition that was written
LEMMA OriginalIs ==
  ASSUME NEW s, IsSource(s), NEW g, Original(g, s)
  PROVE  /\ Sound(g) /\ ValidateCrc(g) /\ IsDigest(EncOf(s)) /\ IsDigest(AuthOf(s))
         /\ g.header.version \in 1..MaxVersion /\ g.header.iv \in Ivs
         /\ g.header.salt = s.salt /\ g.header.auth = AuthOf(s)
         /\ g.body = AesCtr_Apply(s.table, DeriveKeys(EncOf(s)).aes, g.header.iv)
         /\ AesCtr_Apply(g.body, DeriveKeys(EncOf(s)).aes, g.header.iv) = s.table
         /\ ComputeTag(DeriveKeys(EncOf(s)), g.header, g.body) = g.header.tag
<1>1. s.mk \in Keys /\ s.salt \in Salts /\ s.table \in Tables /\ IsDigest(DerivedOf(s))
  BY DEF IsSource
<1>2. PICK enc, a, d : enc = EncOf(s) /\ a = AuthOf(s) /\ d = DerivedOf(s)
  OBVIOUS
<1>3. IsDigest(enc) /\ IsDigest(a) /\ a = RefHmac(d, Text("auth"))
  BY <1>1, <1>2, SubKey DEF EncOf, AuthOf
<1>4. PICK v \in 1..MaxVersion, iv \in Ivs : g = Sealed(enc, s.salt, a, v, iv, s.table)
  BY <1>2 DEF Original
<1>5. PICK e, table : e = s.salt /\ table = s.table
  OBVIOUS
<1>6. Row(e) /\ Len(e) > 0 /\ e[1] # Hurt
  BY <1>1, <1>5, ByteRows
<1>7. Row(table) /\ \A k \in 1..Len(table) : <<"damage">> \notin table[k]
  BY <1>1, <1>5, ByteRows
<1>8. Row(iv) /\ Len(iv) > 0 /\ iv \in [1..Len(iv) -> Digits]
  BY ByteRows
<1>9. Row(a) /\ Len(a) > 0 /\ a[1] # Hurt
  BY <1>3, NotMac, Sizes DEF IsDigest
<1>10. Made(g, enc, e, a, v, iv, table)
  BY <1>4, <1>5, SealedIs
<1>11. Shaped(g)
  BY <1>4, SealedShape
<1>12. /\ IsHeader(g.header) /\ IsDigest(g.header.tag) /\ Row(g.body) /\ Len(g.body) = Len(table)
       /\ AesCtr_Apply(g.body, DeriveKeys(enc).aes, iv) = table
  BY <1>3, <1>6, <1>7, <1>8, <1>9, <1>10, MadeRows
<1>13. ValidateCrc(g)
  BY <1>3, <1>6, <1>7, <1>8, <1>9, <1>10, MadeValidates
<1>14. /\ g.header.version = v /\ g.header.salt = e /\ g.header.auth = a /\ g.header.iv = iv
       /\ g.body = AesCtr_Apply(table, DeriveKeys(enc).aes, iv)
       /\ g.header.tag = ComputeTag(DeriveKeys(enc), g.header, g.body)
       /\ g.header.crc = Checksum(g.header, g.body)
  BY <1>10, Zenon DEF Made
<1>15. g.header.tag[1] # Hurt /\ Len(g.header.tag) > 0
  <2>1. ComputeTag(DeriveKeys(enc), g.header, g.body)
          = RefHmac(HmacSha256(enc, Text("mac")), UpToTag(g.header) \o g.body)
    BY <1>3, <1>12, TagIs
  <2>2. ComputeTag(DeriveKeys(enc), g.header, g.body)[1] # Hurt
    BY <2>1, NotMac
  <2>3. g.header.tag[1] # Hurt
    BY <1>14, <2>2, Zenon
  <2> QED BY <1>12, <2>3, Sizes DEF IsDigest
<1>16. ASSUME NEW k \in 1..Len(g.body) PROVE g.body[k] # Hurt
  <2>1. k \in 1..Len(table) /\ <<"damage">> \notin table[k]
    BY <1>7, <1>12
  <2>2. PICK key : key = DeriveKeys(enc).aes
    OBVIOUS
  <2>3. AesCtr_Apply(table, key, iv)[k] # Hurt
    BY <1>7, <2>1, NotCipher
  <2> QED BY <1>14, <2>2, <2>3
<1>17. Sound(g)
  <2>1. g.header.version # 0
    BY <1>14
  <2>2. PICK h : h = g.header
    OBVIOUS
  <2>3. \A field \in {"salt", "auth", "tag"} : Len(h[field]) > 0 /\ h[field][1] # Hurt
    <3>1. Len(h.salt) > 0 /\ h.salt[1] # Hurt /\ Len(h.auth) > 0 /\ h.auth[1] # Hurt /\ Len(h.tag) > 0 /\ h.tag[1] # Hurt
      BY <1>6, <1>9, <1>14, <1>15, <2>2
    <3> QED BY <3>1
  <2>4. Len(g.header.iv) > 0 /\ g.header.iv \in [1..Len(g.header.iv) -> Digits]
    BY <1>8, <1>14
  <2> QED BY <1>11, <1>12, <1>14, <1>16, <2>1, <2>2, <2>3, <2>4, Zenon DEF Sound
<1> QED BY <1>2, <1>3, <1>4, <1>5, <1>12, <1>13, <1>14, <1>17, Zenon

-----------------------------------------------------------------------------
(* The inductive invariant. *)

Types == /\ pc \in {"idle", "rounds", "derived"} /\ op \in {"new", "login"}
         /\ mk \in Keys \cup {Wiped} /\ salt \in Salts \cup {Wiped}
         /\ i \in 0..Iterations /\ cancel \in BOOLEAN /\ damaged \in BOOLEAN
         /\ result \in {"none", "ok", "wrong", "cancelled", "refused"}

\* a derivation has done i rounds of the standard's
Deriving ==
  /\ pc # "idle" => /\ mk \in Keys /\ salt \in Salts /\ i \in 1..Iterations
                    /\ \E x, h : Rounds(mk, salt, i, x, h) /\ u = x[i] /\ t = h[i]
                    /\ IsDigest(u) /\ IsDigest(t)
                    /\ opened = None /\ result = "none"
  /\ pc = "rounds"  => MacOf(hmac, mk)
  /\ pc = "derived" => i = Iterations

\* the rounds since a panic are not more than those since a poll
Cancels ==
  /\ late \in Nat /\ late < Poll
  /\ ~ cancel => late = 0
  /\ pc = "rounds" /\ cancel => late <= (i - 1) % Poll
  /\ cancel => session = None

Empty == /\ flash = None /\ active = None /\ session = None /\ sealed = None /\ opened = None
         /\ ~ damaged /\ result \notin {"wrong", "refused"}
         /\ pc # "idle" => op = "new"

\* g is what the last commit wrote
Kept(g) ==
  /\ IsSource(sealed) /\ Original(g, sealed)
  /\ IF damaged THEN Row(flash.body) /\ ~ ValidateCrc(flash) ELSE flash = g
  /\ active # None \/ session # None \/ (pc # "idle" /\ op = "login") => active = g.header
  /\ session # None => session = EncOf(sealed)
  /\ opened # None => opened = sealed.table
  /\ result = "wrong" => mk # sealed.mk
  /\ result = "refused" => damaged
  /\ pc # "idle" /\ op = "login" => salt = sealed.salt

Store == Empty \/ \E g : Kept(g)

SealingInv == Types /\ Deriving /\ Cancels /\ Store

\* the numbers that a derivation and its polls count to
LEMMA Bounds == /\ Iterations \in Nat /\ 0 < Iterations /\ Poll \in Nat /\ 0 < Poll /\ MaxVersion \in Nat
BY SealingAssumption

\* the invariant holds at first
LEMMA InitInv == Init => SealingInv
<1> SUFFICES ASSUME Init PROVE SealingInv
  OBVIOUS
<1>1. Types
  <2>1. i \in 0..Iterations
    BY Bounds DEF Init
  <2>2. cancel \in BOOLEAN /\ damaged \in BOOLEAN
    BY Zenon DEF Init
  <2> QED BY <2>1, <2>2 DEF Init, Types
<1>2. Deriving
  BY DEF Init, Deriving
<1>3. Cancels
  BY Bounds DEF Init, Cancels
<1>4. Store
  BY DEF Init, Store, Empty
<1> QED BY <1>1, <1>2, <1>3, <1>4 DEF SealingInv

\* the first round
LEMMA BeginInv ==
  ASSUME SealingInv, NEW caller \in {"new", "login"}, NEW key \in Keys, NEW s \in Salts, Begin(caller, key, s),
         caller = "login" => session = None /\ active # None /\ s = active.salt,
         caller = "new" => session # None \/ active = None
  PROVE  SealingInv'
<1>1. Types'
  <2>1. i' \in 0..Iterations
    BY Bounds DEF Begin
  <2>2. cancel' \in BOOLEAN
    BY DEF Begin
  <2>3. Types /\ damaged' = damaged
    BY DEF SealingInv, Begin, storeVars
  <2> QED BY <2>1, <2>2, <2>3 DEF Types, Begin
<1>2. Deriving'
  <2>1. IsKey(key) /\ Row(s \o BlockIndex)
    <3>1. Row(s) /\ Row(BlockIndex)
      BY ByteRows, LabelRow DEF BlockIndex
    <3> QED BY <3>1, ByteRows, Joined
  <2>2. MacOf(hmac', key)
    BY <2>1, InitIs DEF Begin
  <2>3. u' = RefHmac(key, s \o BlockIndex) /\ t' = u'
    BY <2>1, <2>2, ComputeIs DEF Begin
  <2>4. PICK x, h : Rounds(key, s, 1, x, h) /\ x[1] = u' /\ h[1] = u'
    BY <2>3, FirstRound
  <2>5. IsDigest(u')
    BY <2>3, MacRow DEF IsDigest
  <2>6. /\ mk' = key /\ salt' = s /\ i' = 1 /\ pc' = "rounds" /\ opened' = None /\ result' = "none"
        /\ 1 \in 1..Iterations
    BY Bounds DEF Begin
  <2>7. Rounds(mk', salt', i', x, h) /\ u' = x[i'] /\ t' = h[i']
    BY <2>3, <2>4, <2>6
  <2> QED BY <2>2, <2>3, <2>5, <2>6, <2>7 DEF Deriving
<1>3. Cancels'
  BY Bounds DEF Cancels, Begin
<1>4. Store'
  <2>1. /\ session' = session /\ active' = active /\ flash' = flash /\ sealed' = sealed /\ damaged' = damaged
        /\ op' = caller /\ salt' = s /\ pc' = "rounds" /\ opened' = None /\ result' = "none"
    BY DEF Begin, storeVars
  <2>2. CASE Empty
    <3>1. caller = "new"
      BY <2>2 DEF Empty
    <3> QED BY <2>1, <2>2, <3>1 DEF Empty, Store
  <2>3. ASSUME NEW g, Kept(g) PROVE Store'
    <3>1. caller = "login" => active = g.header /\ s = sealed.salt
      BY <2>3, OriginalIs DEF Kept
    <3>2. Kept(g)'
      BY <2>1, <2>3, <3>1 DEF Kept
    <3> QED BY <3>2 DEF Store
  <2> QED BY <2>2, <2>3 DEF SealingInv, Store
<1> QED BY <1>1, <1>2, <1>3, <1>4 DEF SealingInv

\* what was stored stays what it was when nothing of it changes
LEMMA StoreStays ==
  ASSUME Store, UNCHANGED <<flash, active, sealed, damaged, op, salt>>,
         session' \in {session, None}, opened' \in {opened, None},
         result' = result \/ result' \notin {"wrong", "refused"},
         result' = "wrong" => mk' = mk,
         pc' # "idle" => pc # "idle"
  PROVE  Store'
<1>1. CASE Empty
  <2>1. Empty'
    BY <1>1 DEF Empty
  <2> QED BY <2>1 DEF Store
<1>2. ASSUME NEW g, Kept(g) PROVE Store'
  <2>1. Kept(g)'
    BY <1>2 DEF Kept
  <2> QED BY <2>1 DEF Store
<1> QED BY <1>1, <1>2 DEF Store

\* what is left of the rounds of a poll
LEMMA Polls ==
  ASSUME NEW n \in Nat \ {0}, NEW k \in Nat \ {0}
  PROVE  /\ (k - 1) % n \in 0..(n - 1)
         /\ k % n # 0 => ((k - 1) % n) + 1 = k % n
<1>1. PICK o \in Nat : o = k - 1
  OBVIOUS
<1>2. PICK q \in Nat, r \in 0..(n - 1) : r = o % n /\ o = n * q + r
  <2>1. o \div n \in Nat /\ o % n \in 0..(n - 1) /\ o = n * (o \div n) + (o % n)
    BY Divided
  <2>2. PICK q, r : q = o \div n /\ r = o % n
    OBVIOUS
  <2> QED BY <2>1, <2>2
<1>3. CASE r + 1 < n
  <2>1. PICK y \in Nat : y = r + 1
    OBVIOUS
  <2>2. k = n * q + y /\ y < n
    <3>1. PICK m \in Nat : m = n * q
      OBVIOUS
    <3> QED BY <1>1, <1>2, <1>3, <2>1, <3>1
  <2>3. k % n = y
    BY <2>2, Quotient
  <2> QED BY <1>1, <1>2, <2>1, <2>3
<1>4. CASE r + 1 = n
  <2>1. PICK y \in Nat, p \in Nat : y = 0 /\ p = q + 1
    OBVIOUS
  <2>2. k = n * p + y /\ y < n
    <3>1. PICK m \in Nat : m = n * q
      OBVIOUS
    <3>2. n * p = m + n
      BY <2>1, <3>1
    <3> QED BY <1>1, <1>2, <1>4, <2>1, <3>1, <3>2
  <2>3. k % n = 0
    BY <2>1, <2>2, Quotient
  <2> QED BY <1>1, <1>2, <2>3
<1> QED BY <1>2, <1>3, <1>4

\* a digest remains one when another is added
LEMMA XorDigest ==
  ASSUME NEW s, NEW r, IsDigest(s)
  PROVE  IsDigest(XorBytes(s, r))
<1>1. PICK x : x = XorBytes(s, r)
  OBVIOUS
<1>2. x = [k \in 1..DigestLen |-> x[k]]
  BY <1>1 DEF XorBytes, IsDigest
<1> QED BY <1>1, <1>2, RowOf, Sizes DEF IsDigest

\* a further round, of which a panic leaves fewer than a poll
LEMMA RoundInv ==
  ASSUME SealingInv, Round
  PROVE  SealingInv'
<1>1. i \in Nat /\ 0 < i /\ i < Iterations /\ i' = i + 1 /\ i' \in 1..Iterations /\ pc = "rounds" /\ pc' = "rounds"
  BY Bounds DEF SealingInv, Deriving, Round
<1>2. /\ mk' = mk /\ salt' = salt /\ op' = op /\ hmac' = hmac /\ cancel' = cancel /\ session' = session
      /\ opened' = opened /\ result' = result /\ active' = active /\ flash' = flash /\ sealed' = sealed
      /\ damaged' = damaged
  BY DEF Round, storeVars
<1>3. Types'
  BY <1>1, <1>2, Bounds DEF SealingInv, Types
<1>4. Deriving'
  <2>1. PICK x, h : Rounds(mk, salt, i, x, h) /\ u = x[i] /\ t = h[i]
    BY <1>1 DEF SealingInv, Deriving
  <2>2. MacOf(hmac, mk) /\ mk \in Keys /\ salt \in Salts /\ IsDigest(u) /\ IsDigest(t) /\ opened = None /\ result = "none"
    BY <1>1 DEF SealingInv, Deriving
  <2>3. u' = RefHmac(mk, u) /\ t' = XorBytes(t, u')
    BY <2>2, ComputeIs DEF Round, IsDigest
  <2>4. PICK v : v = u' /\ v = RefHmac(mk, x[i])
    BY <2>1, <2>3
  <2>5. i \in Nat \ {0}
    BY <1>1
  <2>6. PICK y, g : Rounds(mk, salt, i + 1, y, g) /\ y[i + 1] = v /\ g[i + 1] = XorBytes(h[i], v)
    BY <2>1, <2>4, <2>5, NextRound
  <2>7. IsDigest(u') /\ IsDigest(t')
    BY <2>2, <2>3, MacRow, XorDigest DEF IsDigest
  <2>8. Rounds(mk', salt', i', y, g) /\ u' = y[i'] /\ t' = g[i']
    BY <1>1, <1>2, <2>1, <2>3, <2>4, <2>6, Zenon
  <2>9. MacOf(hmac', mk')
    BY <1>2, <2>2
  <2> QED BY <1>1, <1>2, <2>2, <2>7, <2>8, <2>9 DEF Deriving
<1>5. Cancels'
  <2>1. CASE ~ cancel
    BY <1>2, <2>1, Bounds DEF SealingInv, Cancels, Round
  <2>2. CASE cancel
    <3>1. PICK n \in Nat \ {0}, k \in Nat \ {0} : n = Poll /\ k = i
      BY <1>1, Bounds
    <3>2. late \in Nat /\ late <= (k - 1) % n /\ k % n # 0 /\ late' = late + 1 /\ session = None
      BY <1>1, <2>2, <3>1 DEF SealingInv, Cancels, Round, Polled
    <3>3. PICK r, m : r \in 0..(n - 1) /\ r = (k - 1) % n /\ m = k % n /\ r + 1 = m
      BY <3>1, <3>2, Polls
    <3>4. m < n
      <4>1. m \in 0..(n - 1)
        BY <3>3, Divided
      <4> QED BY <4>1
    <3>5. late' \in Nat /\ late' <= m /\ late' < n
      BY <3>2, <3>3, <3>4
    <3>6. i' - 1 = k
      BY <1>1, <3>1
    <3> QED BY <1>2, <2>2, <3>1, <3>2, <3>3, <3>5, <3>6 DEF Cancels
  <2> QED BY <2>1, <2>2
<1>6. Store'
  BY <1>1, <1>2, StoreStays DEF SealingInv
<1> QED BY <1>3, <1>4, <1>5, <1>6 DEF SealingInv

\* a derivation that is given up
LEMMA CancelInv ==
  ASSUME SealingInv, Cancel
  PROVE  SealingInv'
<1>1. /\ pc = "rounds" /\ pc' = "idle" /\ i' = 0 /\ result' = "cancelled"
      /\ mk' = mk /\ salt' = salt /\ op' = op /\ cancel' = cancel /\ late' = late /\ session' = session
      /\ opened' = opened /\ active' = active /\ flash' = flash /\ sealed' = sealed /\ damaged' = damaged
  BY DEF Cancel, KdfWipe, storeVars
<1>2. Types'
  BY <1>1, Bounds DEF SealingInv, Types
<1>3. Deriving'
  BY <1>1 DEF Deriving
<1>4. Cancels'
  BY <1>1 DEF SealingInv, Cancels
<1>5. Store'
  BY <1>1, StoreStays DEF SealingInv
<1> QED BY <1>2, <1>3, <1>4, <1>5 DEF SealingInv

\* the last round
LEMMA RoundsDoneInv ==
  ASSUME SealingInv, RoundsDone
  PROVE  SealingInv'
<1>1. /\ pc = "rounds" /\ pc' = "derived" /\ i >= Iterations /\ i' = i /\ u' = u /\ t' = t
      /\ mk' = mk /\ salt' = salt /\ op' = op /\ cancel' = cancel /\ late' = late /\ session' = session
      /\ opened' = opened /\ active' = active /\ flash' = flash /\ sealed' = sealed /\ damaged' = damaged
      /\ result' = result
  BY DEF RoundsDone, kdfVars, storeVars
<1>2. Types'
  BY <1>1 DEF SealingInv, Types
<1>3. Deriving'
  <2>1. PICK x, h : Rounds(mk, salt, i, x, h) /\ u = x[i] /\ t = h[i]
    BY <1>1 DEF SealingInv, Deriving
  <2>2. /\ mk \in Keys /\ salt \in Salts /\ i \in 1..Iterations /\ IsDigest(u) /\ IsDigest(t)
        /\ opened = None /\ result = "none"
    BY <1>1 DEF SealingInv, Deriving
  <2>3. i = Iterations
    BY <1>1, <2>2, Bounds
  <2>4. Rounds(mk', salt', i', x, h) /\ u' = x[i'] /\ t' = h[i']
    BY <1>1, <2>1
  <2> QED BY <1>1, <2>2, <2>3, <2>4 DEF Deriving
<1>4. Cancels'
  BY <1>1 DEF SealingInv, Cancels
<1>5. Store'
  BY <1>1, StoreStays DEF SealingInv
<1> QED BY <1>2, <1>3, <1>4, <1>5 DEF SealingInv

\* a panic at any time
LEMMA PanicInv ==
  ASSUME SealingInv, Panic
  PROVE  SealingInv'
<1>1. /\ cancel' = TRUE /\ session' = None /\ opened' = None /\ pc' = pc /\ i' = i /\ u' = u /\ t' = t /\ hmac' = hmac
      /\ mk' = mk /\ salt' = salt /\ op' = op /\ late' = late
      /\ active' = active /\ flash' = flash /\ sealed' = sealed /\ damaged' = damaged /\ result' = result
  BY DEF Panic, kdfVars, storeVars
<1>2. Types'
  BY <1>1 DEF SealingInv, Types
<1>3. Deriving'
  <2>1. CASE pc = "idle"
    BY <1>1, <2>1 DEF Deriving
  <2>2. CASE pc # "idle"
    <3>1. PICK x, h : Rounds(mk, salt, i, x, h) /\ u = x[i] /\ t = h[i]
      BY <2>2 DEF SealingInv, Deriving
    <3>2. Rounds(mk', salt', i', x, h) /\ u' = x[i'] /\ t' = h[i']
      BY <1>1, <3>1
    <3> QED BY <1>1, <2>2, <3>2 DEF SealingInv, Deriving
  <2> QED BY <2>1, <2>2
<1>4. Cancels'
  <2>1. pc = "rounds" => (i - 1) % Poll \in Nat
    <3>1. SUFFICES ASSUME pc = "rounds" PROVE (i - 1) % Poll \in Nat
      OBVIOUS
    <3>2. PICK n \in Nat \ {0}, k \in Nat \ {0} : n = Poll /\ k = i
      BY <3>1, Bounds DEF SealingInv, Deriving
    <3>3. (k - 1) % n \in Nat
      BY Polls
    <3> QED BY <3>2, <3>3
  <2>2. late' \in Nat /\ late' < Poll /\ session' = None /\ cancel'
    BY <1>1 DEF SealingInv, Cancels
  <2>3. ASSUME pc' = "rounds" PROVE late' <= (i' - 1) % Poll
    <3>1. CASE cancel
      BY <1>1, <2>3, <3>1 DEF SealingInv, Cancels
    <3>2. CASE ~ cancel
      BY <1>1, <2>1, <2>3, <3>2 DEF SealingInv, Cancels
    <3> QED BY <3>1, <3>2
  <2> QED BY <2>2, <2>3 DEF Cancels
<1>5. Store'
  BY <1>1, StoreStays DEF SealingInv
<1> QED BY <1>2, <1>3, <1>4, <1>5 DEF SealingInv

\* flash that goes bad
LEMMA DamageInv ==
  ASSUME SealingInv, Damage
  PROVE  SealingInv'
<1>1. /\ flash # None /\ ~ damaged /\ damaged' /\ damaged' \in BOOLEAN /\ cancel' = cancel /\ session' = session
      /\ opened' = opened /\ pc' = pc /\ i' = i /\ u' = u /\ t' = t /\ hmac' = hmac
      /\ mk' = mk /\ salt' = salt /\ op' = op /\ late' = late
      /\ active' = active /\ sealed' = sealed /\ result' = result
  BY DEF Damage, kdfVars
<1>2. Types'
  BY <1>1 DEF SealingInv, Types
<1>3. Deriving'
  <2>1. CASE pc = "idle"
    BY <1>1, <2>1 DEF Deriving
  <2>2. CASE pc # "idle"
    <3>1. PICK x, h : Rounds(mk, salt, i, x, h) /\ u = x[i] /\ t = h[i]
      BY <2>2 DEF SealingInv, Deriving
    <3>2. Rounds(mk', salt', i', x, h) /\ u' = x[i'] /\ t' = h[i']
      BY <1>1, <3>1
    <3> QED BY <1>1, <2>2, <3>2 DEF SealingInv, Deriving
  <2> QED BY <2>1, <2>2
<1>4. Cancels'
  BY <1>1 DEF SealingInv, Cancels
<1>5. Store'
  <2>1. PICK g : Kept(g)
    BY <1>1 DEF SealingInv, Store, Empty
  <2>2. flash = g /\ Sound(g)
    BY <1>1, <2>1, OriginalIs DEF Kept
  <2>3. Harmed(flash', g)
    BY <2>2, Zenon DEF Damage, Harmed, Hurt
  <2>4. Row(flash'.body) /\ ~ ValidateCrc(flash')
    BY <2>2, <2>3, DamageFound
  <2>5. Kept(g)'
    BY <1>1, <2>1, <2>4 DEF Kept
  <2> QED BY <2>5 DEF Store
<1> QED BY <1>2, <1>3, <1>4, <1>5 DEF SealingInv

\* a boot, which takes the partition only when it validates
LEMMA BootInv ==
  ASSUME SealingInv, Boot
  PROVE  SealingInv'
<1>1. /\ flash # None /\ active' = (IF ValidateCrc(flash) THEN flash.header ELSE None)
      /\ pc' = "idle" /\ mk' = Wiped /\ salt' = Wiped /\ i' = 0
      /\ cancel' = FALSE /\ late' = 0 /\ session' = None /\ opened' = None /\ result' = "none"
      /\ op' = op /\ flash' = flash /\ sealed' = sealed /\ damaged' = damaged
  BY DEF Boot, KdfWipe
<1>2. Types'
  <2>1. cancel' \in BOOLEAN
    BY <1>1
  <2>2. i' \in 0..Iterations
    BY <1>1, Bounds
  <2> QED BY <1>1, <2>1, <2>2 DEF SealingInv, Types
<1>3. Deriving'
  BY <1>1 DEF Deriving
<1>4. Cancels'
  BY <1>1, Bounds DEF Cancels
<1>5. Store'
  <2>1. PICK g : Kept(g)
    BY <1>1 DEF SealingInv, Store, Empty
  <2>2. active' # None => active' = g.header
    BY <1>1, <2>1 DEF Kept
  <2>3. Kept(g)'
    BY <1>1, <2>1, <2>2 DEF Kept
  <2> QED BY <2>3 DEF Store
<1> QED BY <1>2, <1>3, <1>4, <1>5 DEF SealingInv

\* a body that the tag is of is the one it was made of
LEMMA TaggedBody ==
  ASSUME NEW enc, IsDigest(enc), NEW h, IsHeader(h), NEW b, NEW c, Row(b), Row(c),
         ComputeTag(DeriveKeys(enc), h, b) = ComputeTag(DeriveKeys(enc), h, c)
  PROVE  b = c
<1>1. PICK key, p : key = HmacSha256(enc, Text("mac")) /\ p = UpToTag(h)
  OBVIOUS
<1>2. IsKey(key) /\ Row(p)
  BY <1>1, SubKey, DigestKey, HeaderIs
<1>3. RefHmac(key, p \o b) = RefHmac(key, p \o c)
  <2>1. ComputeTag(DeriveKeys(enc), h, b) = RefHmac(key, p \o b)
    BY <1>1, TagIs
  <2>2. ComputeTag(DeriveKeys(enc), h, c) = RefHmac(key, p \o c)
    BY <1>1, TagIs
  <2> QED BY <2>1, <2>2
<1>4. PICK y, z : y = p \o b /\ z = p \o c
  OBVIOUS
<1>5. Glued(y, p, b) /\ Glued(z, p, c)
  BY <1>2, <1>4, Glue
<1>6. Row(y) /\ Row(z)
  BY <1>5 DEF Glued
<1>7. y = z
  BY <1>2, <1>3, <1>4, <1>6, SameMac
<1> QED BY <1>2, <1>5, <1>7, SameHalves

\* a load, which gives the table only when the tag is that of the body
LEMMA LoadInv ==
  ASSUME SealingInv, Load
  PROVE  SealingInv'
<1>1. /\ pc = "idle" /\ session # None /\ cancel' = cancel /\ session' = session
      /\ pc' = pc /\ i' = i /\ mk' = mk /\ salt' = salt /\ op' = op /\ late' = late /\ flash' = flash /\ damaged' = damaged
      /\ active' = active /\ sealed' = sealed
  BY DEF Load, kdfVars, storeVars
<1>2. PICK keys : keys = DeriveKeys(session)
  OBVIOUS
<1>3. IF ComputeTag(keys, active, flash.body) = active.tag
        THEN opened' = AesCtr_Apply(flash.body, keys.aes, active.iv) /\ result' = "ok"
        ELSE opened' = None /\ result' = "refused"
  BY <1>2, Zenon DEF Load
<1>4. Types'
  BY <1>1, <1>3 DEF SealingInv, Types
<1>5. Deriving'
  BY <1>1 DEF Deriving
<1>6. Cancels'
  BY <1>1 DEF SealingInv, Cancels
<1>7. Store'
  <2>1. PICK g : Kept(g)
    BY <1>1 DEF SealingInv, Store, Empty
  <2>2. active = g.header /\ session = EncOf(sealed) /\ IsSource(sealed) /\ Original(g, sealed)
    BY <1>1, <2>1 DEF Kept
  <2>3. /\ Sound(g) /\ IsDigest(session) /\ ComputeTag(keys, g.header, g.body) = g.header.tag
        /\ AesCtr_Apply(g.body, keys.aes, g.header.iv) = sealed.table
    BY <1>2, <2>2, OriginalIs
  <2>4. ~ damaged => flash = g
    BY <2>1 DEF Kept
  <2>5. CASE ComputeTag(keys, active, flash.body) = active.tag
    <3>1. Row(flash.body) /\ Row(g.body) /\ IsHeader(g.header)
      BY <2>1, <2>3 DEF Kept, Sound
    <3>2. ComputeTag(keys, g.header, flash.body) = ComputeTag(keys, g.header, g.body)
      BY <2>2, <2>3, <2>5
    <3>3. flash.body = g.body
      BY <1>2, <2>3, <3>1, <3>2, TaggedBody
    <3>4. opened' = sealed.table /\ result' = "ok"
      BY <1>3, <2>2, <2>3, <2>5, <3>3
    <3>5. Kept(g)'
      BY <1>1, <2>1, <2>2, <3>4 DEF Kept
    <3> QED BY <3>5 DEF Store
  <2>6. CASE ComputeTag(keys, active, flash.body) # active.tag
    <3>1. damaged /\ opened' = None /\ result' = "refused"
      BY <1>3, <2>2, <2>3, <2>4, <2>6
    <3>2. Kept(g)'
      BY <1>1, <2>1, <2>2, <3>1 DEF Kept
    <3> QED BY <3>2 DEF Store
  <2> QED BY <2>5, <2>6
<1> QED BY <1>4, <1>5, <1>6, <1>7 DEF SealingInv

\* what a derivation gave
LEMMA DerivedIs ==
  ASSUME SealingInv, pc = "derived"
  PROVE  t = RefDerived(mk, salt) /\ IsDigest(t) /\ mk \in Keys /\ salt \in Salts /\ opened = None
<1>1. PICK x, h : Rounds(mk, salt, i, x, h) /\ t = h[i]
  BY DEF SealingInv, Deriving
<1>2. i = Iterations /\ IsDigest(t) /\ mk \in Keys /\ salt \in Salts /\ opened = None
  BY DEF SealingInv, Deriving
<1>3. Rounds(mk, salt, Iterations, x, h) /\ t = h[Iterations]
  BY <1>1, <1>2
<1>4. t = RefDerived(mk, salt)
  BY <1>3, AllRounds
<1> QED BY <1>2, <1>4

\* a login, which opens the session only when what it derived is what was sealed with
LEMMA LoginInv ==
  ASSUME SealingInv, Login
  PROVE  SealingInv'
<1>1. /\ pc = "derived" /\ op = "login" /\ cancel' = cancel /\ pc' = "idle" /\ i' = 0 /\ mk' = mk /\ salt' = salt
      /\ op' = op /\ late' = late /\ flash' = flash /\ damaged' = damaged
      /\ active' = active /\ sealed' = sealed /\ opened' = opened
  BY DEF Login, KdfWipe, storeVars
<1>2. \/ Auth # active.auth /\ result' = "wrong" /\ session' = session
      \/ Auth = active.auth /\ cancel /\ result' = "cancelled" /\ session' = session
      \/ Auth = active.auth /\ ~ cancel /\ result' = "ok" /\ session' = Enc
  BY DEF Login
<1>3. Types'
  BY <1>1, <1>2, Bounds DEF SealingInv, Types
<1>4. Deriving'
  BY <1>1 DEF Deriving
<1>5. Cancels'
  BY <1>1, <1>2 DEF SealingInv, Cancels
<1>6. Store'
  <2>1. PICK g : Kept(g)
    BY <1>1 DEF SealingInv, Store, Empty
  <2>2. active = g.header /\ salt = sealed.salt /\ IsSource(sealed) /\ Original(g, sealed)
    BY <1>1, <2>1 DEF Kept
  <2>3. t = RefDerived(mk, salt) /\ IsDigest(t) /\ opened = None
    BY <1>1, DerivedIs
  <2>4. active.auth = AuthOf(sealed)
    BY <2>2, OriginalIs
  <2>5. session' # None => session' = EncOf(sealed)
    <3>1. CASE session' = session
      BY <2>1, <3>1 DEF Kept
    <3>2. CASE Auth = active.auth /\ session' = Enc
      <4>1. PICK d : d = DerivedOf(sealed) /\ IsDigest(d)
        BY <2>2 DEF IsSource
      <4>2. HmacSha256(t, Text("auth")) = HmacSha256(d, Text("auth"))
        BY <2>4, <3>2, <4>1 DEF Auth, AuthOf
      <4>3. t = d
        BY <2>3, <4>1, <4>2, SameSubKey
      <4> QED BY <3>2, <4>1, <4>3 DEF Enc, EncOf
    <3> QED BY <1>2, <3>1, <3>2
  <2>6. result' = "wrong" => mk # sealed.mk
    <3>1. SUFFICES ASSUME Auth # active.auth, mk = sealed.mk PROVE FALSE
      BY <1>2
    <3>2. t = DerivedOf(sealed)
      BY <2>2, <2>3, <3>1 DEF DerivedOf
    <3> QED BY <2>4, <3>1, <3>2 DEF Auth, AuthOf
  <2>7. result' # "refused"
    BY <1>2
  <2>8. Kept(g)'
    BY <1>1, <2>1, <2>2, <2>3, <2>5, <2>6, <2>7 DEF Kept
  <2> QED BY <2>8 DEF Store
<1> QED BY <1>3, <1>4, <1>5, <1>6 DEF SealingInv

\* a commit keeps the store, whatever it was before
LEMMA CommitKeeps ==
  ASSUME SealingInv, NEW s \in Salts, NEW from \in Keys, NEW table \in Tables, NEW enc, NEW a, NEW d,
         d = RefDerived(from, s), IsDigest(d), enc = HmacSha256(d, Text("enc")), a = HmacSha256(d, Text("auth")),
         Partition_Store_Commit(enc, s, a, table, from),
         session' = enc, result' = "ok", opened' = None, pc' = "idle"
  PROVE  Store'
<1>1. PICK iv \in Ivs : flash' = Sealed(enc, s, a, NextVersion, iv, table)
  BY DEF Partition_Store_Commit
<1>2. NextVersion <= MaxVersion /\ active' = flash'.header /\ ~ damaged' /\ sealed' = [mk |-> from, salt |-> s, table |-> table]
  BY DEF Partition_Store_Commit
<1>3. NextVersion \in 1..MaxVersion
  <2>1. CASE active = None
    BY <1>2, <2>1, Bounds DEF NextVersion
  <2>2. CASE active # None
    <3>1. PICK g : Kept(g)
      BY <2>2 DEF SealingInv, Store, Empty
    <3>2. active = g.header /\ IsSource(sealed) /\ Original(g, sealed)
      BY <2>2, <3>1 DEF Kept
    <3>3. active.version \in 1..MaxVersion
      BY <3>2, OriginalIs
    <3> QED BY <1>2, <2>2, <3>3, Bounds DEF NextVersion
  <2> QED BY <2>1, <2>2
<1>4. PICK g : g = flash'
  OBVIOUS
<1>5. /\ sealed' \in [mk : Keys, salt : Salts, table : Tables]
      /\ sealed'.mk = from /\ sealed'.salt = s /\ sealed'.table = table
  BY <1>2
<1>6. DerivedOf(sealed') = d /\ EncOf(sealed') = enc /\ AuthOf(sealed') = a
  BY <1>5 DEF DerivedOf, EncOf, AuthOf
<1>7. IsSource(sealed')
  BY <1>5, <1>6 DEF IsSource
<1>8. Original(g, sealed')
  <2>1. g = Sealed(EncOf(sealed'), sealed'.salt, AuthOf(sealed'), NextVersion, iv, sealed'.table)
    BY <1>1, <1>4, <1>5, <1>6, Zenon
  <2> QED BY <1>3, <2>1 DEF Original
<1>9. Kept(g)'
  BY <1>2, <1>4, <1>6, <1>7, <1>8 DEF Kept
<1> QED BY <1>9 DEF Store

\* a new key, which seals the table anew unless a panic came
LEMMA SetNewKeyInv ==
  ASSUME SealingInv, SetNewKey
  PROVE  SealingInv'
<1>1. /\ pc = "derived" /\ op = "new" /\ cancel' = cancel /\ pc' = "idle" /\ i' = 0 /\ mk' = mk /\ salt' = salt
      /\ op' = op /\ late' = late /\ opened' = opened
  BY DEF SetNewKey, KdfWipe
<1>2. t = RefDerived(mk, salt) /\ IsDigest(t) /\ mk \in Keys /\ salt \in Salts /\ opened = None
  BY <1>1, DerivedIs
<1>3. CASE /\ cancel /\ result' = "cancelled"
           /\ UNCHANGED <<session, storeVars>>
  <2>1. session' = session /\ active' = active /\ flash' = flash /\ sealed' = sealed /\ damaged' = damaged
    BY <1>3 DEF storeVars
  <2>2. Types'
    BY <1>1, <1>3, <2>1, Bounds DEF SealingInv, Types
  <2>3. Deriving'
    BY <1>1 DEF Deriving
  <2>4. Cancels'
    BY <1>1, <2>1 DEF SealingInv, Cancels
  <2>5. Store'
    BY <1>1, <1>3, <2>1, StoreStays DEF SealingInv
  <2> QED BY <2>2, <2>3, <2>4, <2>5 DEF SealingInv
<1>4. ASSUME ~ cancel, result' = "ok", session' = Enc,
             NEW table \in Tables, Partition_Store_Commit(Enc, salt, Auth, table, mk)
      PROVE  SealingInv'
  <2>1. damaged' = FALSE
    BY <1>4 DEF Partition_Store_Commit
  <2>2. damaged' \in BOOLEAN
    BY <2>1
  <2>3. Types'
    BY <1>1, <1>4, <2>2, Bounds DEF SealingInv, Types
  <2>4. Deriving'
    BY <1>1 DEF Deriving
  <2>5. Cancels'
    BY <1>1, <1>4 DEF SealingInv, Cancels
  <2>6. PICK d : d = t
    OBVIOUS
  <2>7. Enc = HmacSha256(d, Text("enc")) /\ Auth = HmacSha256(d, Text("auth"))
    BY <2>6 DEF Enc, Auth
  <2>8. Store'
    BY <1>1, <1>2, <1>4, <2>6, <2>7, CommitKeeps
  <2> QED BY <2>3, <2>4, <2>5, <2>8 DEF SealingInv
<1> QED BY <1>3, <1>4 DEF SetNewKey

\* a save, which seals another table under the same key
LEMMA SaveInv ==
  ASSUME SealingInv, Save
  PROVE  SealingInv'
<1>1. /\ pc = "idle" /\ session # None /\ cancel' = cancel /\ session' = session /\ pc' = pc /\ i' = i
      /\ mk' = mk /\ salt' = salt /\ op' = op /\ late' = late /\ opened' = None /\ result' = "ok"
  BY DEF Save, kdfVars
<1>2. PICK table \in Tables : Partition_Store_Commit(session, active.salt, active.auth, table, sealed.mk)
  BY DEF Save
<1>3. damaged' \in BOOLEAN
  <2>1. damaged' = FALSE
    BY <1>2 DEF Partition_Store_Commit
  <2> QED BY <2>1
<1>4. Types'
  BY <1>1, <1>3 DEF SealingInv, Types
<1>5. Deriving'
  BY <1>1 DEF Deriving
<1>6. Cancels'
  BY <1>1 DEF SealingInv, Cancels
<1>7. Store'
  <2>1. PICK g : Kept(g)
    BY <1>1 DEF SealingInv, Store, Empty
  <2>2. active = g.header /\ session = EncOf(sealed) /\ IsSource(sealed) /\ Original(g, sealed)
    BY <1>1, <2>1 DEF Kept
  <2>3. active.salt = sealed.salt /\ active.auth = AuthOf(sealed)
    BY <2>2, OriginalIs
  <2>4. PICK s, from, enc, a, d : s = sealed.salt /\ from = sealed.mk /\ enc = session /\ a = active.auth /\ d = DerivedOf(sealed)
    OBVIOUS
  <2>5. /\ s \in Salts /\ from \in Keys /\ d = RefDerived(from, s) /\ IsDigest(d)
        /\ enc = HmacSha256(d, Text("enc")) /\ a = HmacSha256(d, Text("auth"))
    BY <2>2, <2>3, <2>4 DEF IsSource, EncOf, AuthOf, DerivedOf
  <2>6. Partition_Store_Commit(enc, s, a, table, from)
    BY <1>2, <2>3, <2>4
  <2>7. session' = enc /\ pc' = "idle"
    BY <1>1, <2>4
  <2> QED BY <1>1, <2>5, <2>6, <2>7, CommitKeeps
<1> QED BY <1>4, <1>5, <1>6, <1>7 DEF SealingInv

\* and a step that changes nothing
LEMMA StutterInv ==
  ASSUME SealingInv, UNCHANGED vars
  PROVE  SealingInv'
<1>1. /\ cancel' = cancel /\ session' = session /\ opened' = opened /\ pc' = pc /\ i' = i /\ u' = u /\ t' = t /\ hmac' = hmac
      /\ mk' = mk /\ salt' = salt /\ op' = op /\ late' = late
      /\ active' = active /\ flash' = flash /\ sealed' = sealed /\ damaged' = damaged /\ result' = result
  BY DEF vars, kdfVars, storeVars
<1>2. Types'
  BY <1>1 DEF SealingInv, Types
<1>3. Deriving'
  <2>1. CASE pc = "idle"
    BY <1>1, <2>1 DEF Deriving
  <2>2. CASE pc # "idle"
    <3>1. PICK x, h : Rounds(mk, salt, i, x, h) /\ u = x[i] /\ t = h[i]
      BY <2>2 DEF SealingInv, Deriving
    <3>2. Rounds(mk', salt', i', x, h) /\ u' = x[i'] /\ t' = h[i']
      BY <1>1, <3>1
    <3> QED BY <1>1, <2>2, <3>2 DEF SealingInv, Deriving
  <2> QED BY <2>1, <2>2
<1>4. Cancels'
  BY <1>1 DEF SealingInv, Cancels
<1>5. Store'
  BY <1>1, StoreStays DEF SealingInv
<1> QED BY <1>2, <1>3, <1>4, <1>5 DEF SealingInv

\* the operations that begin a derivation
LEMMA StartInv ==
  ASSUME SealingInv, Start
  PROVE  SealingInv'
<1>1. CASE \E key \in Keys, s \in Salts : session = None /\ active = None /\ Begin("new", key, s)
  BY <1>1, BeginInv
<1>2. CASE \E key \in Keys, s \in Salts : session # None /\ Begin("new", key, s)
  BY <1>2, BeginInv
<1>3. CASE \E key \in Keys : session = None /\ active # None /\ Begin("login", key, active.salt)
  <2>1. PICK key \in Keys : session = None /\ active # None /\ Begin("login", key, active.salt)
    BY <1>3
  <2>2. PICK g : Kept(g)
    BY <2>1 DEF SealingInv, Store, Empty
  <2>3. active = g.header /\ IsSource(sealed) /\ Original(g, sealed)
    BY <2>1, <2>2 DEF Kept
  <2>4. PICK s \in Salts : s = active.salt
    BY <2>3, OriginalIs DEF IsSource
  <2>5. Begin("login", key, s)
    BY <2>1, <2>4
  <2> QED BY <2>1, <2>4, <2>5, BeginInv
<1> QED BY <1>1, <1>2, <1>3 DEF Start

\* every step keeps the invariant
LEMMA NextInv == SealingInv /\ [Next]_vars => SealingInv'
BY StartInv, RoundInv, CancelInv, RoundsDoneInv, SetNewKeyInv, LoginInv, SaveInv, LoadInv, PanicInv, DamageInv,
   BootInv, StutterInv DEF Next

\* the invariant holds in every state of the specification: what a derivation has
\* computed, what a panic leaves of it, and that what is in flash is what the last
\* commit wrote or does not validate
THEOREM SealingInvariant == Spec => []SealingInv
BY InitInv, NextInv, PTL DEF Spec

\* Types: digests have their length, the active header is one that was written,
\* and no load gives anything that is not a table.
THEOREM SealingTypes == Spec => []TypeOK
<1>1. SealingInv => TypeOK
  <2> SUFFICES ASSUME SealingInv PROVE TypeOK
    OBVIOUS
  <2>1. pc # "idle" => DOMAIN u = 1..DigestLen /\ DOMAIN t = 1..DigestLen
    BY DEF SealingInv, Deriving, IsDigest
  <2>2. late \in Nat
    BY DEF SealingInv, Cancels
  <2>3. /\ session # None => DOMAIN session = 1..DigestLen
        /\ active # None => active.version \in 1..MaxVersion /\ active.iv \in Ivs
        /\ sealed # None => sealed.mk \in Keys /\ sealed.salt \in Salts /\ sealed.table \in Tables
        /\ opened = None \/ opened \in Tables
    <3>1. CASE Empty
      BY <3>1 DEF Empty
    <3>2. ASSUME NEW g, Kept(g)
          PROVE  /\ session # None => DOMAIN session = 1..DigestLen
                 /\ active # None => active.version \in 1..MaxVersion /\ active.iv \in Ivs
                 /\ sealed # None => sealed.mk \in Keys /\ sealed.salt \in Salts /\ sealed.table \in Tables
                 /\ opened = None \/ opened \in Tables
      <4>1. IsSource(sealed) /\ Original(g, sealed)
        BY <3>2 DEF Kept
      <4>2. sealed.mk \in Keys /\ sealed.salt \in Salts /\ sealed.table \in Tables
        BY <4>1 DEF IsSource
      <4>3. session # None => DOMAIN session = 1..DigestLen
        BY <3>2, <4>1, OriginalIs DEF Kept, IsDigest
      <4>4. active # None => active.version \in 1..MaxVersion /\ active.iv \in Ivs
        BY <3>2, <4>1, OriginalIs DEF Kept
      <4>5. opened = None \/ opened \in Tables
        BY <3>2, <4>2 DEF Kept
      <4> QED BY <4>2, <4>3, <4>4, <4>5
    <3> QED BY <3>1, <3>2 DEF SealingInv, Store
  <2> QED BY <2>1, <2>2, <2>3 DEF SealingInv, Types, TypeOK
<1> QED BY <1>1, SealingInvariant, PTL

\* What Kdf_Pbkdf2Sha256 ends with is PBKDF2 with HMAC-SHA-256 as the standards
\* define them, for every length of key, salt, block, length field and digest:
\* streaming, padding and the block that spills over change nothing.
THEOREM DerivationIsPbkdf2 == Spec => []KeyIsReference
<1>1. SealingInv => KeyIsReference
  BY DerivedIs DEF KeyIsReference
<1> QED BY <1>1, SealingInvariant, PTL

\* A session is open only with the key that sealed the partition, a login is
\* refused only for another master key, and Session_LoadTable gives the table that
\* was sealed or, only when flash has changed, refuses.
THEOREM OnlyItsKeyOpens == Spec => []OpensWithItsKeyOnly
<1>1. SealingInv => OpensWithItsKeyOnly
  <2> SUFFICES ASSUME SealingInv PROVE OpensWithItsKeyOnly
    OBVIOUS
  <2>1. CASE Empty
    BY <2>1 DEF Empty, OpensWithItsKeyOnly
  <2>2. ASSUME NEW g, Kept(g) PROVE OpensWithItsKeyOnly
    BY <2>2 DEF Kept, EncOf, DerivedOf, OpensWithItsKeyOnly
  <2> QED BY <2>1, <2>2 DEF SealingInv, Store
<1> QED BY <1>1, SealingInvariant, PTL

\* Partition_Store_Init takes a partition exactly when it is still what a commit
\* wrote, although the commit checksums the table whole and the boot in chunks.
THEOREM BootSeesDamage == Spec => []DamageIsSeen
<1>1. SealingInv => DamageIsSeen
  <2> SUFFICES ASSUME SealingInv, flash # None PROVE ValidateCrc(flash) <=> ~ damaged
    BY DEF DamageIsSeen
  <2>1. PICK g : Kept(g)
    BY DEF SealingInv, Store, Empty
  <2>2. ~ damaged => flash = g /\ ValidateCrc(g)
    BY <2>1, OriginalIs DEF Kept
  <2>3. damaged => ~ ValidateCrc(flash)
    BY <2>1 DEF Kept
  <2> QED BY <2>2, <2>3
<1> QED BY <1>1, SealingInvariant, PTL

\* AesCtr_Apply uses no byte of the key stream twice within a table, from any
\* counter block, wherever the carry goes or the counter wraps.
THEOREM NoByteServesTwice == Spec => []KeystreamUsedOnce
<1>1. SealingInv => KeystreamUsedOnce
  <2> SUFFICES ASSUME SealingInv, flash # None, ~ damaged, NEW j \in DOMAIN flash.body, NEW k \in DOMAIN flash.body, j # k
               PROVE  Xor(flash.body[j], sealed.table[j]) # Xor(flash.body[k], sealed.table[k])
    BY DEF KeystreamUsedOnce
  <2>1. PICK g : Kept(g)
    BY DEF SealingInv, Store, Empty
  <2>2. IsSource(sealed) /\ Original(g, sealed) /\ flash = g
    BY <2>1 DEF Kept
  <2>3. PICK s, iv, key : s = sealed.table /\ iv = g.header.iv /\ key = DeriveKeys(EncOf(sealed)).aes
    OBVIOUS
  <2>4. s \in Tables /\ iv \in Ivs /\ flash.body = AesCtr_Apply(s, key, iv)
    BY <2>2, <2>3, OriginalIs DEF IsSource
  <2>5. PICK d \in Nat : d = Len(iv) /\ iv \in [1..d -> Digits] /\ Len(s) <= CipherLen * Counters[d]
    BY <2>4, ByteRows, CounterAssumption
  <2>6. Row(s)
    BY <2>4, ByteRows
  <2>7. DOMAIN flash.body = 1..Len(s)
    <3>1. PICK b : b = AesCtr_Apply(s, key, iv)
      OBVIOUS
    <3>2. Row(b) /\ Len(b) = Len(s)
      BY <2>6, <3>1, ThereAndBack
    <3> QED BY <2>4, <3>1, <3>2, RowIs
  <2>8. ASSUME NEW a \in 1..Len(s), NEW b \in 1..Len(s), a < b
        PROVE  Xor(flash.body[a], s[a]) # Xor(flash.body[b], s[b])
    BY <2>4, <2>5, <2>6, <2>8, StreamDiffers
  <2>9. j < k \/ k < j
    <3>1. Len(s) \in Nat
      BY <2>6, RowIs
    <3> QED BY <2>7, <3>1
  <2> QED BY <2>3, <2>7, <2>8, <2>9
<1> QED BY <1>1, SealingInvariant, PTL

\* After a panic Kdf_Pbkdf2Sha256 does fewer rounds than lie between two polls,
\* and no session comes of the derivation.
THEOREM CancelsPromptly == Spec => []CancelIsPrompt
<1>1. SealingInv => CancelIsPrompt
  BY DEF SealingInv, Cancels, CancelIsPrompt
<1> QED BY <1>1, SealingInvariant, PTL
=============================================================================
